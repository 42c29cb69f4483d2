# A TLA+ model of go-anansi

go-anansi is a persistence library: collections of documents with versioned
schemas, over SQL databases (SQLite) or an in-memory store. These modules model
the parts of it where order, concurrency and failure matter, and those of its
data structures and algorithms whose steps can go wrong together. TLC checks them
on small instances; TLAPS proves the most important properties for all instances.
Every definition is a translation of the Go code; the paths below are relative to
`src/`.

## The system

| component | state | operations | talks to |
|---|---|---|---|
| transaction coordinator, `core/persistence/transaction` | `pending`, `changed`, `errChan`, `committed`, hook lists of one transaction | `Execute`, `AddOperation` and its clean-up, `WaitForOperations`, `Commit`, `Rollback`, `OnCommit`, `OnRollback` | its interactor; every collection operation and `Async` joins it through the context |
| native interactor and SQL session, `core/query/native`, `sqlite/executor` | the `sql.Tx`, `done` | `StartTransaction` and its cancellation watcher, `Commit`, `Rollback`, statements | `database/sql` |
| in-memory backend, `core/ephemeral` | the root's collections, the clones of transactions, `mu`, `txMu` | transactions by cloning, documents, DDL, queries | the same interface as the native one |
| managed cache, `core/cache` | shards (map, CLOCK list and hand), a shared counter, a janitor, a watermark evictor | `Set`, `Nullify`, `GetStatus`, `Evict`, `Persist`, `Clear`, `Close` | the registry, live and model collections |
| collection registry, `core/persistence/registry` | rows of `_schemas_`, physical collections, its cache | `CreateCollections`, `AddSchemaVersion`, `SetActiveVersion`, `PruneVersion`, `DropCollection`, reads | the coordinator (one `Execute` per change), the schema manager |
| persistence facade, `core/persistence/persistence` | map of collections, `txMu`, subscriptions | `Transact`, `Async`, `Migrate`, `Collection`, `Close` | all of the above |
| collections, `core/persistence/collection` | none of their own; live and model collections cache artifacts | `Create`, `Read`, `Update`, `Delete`, `Transact` | the coordinator, the registry, the event emitter |
| migration, `core/persistence/migration`, `persistence/base.go` | the registry's entry and the tables of one collection | `Migrate` in place or by copy, `Rollback` | registry, tables, the transaction it may run in |
| orchestrator, `core/persistence/orchestrator` | routes, backends, subscriptions | routing, creation, deletion, `Subscribe`, `Close` | several facades |
| event emitter and action queue, `core/events`, `core/utils` | subscriptions, queued actions | emit, defer, subscribe | an external bus |
| handle registry, `core/bits` | snapshots: bytes, slots, handles, holes, id table | `Set`, `Delete`, `UpdateHandle`, `Defragment`, `Clone`, `Import` | the containers |
| documents, `core/document`, `core/data/container`, `core/encoding/json` | containers, their holes, a pool | `Set`, `Unset`, `Merge`, `Clone`, `Release`, encode, decode | schemas, linked to addresses |
| queries, `core/query` | a query and the backend's capabilities | split, run in memory, join, update returning | the backends |
| SQL, `sqlite/query` | the text and its parameters | `SELECT`, `INSERT`, `UPDATE`, `DELETE` | SQLite |
| schemas, `core/schema` | a schema, its forms, its validation graph | validate, normalize, compile, diff, serialize | registry, migration, documents |
| builders, parsers, JSON utilities, sanitising, generators | values | pure functions | - |

What is hard here:

- several goroutines share one transaction: operations of the callback, bodies
  given to `Async`, the watcher of the context. They race for the outcome;
- writers, readers, janitor and evictor share a cache whose invariants span a
  map, a list, a hand and a counter;
- the in-memory backend hands a lock from `StartTransaction` to `Commit`;
- the registry decides on an entry read outside the transaction that writes it,
  and keeps a cache that no one invalidates on time;
- a migration is three transactions that do not know of each other;
- live and model collections change the database first and their cache after it, and
  nothing orders the changes of two calls;
- documents share containers, positions and record maps through copies, merges and a
  pool; handles share one byte array;
- one question is answered by two pieces of code that nothing ties together: the
  backend and the query helper, the two walks over a schema, the writer and the
  reader of a compiled schema, the text of a statement and its parameters.

`PROJECT.json` lists every component with what is modelled, and every hazard with
the line where it bites and the property that guards it.

## Modules

| module | models | how it corresponds to the code |
|---|---|---|
| `NativeTransaction` | `native/interactor.go`, `sqlite/executor.go` | the state of one `sql.Tx`: open, committed, rolled back; `finishing` is who took `done`; `exTx` whether the executor still holds the tx; the writes in it (`buffered`) and in the database (`durable`). `WriteSucceeds` is `runner()`: with no tx left a statement runs on the pool |
| `Transaction` | `transaction.go`, `Async`, `withEventEmission` | extends it with `Execute`, step by step, and operations of four kinds: nested collection writes, `Async` bodies, nested writes of goroutines nobody waits for, and writes through the transactional interactor with another context |
| `AtomicTransaction` | the promise of `Execute` | what `Transaction` is shown to implement for a disciplined callback |
| `CacheShard` | `cacheShard` | operators on one shard's record: each is what one method does under the shard's lock |
| `ManagedCache` | `managedCache` | extends it with the goroutines: one action per critical section, so the reads of the counter and of `evictorRunning` between locks are steps of their own |
| `EphemeralStore` | `core/ephemeral`, the locking of `Persistence.Transact` | three mutexes, the clone and its replacement; clients that transact, write, change the schema in place or read |
| `Registry` | `registry.go` | the life of one collection name: look-up, load, cache fill, transaction and publication are separate steps |
| `Catalog` | the promise of the registry | one atomic step per operation on the stored entry |
| `Migration` | `Migrate`, `Rollback`, `DefaultDataMigrator`, writes beside them | each transaction of a migration is a step; a write looks the table up in one step and writes in another |
| `LiveCollection` | `live_collections.go` | a call works on the database, then owes the cache a set of changes, one step each |
| `ModelCollection` | `model_collection.go` | the same, for models keyed by id |
| `Orchestrator` | `orchestrator.go` | each look at the tables and each call into a backend is a step |
| `Events` | `eventsCollection`, `emitter.go`, `core/utils` queue, bus adapter | operations, the queue of each, the transaction, who was told what |
| `HandleRegistry` | `core/bits/registry.go` | snapshots as records, one step per operation; byte arrays by identity, since clones share them |
| `Documents` | `core/document`, `core/data/container`, `core/encoding/json` | memory of containers with their slices, holes and pool; handles to documents |
| `Validation` | `validator.go` | schema to graph of nodes; the nodes run one by one in any topological order |
| `QueryEngine` | `partitioner.go`, `helper.go`, `joiner`, `polyfill.go`, `managed.go`, `ephemeral` queries | operators for each stage; a query, a join or an update is a step |
| `Sql` | `sqlite/query` | token sequences with marks; a small SQLite runs them |
| `SchemaEvolution` | `diff.go`, `base/migration.go`, statements in place | the diff as a set of changes; each statement of a migration is a step |
| `SchemaForms` | `json.go`, `map.go`, `walker.go` | one walk, two builders with a stack, two readers |
| `CompiledForm` | `serialize.go` | two tables of forms, a writer and a reader of a word stream |
| `MetaSchema` | `normalize.go`, `predicates.go`, `compile.go` | authored, normalized, judged and resolved schema |
| `TransactionProofs`, `RegistryProofs`, `CacheProofs`, `MigrationProofs`, `EventsProofs`, `HandleProofs`, `CollectionProofs`, `BackendProofs` | | the proofs about the modules they are named after (`MigrationProofs` is about `SchemaEvolution` too, `HandleProofs` about `HandleRegistry`, `CollectionProofs` about `LiveCollection` and `ModelCollection`, `BackendProofs` about `EphemeralStore` and `Orchestrator`) |
| `MC...` | | instances; `MCServices` puts `EphemeralStore` and the modules from `Migration` on side by side |

The definitions whose comment begins with "Mutant:" are not part of the model: they
are plausible bugs, and each property is violated when one of them replaces the
definition it imitates. `PROJECT.json` says which, and maps every definition to the
lines it stands for.

### Transaction

`Ops` is the set of operations a callback may start. An operation goes through
`spawned` (its goroutine or call exists), `hooked` (`withEventEmission` has appended
its two hooks), `running` (it has joined), `worked`, `reported` (its error, if the
first, is in `errChan`) and `done` (`pending` decremented). `AddOperation` after
finalization hands out a clean-up that does nothing: the operation is then not in
`counted`. The broadcast channel `changed` is its generation number `gen`; the
coordinator blocks on the generation it has `seen`. The context may be cancelled at
any moment; `done` is then taken by the watcher, by the coordinator's `Commit` or
`Rollback`, whichever comes first. `database/sql` also rolls back by itself; that and
the cancellation are the external definitions of the map.

A callback that panics is not modelled.

### Cache

Time is a label on an entry: `never`, `live` or `expired`; `Expire` is a deadline
passing. Values are not modelled, what matters of one is whether `onEvict` was called
for it. A sweep visits the keys of the list as it was, by a function on its length. `added`
is what one shard has added to the shared counter, `held` counts artifacts handed over and
not given back. Statistics, `Clone` and map compaction have no effect on any of it.

### Ephemeral store

Documents are abstracted to who has written: the root and a clone are sets of clients.
`gen` counts the replacements of the root's collections and tells whether a direct
change went to a collection that is still there. A clone may fail (`CloneFails`): the call
then returns its error and leaves `txMu` locked, with no interactor that could unlock it,
and `txMu` keeps that client as its owner.

### Registry

One name. A version's table is named after it, as `generatePhysicalName` makes it a
function of name and version. An entry has an active version and a table per version.
`Load` is one query; a transaction of SQLite is one step, as `_schemas_` and the tables
are in the same database; its failure changes nothing. `CacheForgets` is eviction,
`InvalidateCache` or the expiry of a negative marker. Calls on other names touch
neither the same row nor the same slot. `past` is history: it remembers whether two
calls have ever overlapped and whether a version was added in place.

### Migration

Three versions of one collection: the second has a column more, the third one less and
needs a copy. `row` is the registry's entry, `store` the physical collections, `job` the
migration under way, `acked` the documents whose write returned. A statement fails on a column
that is there already, or no more (`Applicable`). Every step may fail,
the process may crash between two (`Crash` loses `job` and writes in flight), a whole
migration may run inside a caller's transaction. One migration at a time is made: that
is what `docs` ask of the application. `past` is history; a property names in it the ways
of going wrong it does not answer for, and each is one the code does not
provide for: a write beside a migration goes to a table that was already copied, a
`Migrate` inside `Transact` leaves the outer registry's cache with the old entry.

### Live and model collections

Slots are `miss`, `negative` or `positive`. A call's `todo` is what it still owes the cache;
any client may come between. `liveExcused` and `modelExcused` are history: slots for which
an older view was under way when the document was written. The code does nothing against
that race, and the property is what remains: a slot nobody is about to settle
is right. Excused too are writes that pass the cache by, and the updates whose documents could
not be read back (`LiveUpdateUnreturned`). Priming, `Clone`, `Close` and
projections to other models are left out.

### Orchestrator and events

`RegisterBackend`, `CreateCollections` over several backends, `Delete`, `Subscribe`,
`Unsubscribe` and `Close` interleave at each lock and at each call into a backend. `disturbed`
holds the names that were routed anew while their collection was on a backend, which the code
documents as a start-up matter, and those created when a deletion had taken their route or was
about to (`Unrouting`), which is finding 7. In `Events` the
success of a write waits for the transaction's commit in a queue of its own, and that of a read
is emitted at once (`Deferring`); the bus is external and delivers what it is given. `delivered` counts the calls of each handler
with each event: a subscriber hears of different operations in any order, and the
promise is about how often it hears of each.

### Data

`HandleRegistry` keeps byte arrays by identity, so that an append that finds room is
seen through every snapshot that shares the array. A caller updates a value with one of a length it chooses: the model's lengths are those
the value fills, and no other part of the program calls it. `Documents` models containers,
their free positions and pool; a record map is an identity (`Records`), so that what `Merge` stores
and a view writes to is seen wherever the map is held; `identified` is whether a container has its
`_id_` and metadata; `meant` is what the application has set, computed without containers.
`Validation` compares the verdict of the graph, in every topological order,
with a recursive reading of the schema, and keeps the array of issues that the pooled context and
the answer given before share (`priorResult`, `ValidateAnother`). `QueryEngine` compares a query
split between a backend and memory with a backend that does it all; an update sets what it carries,
and a backend that computes (`backend.computes`) moves the version on, while the in-memory one
copies id and metadata. Editors read a document and update it by the version they read, with a patch
or a replacement. `Sql` builds token sequences, runs
them with SQLite's precedence and three-valued logic, and compares with what the
query means; a name that several tables of one scope share is left out (`SharedBy`).
`SchemaEvolution` makes tables as each backend does: on SQLite a primary index is the table's key and
an enum a CHECK, a type `unique` makes an index unique as the flag does, and no column is dropped.
`SchemaEvolution`, `SchemaForms`, `CompiledForm` and `MetaSchema` follow a
schema through diff, migration, storage, compilation and normalization. These modules are
functions for the most part; what makes them hard is sharing and order, and both
are states here.

## Runs

`tlc -config <cfg> <module>`; `Services` takes two to three minutes on two
cores, the others less.

| cfg | module | asks | answer |
|---|---|---|---|
| `TransactionClosed` | `MCTransaction` | Does a callback that keeps to its context and to `Async` get an atomic transaction? `CommitIsComplete`, `HooksComplete`, the refinement `AtomicSpec`. Is a wake-up ever lost? `Terminates`, `CancelReleasesWait` | yes; no |
| `TransactionOpen` | `MCTransaction` | What is left if the callback may do anything, and a `CreateCollection` may fail in it? `HooksMatchOutcome`, `ResultTruthful`, `PendingIsAccurate` | these hold |
| `TransactionLeak` | `MCTransaction` | `RollbackLeavesNothing` when a `CreateCollection` fails inside the transaction | **violated**, finding 1 |
| `CacheBounds` | `MCCache` | Do map, list, hand and counter agree (`BookkeepingAccurate`), is the cap kept, is each artifact released once, does the second chance work? | yes |
| `CacheWatermark` | `MCCache` | Is there an evictor whenever the cache is above its high watermark? | **violated**, finding 2 |
| `EphemeralDeadlock` | `EphemeralStore` | Does every call return? | **violated**, finding 3 |
| `RegistrySafety` | `MCRegistry` | What do overlapping registry calls leave intact (`ActiveIsListed`)? Without overlap: is the cache right (`CacheCoherent`), does every version have its table (`TablesExist`), is each call one step of `Catalog` (`SequentiallyAtomic`)? | yes |
| `RegistryPrune` | `MCRegistry` | Does the active version always have its table? | **violated**, finding 4 |
| `RegistryDuplicate` | `MCRegistry` | Is there one entry per name? | **violated**, finding 5 |
| `DocumentsWritten` | `MCDocuments` | Does the JSON or the row of a document hold what the document holds (`WrittenWhole`)? | **violated**, finding 6 |
| `RoutesOutlast` | `Orchestrator` | Does a route stay as long as its collection? | **violated**, finding 7 |
| `Services` | `MCServices` | The parts of the next table | yes; 985,084 states |

`MCServices` lets one part move and keeps the others in one of their initial states; the
parts share no variable, so that its behaviours are those of the parts and its states
their sum. A part that has come to a state its properties say nothing of, now or later, is
not followed further: a migration or a cache for which the history variable excuses
everything (`SomethingPromised`, `liveExcused`, `modelExcused`). Nor is an orchestrator that has
disturbed a name, as what holds of the other name is reached without that, or one that has both a
route and a subscription: they have nothing in common but `Close`, which races each of them.

| part | module | states | asks |
|---|---|---|---|
| `store` | `EphemeralStore` | 68,027 | Does the in-memory backend serialize its transactions (`TransactionsSerialized`) and lose no commit (`CommitsAccumulate`), is each of the three locks held by exactly who took it (`LocksOwned`), when clones fail too? |
| `migration` | `Migration` | 177,912 | Is an acknowledged write readable after it (`AckedReadable`), does the active version always have its columns (`ActiveSchemaFits`), may a failed migration be tried again, in place if no statement was executed and else by copy (`RetryPossible`)? |
| `live` | `LiveCollection` | 136,107 | Does the cache of artifacts show what the database holds (`LiveCoherent`)? |
| `model` | `ModelCollection` | 62,003 | The same for models (`ModelCoherent`) |
| `orchestrator` | `Orchestrator` | 48,134 | Is every collection where its name leads (`CollectionsReachable`), no handler left behind (`HandlersTracked`)? |
| `events` | `Events` | 2,736 | Is each subscriber told of each operation once, of a read at once and of a write's success only after the commit (`ToldExactlyOnce`)? |
| `handles` | `HandleRegistry` | 22,304 | Does each id read what was last set (`ReadsBack`)? |
| `documents` | `Documents` | 73,888 | Does each document read as what was set into it (`DocumentsReadBack`)? |
| `validation` | `Validation` | 138,480 | Is the verdict the schema's, in every mode and order (`VerdictFollowsSchema`)? |
| `query` | `QueryEngine` | 156,409 | Does a split query answer as a whole one (`AnswersWhole`), does an update return what it changed (`ReturnsUpdated`), is a stale edit refused where the backend computes (`NoLostUpdate`)? |
| `sql` | `Sql` | 2,181 | Does each statement do what was asked (`StatementsMean`)? |
| `evolution` | `SchemaEvolution` | 88,578 | Does a diff lead there and back (`DiffInverts`), does a minor bump keep documents valid (`MinorKeepsDocuments`), does the table fit the version (`TableFitsVersion`)? |
| `forms` | `SchemaForms` | 1,392 | Do JSON, map and structure agree (`SchemaFormsAgree`)? |
| `compiled` | `CompiledForm` | 716 | Does a compiled schema load as it was written, and nothing else load (`CompiledReadsBack`)? |
| `meta` | `MetaSchema` | 6,217 | Does what the registry accepts compile to what its author meant (`AcceptedCompiles`)? |

Why the bounds are enough for what is asked:

- *Three operations*: one nested in an `Async` body, which makes two, and a third
  beside them. The interplay is between an operation that registers, one that ends, and
  the coordinator; a third operation already gives a second zero-crossing of
  `pending`. With failing schema changes two are enough in `TransactionLeak`, the second
  being the one that comes after the damage.
- *Three keys in a shard of two*: the cap evicts with a choice, and the hand can be
  before, on and after the removed element. `NumShards = 2` with all keys in one
  shard gives the evictor and `Clear` an empty shard to pass. High and low
  watermark are one apart, so that one eviction is a whole life of the evictor.
- *Three goroutines* on the in-memory backend, each of them free to make any kind of call:
  one holding `txMu`, one holding the store's mutex, one holding that of `Transact`; or a
  transaction that runs, one that waits, and a call outside any.
- *Two callers, two versions, two rows*: two versions are an active and another one;
  two rows tell "duplicated" from "one". `MaxRows` bounds `CreateCollections`
  only: a third row adds nothing a second has not. One caller is enough where the
  property is about calls that do not overlap.

- *Two clients* of a live or model collection, two documents, two keys, two contents: a
  race needs one call that has read and one that writes; the second key is what an update
  of the key field moves to.
- *Three versions, one document, one writer* of a migration: forward by a column, forward
  by a copy, back. One document tells "lost" from "there"; a writer has a look-up and a write,
  and a migration fits between.
- *Two backends, two names, two threads, one subscription*: a call over several backends
  that stops after the first, and another beside it. `MaxSubscriptions` is the number of
  `Subscribe` calls.
- *Two ids with one hash, two handles' worth of slots* (`MaxSlots`, `MaxBytes`,
  `MaxHandleSteps` = 4): collision, hole, reuse, append to a shared array and compaction
  each take at most four operations.
- *Four operations on documents* (`MaxDocumentSteps`): fill, copy, release, fill again
  from the pool. Two handles tell a document from its copy; `MaxPooled` is 3.
- *Queries, statements, schemas* are listed in the MC modules: one for each branch of the
  code, and the combinations where a part of a query is computed in two places.
  `MaxStatements`, `MaxEdits` and `MaxMigrations` bound how many are run one after
  the other. `MaxDepth` 4 is reached by one schema of `MCValidation`; `WordBits` is 4, so that an
  integer of a compiled schema may overflow.

`CHECK_DEADLOCK FALSE` stands where calls are finite: a transaction that has ended, clients
that have all made their call, a data part at its bound have nothing left to do. In the
ephemeral store the check would report the deadlock that `EphemeralDeadlock` states as
liveness. The cache and the registry never stop, and their runs check deadlock.

The runs that end in a violation are the smallest in which the case happens: two plain
writes in `EphemeralDeadlock`, one backend, one name and two threads in `RoutesOutlast`.

Symmetry is used in runs of safety properties only.

## Fairness

- `Transaction`: `FairExecute`, weak fairness of the coordinator's own steps: it is one
  goroutine that never waits but in `WaitForOperations`, and the model disables it
  there. Operations may hang, so `Spec` gives them no fairness; `Terminates` assumes
  `FairOps` explicitly, `CancelReleasesWait` does not.
- `ManagedCache`: weak fairness of a writer's way through `maybeStartEvictor`, of the
  evictor, the janitor, a `Clear` under way and `Close`'s wait. Tickers tick. No caller
  is made to write: that is why nobody starts the missing evictor of finding 2.
- `EphemeralStore`: strong fairness of taking a lock, since Go's mutex does not starve a
  waiter, and weak fairness of the rest; callbacks return. The deadlock of finding 3 is
  not one of starvation. Nothing makes a clone fail.

## Findings

1. **A failed `CreateCollection` in a transaction lets later writes survive its error.**
   `native/interactor.go:357` rolls back the shared transaction; the executor's `tx` is
   nil after that and statements autocommit. `collection/base.go:85` promises atomicity.
2. **The high watermark may go unserved.** `cache.go:986` finds `evictorRunning` still
   set by an evictor that has already decided to return.
3. **Two plain writes to the in-memory backend can deadlock.** `ephemeral/interactor.go:395`
   waits for `txMu` holding the mutex that `Commit` needs.
4. **Pruning after an in-place migration drops the active table.** `registry.go:451`
   drops the pruned version's physical collection, which the other version shares.
5. **A late negative marker admits a duplicate entry.** `registry.go:205` nullifies a name
   created since; the check at 126 believes the cache; the index is not unique.
6. **An array inside a nested object is written under its last step.** `dump.go:88` names a
   container that is no leaf by itself alone: `home.tags` is written as a `tags` of
   the document, and reading the JSON or the row does not bring it back.
7. **A deletion takes the route of a collection created meanwhile.** `orchestrator.go:444` removes
   the route after the backend's collection; a creation that had resolved it before makes the
   collection anew, where no name leads. Lines 427-430 exclude the stale route.

### Where the properties stop

A property excludes, by a named operator, a history variable or a condition it states, what the
code does otherwise than one would expect. The model contains these cases, except
where the text says that they are left out; no run of its own shows them. Reading the code
showed, among others:

- *In-memory backend.* A clone that fails (`ephemeral/interactor.go:399-402`) returns with `txMu`
  locked, and only the interactor that was not returned could unlock it: from then on each
  transaction waits for ever, holding the store's mutex. `LocksOwned` states who holds it.
- *Live collections.* `polyfill.go:231-234`, when the read after an update fails, answers with no
  documents and `Count` 0, and `live_collections.go:414-423` refreshes what was returned or clears
  if `Count` is not 0: neither happens, and the slot stays as it was until it expires, although
  line 359 says that each override keeps the cache consistent. `LiveCoherent` excuses those slots.
- *Validation.* The issues a validation returned lie in a pooled slice that the next one writes over
  (`validator.go:2577`, `2588`; `HeldAfter`), and `CreateMany` reads its results after it has validated
  the whole batch: an answer may tell of another document. Rules are told apart without their path (`validator.go:1647`), so that one of two
  equal rules at two places is dropped; rule groups of a nested schema look at the
  root of the traversal; a null optional object with a rule inside is refused; below a composite
  without required fields anything is taken for an object; geometry always fails;
  partial mode skips the rules of an object that lacks a required field.
- *Meta-schema.* Where ids must be UUIDs a rule that names fields is refused
  (`constraint_fields_exist` looks names up among ids), so that normalizing can turn an
  accepted schema into a refused one (`RulesNameFields`); a record as part of a composite, or
  an enum of nulls only, is accepted and does not compile (`AcceptedUnchecked`).
- *Evolution.* Rules of a group that stays a group are not compared, in a nested schema either,
  nor a nested schema's own reference (`Uncompared`); a null forbidden, a rule in place of a
  group, a second field of a name that is in use, or an index that is unique or primary by its type,
  count as less than major (`Uncounted`; `diff.go:790` reads the flag of an index only, while
  `sqlite/query/index.go:37` makes one UNIQUE by its type too and
  `docs/schema_versioning_model.md:151` calls a new unique index major). SQLite says that it drops
  columns (`capabilities.go:13`) and has no statement for it (`builder.go:49-84`): the removal of a column in place fails on SQLite after
  additions were made, and a retry in place fails on those (`AlteredInPart`). The key of a table and
  the checks of its enums stay what CREATE TABLE made them, while `persistence/base.go:600` takes an
  enum's values for metadata, so that a column may refuse what the active schema allows; an enum column that is added has no
  check (`LeftAsItIs`). An index replaced in one migration by another of its name is lost there:
  `CREATE INDEX IF NOT EXISTS` does nothing, and `DROP INDEX` goes by the name; an index renamed keeps
  its old name in the table, and one that later takes it gets its definition (`LeftAsItIs`).
  A constraint or a metadata key with one of the names `isSystemEntityName` lists changes unseen
  (`Authored`).
- *Queries.* Joins left to memory are not made, aggregations left to memory panic, pages
  are cut before what is left to memory is sorted or filtered, `nand` and the like
  are split as `and` (`SplitIsExact`). The in-memory backend sorts in memory always. It does not
  apply computed updates (`ephemeral/interactor.go:254`), the version among them: two editors who
  read one version and replace the document are both acknowledged, and the second overwrites the
  first; after a patch, which carries metadata without a version, each update by
  version is refused. `NoLostUpdate` is about backends that compute (`backend.computes`). An
  update built by `SetField` is a document with a generated id, and the in-memory backend copies
  that over the ids of what it changes (252), while `document.go:167` calls the id immutable.
- *SQL.* A column both set whole and set in part appears twice in `SET`
  (`SeparateColumns`); a scalar subquery loses its parentheses in a part; an empty group
  is a syntax error; an alias in the filter of an `UPDATE` or `DELETE` fails.
- *Documents.* `Merge` stores the record maps of the other document, not copies (`merge.go:21`): what is
  set through a view of a record shows in every document that holds the map, and
  `meant` says so. `DeepMerge` puts back user data only, so that id and metadata are gone
  (`merge.go:49`; `identified`), and it clears the root container when
  called on a nested view; an
  explicit null is read back as absent; a failed `FromMap` leaks its container;
  reading a nested view after `Release` sees another document's data.
- *Handles.* Clones that append share one array and overwrite each other; `Import` of bytes
  that are not in order misplaces them (`garbled`).
- *Forms.* `ToJSON` writes some Go integers as 0 and a `float32` too, keys are not
  escaped; references keep their ids only; the order of several rules in the compiled form
  is a map's, and the model takes every order.
- *Collections.* A migration committed inside `Transact` leaves the outer registry's cache
  stale; a subscription by pattern is told of every event, since its filter looks for the type in
  a context that the bus adapter drops (`events/bus.go:31`); model and live collections
  cache what a transaction has written before it commits.

## Proofs

`tlapm <module>` checks each of the eight proof modules; the longest, `HandleProofs`, takes
four minutes. All theorems are for any number of operations, clients, keys,
documents, versions, backends or bytes, and for every value of the constants that the named
assumptions of the modules admit. None of the assumptions is about the behaviour of the
program:

- a marker is not one of the values it stands beside (`NoneAssumption`,
  `NothingAssumption`, `NoModelAssumption`, `NoLabelAssumption`, `NoVersionAssumption`,
  `NoDocAssumption`, `NoHandAssumption`), and a set or a number is of its kind
  (`OpsAssumption`, `KindsAssumption`, `UsesAssumption`, `MayAssumption`, `MaxRowsAssumption`,
  `MaxSubscriptionsAssumption`, `HomeKeyAssumption`, `SelectedAssumption`, `VersionsAssumption`,
  `NeedsCopyAssumption`, `InTransactionAssumption`, `MaxEntriesAssumption`, ...);
- the cache has a shard and a shard for each key, its low watermark is not above its high
  one, and batches are not empty, as `normalize` of `config.go` sees to (`ShardsAssumption`,
  `WatermarksAssumption`, `BatchesAssumption`);
- a subscription by a plain name stands for that one type, since a name without a
  wildcard is compared as it is (`PatternAssumption`);
- an id has a hash, a value to set is a sequence (the empty one too), a table of ids starts
  with at least two cells (the code's has 8), and there are finitely many registries
  (`HashAssumption`, `ValuesAssumption`, `SizesAssumption`, `RegistriesAssumption`);
- a schema has the fields of the Go structs, and nothing in it bears a name of what
  `EnrichSchema` injects (`RevisionsAssumption`).

`Disciplined` and `Apart` below are not assumptions of the program either: they say
which callbacks, or which histories, a promise is made for, and the runs that break them are
the violations of the table above.

**Transaction.**

- `PendingTheorem`: `TypeOK` and `PendingIsAccurate`. The strengthening `CountInv` adds that
  a counted operation has been started; the work is in cardinalities, one element at
  a time (`CountUp`, `CountDown`).
- `OutcomeTheorem`, `ResultTheorem`: `HooksMatchOutcome` and `ResultTruthful`, for any callback.
  `OutcomeInv` says, for each place the coordinator can be, what it may already have
  decided and that only its own `Commit` commits.
- `AtomicityTheorem`: `CommitIsComplete` and `RollbackLeavesNothing` under `Disciplined`. The
  invariant `AtomInv` has the parts a proof by hand would: the tree of callers (a nested
  operation holds its caller back), registration (who works is counted), the session
  (`done` is taken late or after a cancellation), where each write is, and that no error is
  forgotten before the decision. Finding 1 is what happens without `~SchemaFailures`.
- `HooksTheorem`: `HooksComplete` under `Disciplined`. `HooksInv` is that both hooks of an
  operation past `spawned` are registered until one side has run; it needs `AtomInv`, since
  an operation that could still register after the lists were run would be left out.
- `RefinementTheorem`: `Spec => AtomicSpec`. What is open in the abstract transaction is the
  counted and unfinished operations, what is staged is the buffer as long as the outcome is
  open. One lemma per group of actions shows its step to be an abstract step or a
  stutter; the commit uses `CommitIsComplete` before and after.

**Ephemeral store.** `StoreTheorem`, `SerializedTheorem`, `LocksTheorem`: the three invariants of
the part `store`. They are made inductive by what the owner of `txMu` has in its clone: the
root and its own write, nothing else. `LocksOwned` is exact for all three locks: `txMu` is held
by the one client that is between `StartTransaction` and the end of its transaction, or
by the one whose clone failed, and then no transaction is open any more.

**Registry.**

- `ActiveVersionTheorem`: `TypeOK` and `ActiveIsListed`, for overlapping calls. The
  strengthening `CopyInv` is that the copy a client holds is sound, however old, and in its
  transaction is still the one its checks were made on. The lemmas on `With` and
  `Without` are about entries alone.
- `CacheTheorem`, `TablesTheorem`, `CatalogTheorem`: `CacheCoherent`, `TablesExist` and the refinement
  `SequentiallyAtomic`. `SequentialInv` speaks of histories in which no two calls have
  overlapped: one call at a time, at most one row, a cache that is coherent but for the step
  between a transaction and its publication, a copy that is the stored entry (`UpToDate`), and
  each version's table its own (`OwnTables`), as long as none was added in place.

**Managed cache.** `BookkeepingTheorem`, `CapTheorem`, `EvictedTheorem` and, as an action property,
`SparedTheorem`. The invariant is about one shard at a time: `Tidy` says that list and map have
the same keys, each once, that the hand is in the list, that the share of the counter is the
number of keys, and that exactly the positive entries are held. Every method of a shard has a
lemma that it keeps a shard tidy and which keys it takes out; `ShardStep` carries
that to the whole cache. `GoroutinesFine` bounds what evictor, janitor and `Clear` remember
between two locks. The CLOCK scan is shown to end at an entry whose bit was clear, or
where it started after one round (`SparedTheorem` rests on it); a sweep is shown to
exist as a function by the library's theorem on definitions over the naturals, and to take
one key at a time.

**Live and model collections.** `LiveTheorem`, `ModelTheorem`. What makes coherence inductive is
what is still owed: for a slot nobody has excused, every change a call still owes
shows what the database holds now (`OwesTruth`, `OwesModels`), a deletion knows the keys of
what it is about to delete (`DeletesKnown`), and a slot that does not show the database
has somebody who will change it (`SlotsInv`, `ModelSlotsInv`). An update that is not returned owes
nothing, and its keys are excused.

**Migration.** `FitsTheorem`, `ReadableTheorem`, `RetryTheorem` share `MigrationInv`: the row and, within
a transaction, the row a rollback returns to are placed in their tables (`PlacedInv`); the
cache has the row, or that older one (`CacheInv`); the version a migration has added is
its own (`JobInv`). `FitsInv` adds that what the table lacks is still to be done, `AckedInv` that
what was read or copied is all that was acknowledged, `RetryInv` that nothing is listed
above the active version but the one being added. `ExactInv`, for `RetryTheorem`, says that the
table of the active version has its columns and no others, or those with the statements executed so
far; a failure that leaves some of them executed is recorded in `past` as "altered in part". Each claims
only what `past` leaves.

**Orchestrator.** `RoutesTheorem`: what a call has looked up may be stale when it reaches a backend, and
several deletions of one name, and creations beside them, may be under way. What is about to be
unrouted is on no backend any more (`UnroutedGone`), unless a creation has come between; that one
disturbs its name. A creation that finds its route still standing, with nobody about to take it,
keeps the property. A deletion takes one name with it (`DeletionsOfOne`). The property says more than
that a route leads to the collection: no other backend has one of that name.
`HandlersTheorem`: an id belongs to one call, and to no tracked subscription as long as a
call has it (`IdsInv`); a handler is in `done` of a `Subscribe` or in `on` of an
`Unsubscribe` (`HandlersKnown`).

**Events.** `ToldTheorem`. `ToldWhatIsDue` counts: each handler of a plain name has been called once
with each event that is due; the success of a write in a transaction becomes due with its hook, that
of a read when it ends.
`HooksWait` says what the queue of an operation holds as long as its hook waits. That
a publication reaches a handler exactly once is a count of positions in what one
emission publishes (`Reaching`).

**Handle registry.** `HandlesReadBack`, from `HandlesInductive`, for any hash: all ids may have the
same one. `ReadsBack` alone is far from inductive, since it looks at a snapshot through four
structures that are changed by turns; `HandlesInv` says of each snapshot (`SnapInv`)

- *the index* (`IndexFor`): a table in which every occupied cell is met by the probes of its own id
  before an empty cell, an id has one cell, and some cell is empty (`GoodTable`, `Room`); and the
  index finds the position of each entry and nothing else. A tombstone stops no probe, so a
  deletion leaves the others in reach; an insertion takes the first tombstone, or the empty
  cell where the search ended, and changes no other look-up. That a table never
  fills up is counted: at a load of 0.7 it is rebuilt at a load of at most 0.6 or with no tombstones;
- *the slots* (`SlotsInv`): each entry has a slot of its own, and a free slot is no entry's and
  listed once;
- *the bytes* (`LayoutInv`): entries and holes lie within the bytes, each apart from each other one, so
  that a value written over a hole, or moved, changes no other value;
- *the values* (`HoldsValues`): what an entry's bytes are, and that an id without an entry has
  none. A held view (`ViewInv`) lies within the bytes its array has, so an append does not
  reach it, as long as one registry owns the array.

The code's loops are recursive functions here, `Rehashing`, `Doubling`, `Compacting` and `Indexing`, and what
they make is proved by induction on the number of rounds. The library's induction
theorems take a predicate as an operator, which no prover here instantiates; its
`NatLessThanWellFounded` says the same of sets, and `LeastNumber` and the lemma on counting
after it are all that the proofs need. `CompactedIs` is the longest of them: after `n` moves the
first `n` values lie one behind the other from 0, in the order of the entries, each with its own
bytes, and the bytes held so far are counted to show that they fit the old array.

**Schema evolution.** Three theorems, for any schemas and, the second, any stored documents.

- `DiffsInvert`: `DiffInverts`. An operation is a kind, a path and a value, and `OpsOfSay` and
  `JoinOpsSay` tell of which of them a set of operations consists, so that sets of
  operations need not be compared. `Means` is what the diff of two schemas ought to say: an
  entity of the one only, of the other only, or a property compared that differs, at
  the root, in a collection or in a nested schema. `DiffForward` and `DiffBackward` show that the
  changes of the diff, none of them dropped as a system change, say just that, and
  `SchemaBecomes` that operations that say just that turn one schema into the other, collection
  by collection and property by property, the union inside a constraint and the nested
  schemas included.
- `MinorsKeepDocuments`: `MinorKeepsDocuments`. `MinorImpacts` reads a bump below major as a
  condition on each operation, `MinorStep` as one on the two schemas (`MinorFields`,
  `MinorIndexes`, `MinorConstraints`, `MinorSchemas`; an index is unique by flag or by type, and those
  the bump does not count are in `Uncounted`), and `DocumentStillFits` and `TuplesStillUnique` show
  that each document, and each pair of documents, keeps what it had. The proof asked
  for two exceptions TLC had not met: rules of groups in nested schemas, and a second
  field of a name in use.
- `TablesFitVersions`: `TableFitsVersion`, if no schema gives two of its fields, or two of its
  indexes, one name (`EvolvesApart`; SQLite refuses the former, the latter are lost as above).
  `TableInv` describes the table in the middle of a migration, by what is left of its changes:
  an entity of the old schema is there until the change that drops it has run, one of the new
  schema from its change on, no two of them meet in a name, and what was modified is left or
  recorded as untouched (`ColumnsMidway`, `IndexesMidway`). With all changes left this is the
  old version's table, with none left the new one's (`ColumnsAtFirst`, `ColumnsAtLast`), and each
  statement, in any order of the changes of the diff, keeps it (`ColumnsStep`, `IndexesStep`). The key
  of a table and the values its columns check go the same way (`KeyMidway`, `ValuesMidway`): they are
  those of CREATE TABLE until a copy makes another one, and what the diff says of them is recorded.

Only model-checked, and why:

- liveness (`Terminates`, `CancelReleasesWait`): out of the prover's reach;
- `Validation`, `QueryEngine`, `Documents`, `Sql`, `SchemaForms`, `CompiledForm` and `MetaSchema`:
  recursion or folds over schemas, queries, documents and words. An induction on a number
  can be done, as `HandleProofs` shows; these go down trees, by `RECURSIVE` operators the
  prover does not take, and the invariant is a semantics of the whole language they work on;
- the properties of the runs that end in a violation hold of no model, so there is nothing to
  prove; `RollbackLeavesNothing` is proved where it holds (`AtomicityTheorem`).

## Not modelled

- The sanitizer, the code generators and the command line: no state, no protocol.
- `core/json` (JSON schema, patch), the byte-level scanner, the lexer and the parser of the
  DSL, the fluent builders, coercions, decimals, geometry: functions of their
  arguments which table tests reach better.
- The older `core/data` documents and `core/storage`, which `core/document` replaces.
- Panics in callbacks: a Go panic unwinds through code a model treats as one step.
- A batch of the in-memory backend that violates a unique index in the middle: collection
  writes always run in a transaction, whose clone is then dropped; only the migrator's
  writes do not.
- Batches of the registry that create several names (a batch with two versions of one name
  inserts two rows, as finding 5 does), statistics, `SimpleCache`, `CachedRegistry`,
  `ResultSet`, futures of the orchestrator, the query cache.
- SQL unions, which nothing builds, and the upsert form.

## Plan

What remains to be done:

1. `CompiledReadsBack` of `CompiledForm`: its writer and reader as functions on the number of words,
   as `Compacting` is in `HandleRegistry`.
2. Composition of `LiveCollection` with `Transaction`: writes of a transaction that rolls back
   after the cache was changed.
