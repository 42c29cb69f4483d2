------------------------------ MODULE Registry ------------------------------
(***************************************************************************)
(* collectionRegistry, for one collection name: its rows in the _schemas_  *)
(* collection, its physical collections and its slot in the registry's     *)
(* cache.                                                                  *)
(*                                                                         *)
(* Every operation first gets the entry through the cache, loading and     *)
(* caching it on a miss, in steps of their own; then decides on that copy; *)
(* then runs one transaction, which writes the whole entry back; and then  *)
(* puts its copy into the cache.  Nothing orders two operations: what one  *)
(* has read may be gone when it writes, and what it caches may be old.     *)
(*                                                                         *)
(* The name of a table is a function of the collection's name and version: *)
(* here the version itself.  Tables are those of SQLite: CREATE TABLE IF   *)
(* NOT EXISTS and DROP TABLE IF EXISTS, inside the transaction.            *)
(***************************************************************************)
EXTENDS Naturals, Sequences

CONSTANTS
  Clients,     \* goroutines calling the registry
  May,         \* May[c]: the kinds of operations c calls
  Versions,    \* the schema versions of the collection
  NoVersion,   \* no version
  MaxRows      \* bound on the duplicate rows (the name index is not unique)

Kinds == {"get", "list", "create", "add", "activate", "prune", "drop", "forget"}

ASSUME MayAssumption == May \in [Clients -> SUBSET Kinds]
ASSUME NoVersionAssumption == NoVersion \notin Versions
ASSUME MaxRowsAssumption == MaxRows \in Nat \ {0}

(* An entry: the active version, and the physical collection per version.  *)
Entries ==
  [active : Versions, physical : UNION {[V -> Versions] : V \in SUBSET Versions}]
NoEntry == [active |-> NoVersion, physical |-> [v \in {} |-> v]]

Miss == [status |-> "miss", entry |-> NoEntry]
Negative == [status |-> "negative", entry |-> NoEntry]
Positive(e) == [status |-> "positive", entry |-> e]

NoCall == [kind |-> "none", version |-> NoVersion, physical |-> NoVersion]
CallRecords ==
  [kind : {"none", "get", "list", "drop", "forget"}, version : {NoVersion},
   physical : {NoVersion}]
  \union [kind : {"create", "add", "activate", "prune"}, version : Versions,
          physical : Versions \union {NoVersion}]

PCs == {"idle", "lookup", "load", "nullify", "fill", "transaction", "publish"}

VARIABLES
  rows,     \* the rows of _schemas_ with this name, oldest first
  tables,   \* the physical collections that exist
  cache,    \* the cache's slot of this name
  pc,       \* pc[c]: where c's call stands
  call,     \* call[c]: its arguments
  copy,     \* copy[c]: its copy of the entry
  past      \* "overlapped": two calls have run at once; "in place": a version
            \* was added in place (history, not in the code)

clientVars == <<pc, call, copy>>
vars == <<rows, tables, cache, clientVars, past>>

TypeOK ==
  /\ rows \in Seq(Entries)
  /\ tables \subseteq Versions
  /\ cache \in {Miss, Negative} \union {Positive(e) : e \in Entries}
  /\ pc \in [Clients -> PCs]
  /\ call \in [Clients -> CallRecords]
  /\ copy \in [Clients -> Entries \union {NoEntry}]
  /\ past \subseteq {"overlapped", "in place"}

Init ==
  /\ rows = <<>>
  /\ tables = {}
  /\ cache = Miss
  /\ pc = [c \in Clients |-> "idle"]
  /\ call = [c \in Clients |-> NoCall]
  /\ copy = [c \in Clients |-> NoEntry]
  /\ past = {}

Listed(e) == DOMAIN e.physical
With(e, v, t) ==
  [e EXCEPT !.physical = [w \in Listed(e) \union {v} |-> IF w = v THEN t ELSE @[w]]]
Without(e, v) ==
  [e EXCEPT !.physical = [w \in Listed(e) \ {v} |-> @[w]]]

----------------------------------------------------------------------------
(* Getting the entry.                                                      *)

(* The calls there are to make.  An explicit physical name comes from a    *)
(* migration in place, which resolves the one of the active version.       *)
Calls ==
  [kind : {"get", "list", "drop", "forget"}, version : {NoVersion},
   physical : {NoVersion}]
  \union [kind : {"create", "add", "activate", "prune"}, version : Versions,
          physical : {NoVersion}]
  \union [kind : {"add"}, version : Versions,
          physical : {rows[i].physical[rows[i].active] : i \in DOMAIN rows}]

Start(c, a) ==
  /\ pc[c] = "idle"
  /\ a.kind \in May[c]
  /\ call' = [call EXCEPT ![c] = a]
  /\ pc' = [pc EXCEPT ![c] = IF a.kind = "list" THEN "load" ELSE "lookup"]
  /\ past' = IF \E d \in Clients : pc[d] # "idle"
             THEN past \union {"overlapped"} ELSE past
  /\ UNCHANGED <<rows, tables, cache, copy>>

Return(c) ==
  /\ pc' = [pc EXCEPT ![c] = "idle"]
  /\ call' = [call EXCEPT ![c] = NoCall]
  /\ copy' = [copy EXCEPT ![c] = NoEntry]

(* Mutant: the active version may be pruned.                               *)
MayProceedPruningActive(a, e) ==
  \/ a.kind = "create" /\ e = NoEntry
  \/ a.kind = "add" /\ e # NoEntry /\ a.version \notin Listed(e)
  \/ a.kind = "activate" /\ a.version \in Listed(e) /\ a.version # e.active
  \/ a.kind = "prune" /\ a.version \in Listed(e)
  \/ a.kind \in {"drop", "forget"} /\ e # NoEntry

(* The checks each operation makes on the entry it got.                    *)
MayProceed(a, e) ==
  \/ a.kind = "create" /\ e = NoEntry
  \/ a.kind = "add" /\ e # NoEntry /\ a.version \notin Listed(e)
  \/ a.kind = "activate" /\ a.version \in Listed(e) /\ a.version # e.active
  \/ a.kind = "prune" /\ a.version \in Listed(e) /\ a.version # e.active
  \/ a.kind \in {"drop", "forget"} /\ e # NoEntry

Continue(c, e) ==
  \/ /\ MayProceed(call[c], e)
     /\ pc' = [pc EXCEPT ![c] = "transaction"]
     /\ copy' = [copy EXCEPT ![c] = e]
     /\ UNCHANGED call
  \/ /\ ~MayProceed(call[c], e)
     /\ Return(c)

(* GetRegistryEntry: the cache.                                            *)
Lookup(c) ==
  /\ pc[c] = "lookup"
  /\ \/ /\ cache = Miss
        /\ pc' = [pc EXCEPT ![c] = "load"]
        /\ UNCHANGED <<call, copy>>
     \/ /\ cache # Miss
        /\ Continue(c, cache.entry)
  /\ UNCHANGED <<rows, tables, cache, past>>

(* loadFromDatabase, and loadAllFromDatabase of List: more than one row is *)
(* an error to the former, and the query of both may fail.                 *)
Load(c) ==
  /\ pc[c] = "load"
  /\ \/ /\ rows = <<>>
        /\ call[c].kind # "list"
        /\ pc' = [pc EXCEPT ![c] = "nullify"]
        /\ UNCHANGED <<call, copy>>
     \/ /\ rows # <<>>
        /\ Len(rows) = 1 \/ call[c].kind = "list"
        /\ pc' = [pc EXCEPT ![c] = "fill"]
        /\ copy' = [copy EXCEPT ![c] = rows[Len(rows)]]
        /\ UNCHANGED call
     \/ Return(c)
  /\ UNCHANGED <<rows, tables, cache, past>>

NullifyMissing(c) ==
  /\ pc[c] = "nullify"
  /\ cache' = Negative
  /\ Continue(c, NoEntry)
  /\ UNCHANGED <<rows, tables, past>>

Fill(c) ==
  /\ pc[c] = "fill"
  /\ cache' = Positive(copy[c])
  /\ Continue(c, copy[c])
  /\ UNCHANGED <<rows, tables, past>>

----------------------------------------------------------------------------
(* The transactions.                                                       *)

Committing(c, kind) ==
  /\ pc[c] = "transaction"
  /\ call[c].kind = kind
  /\ pc' = [pc EXCEPT ![c] = "publish"]
  /\ UNCHANGED <<cache, call>>

(* updateRegistryEntry: every row with the name gets the entry; there may  *)
(* be none any more.                                                       *)
UpdateRegistryEntry(c, e) ==
  /\ rows' = [i \in DOMAIN rows |-> e]
  /\ copy' = [copy EXCEPT ![c] = e]

CreateCollections(c) ==
  LET v == call[c].version
      e == [active |-> v, physical |-> [w \in {v} |-> v]]
  IN  /\ Committing(c, "create")
      /\ Len(rows) < MaxRows
      /\ rows' = Append(rows, e)
      /\ copy' = [copy EXCEPT ![c] = e]
      /\ tables' = tables \union {v}
      /\ UNCHANGED past

(* Mutant: the table is created exactly when it already exists.            *)
AddSchemaVersionSwapped(c) ==
  LET v == call[c].version
      p == call[c].physical
  IN  /\ Committing(c, "add")
      /\ UpdateRegistryEntry(c, With(copy[c], v, IF p = NoVersion THEN v ELSE p))
      /\ IF p = NoVersion
         THEN UNCHANGED <<tables, past>>
         ELSE /\ past' = past \union {"in place"}
              /\ tables' = tables \union {v}

AddSchemaVersion(c) ==
  LET v == call[c].version
      p == call[c].physical
  IN  /\ Committing(c, "add")
      /\ UpdateRegistryEntry(c, With(copy[c], v, IF p = NoVersion THEN v ELSE p))
      /\ IF p = NoVersion
         THEN /\ tables' = tables \union {v}
              /\ UNCHANGED past
         ELSE /\ past' = past \union {"in place"}
              /\ UNCHANGED tables

SetActiveVersion(c) ==
  /\ Committing(c, "activate")
  /\ UpdateRegistryEntry(c, [copy[c] EXCEPT !.active = call[c].version])
  /\ UNCHANGED <<tables, past>>

PruneVersion(c) ==
  LET v == call[c].version
  IN  /\ Committing(c, "prune")
      /\ UpdateRegistryEntry(c, Without(copy[c], v))
      /\ tables' = tables \ {copy[c].physical[v]}
      /\ UNCHANGED past

(* DropCollection, with the physical data and without.                     *)
DropCollection(c) ==
  /\ \/ /\ Committing(c, "drop")
        /\ tables' = tables \ {copy[c].physical[v] : v \in Listed(copy[c])}
     \/ /\ Committing(c, "forget")
        /\ UNCHANGED tables
  /\ rows' = <<>>
  /\ UNCHANGED <<copy, past>>

TransactionFails(c) ==
  /\ pc[c] = "transaction"
  /\ Return(c)
  /\ UNCHANGED <<rows, tables, cache, past>>

(* Mutant: the dropped entry stays in the cache.                           *)
PublishKeepingDropped(c) ==
  /\ pc[c] = "publish"
  /\ cache' = IF call[c].kind \in {"drop", "forget"}
              THEN cache ELSE Positive(copy[c])
  /\ Return(c)
  /\ UNCHANGED <<rows, tables, past>>

(* Mutant: the cache is left as it is.                                     *)
PublishNothing(c) ==
  /\ pc[c] = "publish"
  /\ Return(c)
  /\ UNCHANGED <<rows, tables, cache, past>>

(* After the transaction, the cache.                                       *)
Publish(c) ==
  /\ pc[c] = "publish"
  /\ cache' = IF call[c].kind \in {"drop", "forget"}
              THEN Miss ELSE Positive(copy[c])
  /\ Return(c)
  /\ UNCHANGED <<rows, tables, past>>

(* The cache drops the slot: evicted, invalidated, a marker expired.       *)
CacheForgets ==
  /\ cache # Miss
  /\ cache' = Miss
  /\ UNCHANGED <<rows, tables, clientVars, past>>

Step(c) ==
  \/ Lookup(c) \/ Load(c) \/ NullifyMissing(c) \/ Fill(c)
  \/ CreateCollections(c) \/ AddSchemaVersion(c) \/ SetActiveVersion(c)
  \/ PruneVersion(c) \/ DropCollection(c) \/ TransactionFails(c)
  \/ Publish(c)

Next ==
  \/ CacheForgets
  \/ \E c \in Clients : Step(c) \/ \E a \in Calls : Start(c, a)

Spec == Init /\ [][Next]_vars

----------------------------------------------------------------------------
(* RegistryEntry.ActiveVersion points "to an entry in 'Versions'", in      *)
(* every stored row and in the cache, whatever runs at once: entries are   *)
(* written whole, each from a copy its own checks were made on.            *)
ActiveIsListed ==
  /\ \A i \in DOMAIN rows : rows[i].active \in Listed(rows[i])
  /\ cache.status = "positive" => cache.entry.active \in Listed(cache.entry)

(* As long as calls do not overlap, the cache answers what the database    *)
(* would, but for the moment between a call's transaction and its end:     *)
(* through misses, negative markers, evictions and failed transactions.    *)
CacheCoherent ==
  "overlapped" \notin past /\ (\A c \in Clients : pc[c] # "publish") =>
    \/ cache = Miss
    \/ rows = <<>> /\ cache = Negative
    \/ Len(rows) = 1 /\ cache = Positive(rows[1])

(* As long as calls do not overlap and no version was added in place,      *)
(* every version of the collection has its table: no create, prune or drop *)
(* takes away what another version needs.                                  *)
TablesExist ==
  past = {} =>
    \A i \in DOMAIN rows : \A v \in Listed(rows[i]) : rows[i].physical[v] \in tables

(* As long as calls do not overlap, every change of the stored entry and   *)
(* of the tables is one of the catalog, made on the entry as it is - never *)
(* on what the cache remembers.                                            *)
C == INSTANCE Catalog WITH
       entry <- IF rows = <<>> THEN NoEntry ELSE rows[1]

SequentiallyAtomic ==
  C!Init /\ [][("overlapped" \notin past' /\ "overlapped" \notin past) => C!Next]_<<C!cvars>>

(* A collection has one entry: creating one that exists "fails if          *)
(* collection already exists" (registry_test.go).                          *)
AtMostOneEntry == Len(rows) <= 1

(* PruneVersion deletes the table of a "non-active schema version": the    *)
(* active version keeps its own.                                           *)
ActiveTableExists ==
  \A i \in DOMAIN rows : rows[i].physical[rows[i].active] \in tables

=============================================================================
