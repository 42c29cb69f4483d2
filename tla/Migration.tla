----------------------------- MODULE Migration -----------------------------
(***************************************************************************)
(* basePersistence.Migrate and Rollback, with the writes of the collection *)
(* they move, for one collection name.                                     *)
(*                                                                         *)
(* A migration is a chain of separate transactions: the statements on the  *)
(* table (or the copy into a new one), the registration of the version,    *)
(* its activation.  Anything may come between two of them: a write, a      *)
(* failure, a crash.  Registry models one registry operation in detail;    *)
(* here each is one step.  Inside Transact the migration runs on a         *)
(* registry, with a cache, of its own, and everything it does is committed *)
(* or rolled back at once; the registry outside keeps what it has cached.  *)
(*                                                                         *)
(* The application runs one migration or rollback of a collection at a     *)
(* time; its writes run beside it.  A physical collection is named after   *)
(* the version it was created for.                                         *)
(***************************************************************************)
EXTENDS Naturals

CONSTANTS
  Columns,    \* Columns[v]: the columns of version v, oldest version first
  NeedsCopy,  \* versions reached by a change no statement makes in place
  Documents,  \* the documents written
  NoDoc,      \* no document
  Writers     \* goroutines calling CreateMany

Versions == DOMAIN Columns

(* Versions are numbered from 1.                                           *)
ASSUME VersionsAssumption == Versions \subseteq Nat \ {0} /\ 1 \in Versions
ASSUME NeedsCopyAssumption == NeedsCopy \subseteq Versions
ASSUME NoDocAssumption == NoDoc \notin Documents

Phases == {"schema_only", "ddl", "full"}
NoEntry == [active |-> 0, physical |-> <<>>]

VARIABLES
  row,      \* the entry of the collection in _schemas_
  store,    \* the physical collections: columns and documents of each
  cached,   \* the entry in the registry's cache, NoEntry on a miss
  job,      \* the migration under way
  writing,  \* writing[w]: the write w is making
  acked,    \* the documents whose write has returned without error
  past      \* what has happened so far (history, not in the code)

migrationVars == <<row, store, cached, job, writing, acked, past>>

Idle == [pc |-> "idle", inside |-> FALSE, phase |-> "full",
         transformer |-> FALSE, from |-> 0, target |-> 0, table |-> 0,
         todo |-> {}, read |-> {}, savedRow |-> NoEntry, savedStore |-> <<>>]
NotWriting == [doc |-> NoDoc, version |-> 0, table |-> 0]

Listed(e) == DOMAIN e.physical
WithVersion(e, v, place) ==
  [e EXCEPT !.physical =
     [w \in Listed(e) \union {v} |-> IF w = v THEN place ELSE @[w]]]
WithoutVersion(e, v) ==
  [e EXCEPT !.physical = [w \in Listed(e) \ {v} |-> @[w]]]

(* What a registry operation sees: through its cache outside a transaction,*)
(* the row itself inside, where the registry is the transaction's own.     *)
View == IF job.inside \/ cached = NoEntry THEN row ELSE cached

(* A registry operation has written e, and its cache holds it.             *)
Registered(e) ==
  /\ row' = e
  /\ cached' = IF job.inside THEN cached ELSE e

(* A registry operation has read its entry through the cache.              *)
Looked == cached' = IF job.inside THEN cached ELSE View

MigrationInit ==
  /\ row = [active |-> 1, physical |-> [v \in {1} |-> 1]]
  /\ store = [t \in {1} |-> [columns |-> Columns[1], docs |-> {}]]
  /\ cached = NoEntry
  /\ job = Idle
  /\ writing = [w \in Writers |-> NotWriting]
  /\ acked = {}
  /\ past = {}

Writes == \E w \in Writers : writing[w] # NotWriting
Happened(what, condition) == IF condition THEN {what} ELSE {}

----------------------------------------------------------------------------
(* Starting a migration.                                                   *)

(* The statements from one version to another; "other" stands for a change *)
(* of the diff that has none.                                              *)
Diff(from, to) ==
  {"add"} \X (Columns[to] \ Columns[from])
    \union {"drop"} \X (Columns[from] \ Columns[to])
    \union {"other"} \X (IF to \in NeedsCopy THEN {"change"} ELSE {})

CanApplyAllInPlace(todo) == \A change \in todo : change[1] # "other"

(* The plan's own phase is honoured; "" asks for one.                      *)
ResolvePhase(phase, transformer, todo) ==
  IF phase # "" THEN phase
  ELSE IF transformer THEN "full"
  ELSE IF CanApplyAllInPlace(todo) THEN "schema_only" ELSE "ddl"

Migrate(inside, plannedPhase, transformer) ==
  LET entry == IF inside THEN row ELSE View
      target == entry.active + 1
      todo == Diff(entry.active, target)
      phase == ResolvePhase(plannedPhase, transformer, todo)
  IN /\ job = Idle
     /\ target \in Versions
     /\ job' = [Idle EXCEPT
          !.pc = IF phase = "full" THEN "register copy" ELSE "alter",
          !.inside = inside, !.phase = phase, !.transformer = transformer,
          !.from = entry.active, !.target = target,
          !.table = entry.physical[entry.active], !.todo = todo,
          !.savedRow = IF inside THEN row ELSE NoEntry,
          !.savedStore = IF inside THEN store ELSE <<>>]
     /\ cached' = IF inside THEN cached ELSE entry
     /\ past' = past \union Happened("overlapped", Writes)
     /\ UNCHANGED <<row, store, writing, acked>>

(* Migrate returns.  A failure inside a transaction undoes all of it.      *)
Succeeds == job' = Idle
Fails ==
  /\ job' = Idle
  /\ row' = IF job.inside THEN job.savedRow ELSE row
  /\ store' = IF job.inside THEN job.savedStore ELSE store

GoTo(step) == job' = [job EXCEPT !.pc = step]

(* Some statement has been executed, and nothing will undo it.             *)
AlteredInPart == ~job.inside /\ job.todo # Diff(job.from, job.target)

----------------------------------------------------------------------------
(* In place.                                                               *)

Applied(change, columns) ==
  IF change[1] = "add" THEN columns \union {change[2]} ELSE columns \ {change[2]}

(* ADD COLUMN refuses a column the table has, DROP COLUMN one it has not.  *)
Applicable(change) ==
  /\ job.table \in DOMAIN store
  /\ change[1] = "add" => change[2] \notin store[job.table].columns
  /\ change[1] = "drop" => change[2] \in store[job.table].columns
  /\ change[1] # "other"

(* One statement of applyDDLInPlace, a transaction of its own.             *)
ApplyChange(change) ==
  /\ job.pc = "alter"
  /\ change \in job.todo
  /\ Applicable(change)
  /\ store' = [store EXCEPT ![job.table].columns = Applied(change, @)]
  /\ job' = [job EXCEPT !.todo = @ \ {change}]
  /\ past' = past \union Happened("dropped in place", change[1] = "drop")
  /\ UNCHANGED <<row, cached, writing, acked>>

(* Mutant: the fallback is taken for what is left of the statements.       *)
ChangeFailsSilently ==
  /\ job.pc = "alter"
  /\ job' = [job EXCEPT !.todo = {}]
  /\ UNCHANGED <<row, store, cached, writing, acked, past>>

(* A statement fails: Migrate returns, or falls back to the copy.          *)
ChangeFails ==
  /\ job.pc = "alter"
  /\ job.todo # {}
  /\ \/ job.phase = "ddl" /\ GoTo("register copy") /\ UNCHANGED <<row, store>>
     \/ job.phase = "schema_only" /\ Fails
  /\ past' = past \union Happened("altered in part", AlteredInPart)
  /\ UNCHANGED <<cached, writing, acked>>

AddVersionInPlace ==
  /\ job.pc = "alter"
  /\ job.todo = {}
  /\ job.target \notin Listed(View)
  /\ Registered(WithVersion(View, job.target, job.table))
  /\ GoTo("activate")
  /\ UNCHANGED <<store, writing, acked, past>>

----------------------------------------------------------------------------
(* By a copy.                                                              *)

(* CREATE TABLE IF NOT EXISTS, and the version, in one transaction.        *)
AddVersionWithTable ==
  LET empty == [columns |-> Columns[job.target], docs |-> {}]
  IN /\ job.pc = "register copy"
     /\ job.target \notin Listed(View)
     /\ Registered(WithVersion(View, job.target, job.target))
     /\ store' = [t \in DOMAIN store \union {job.target} |->
                    IF t \in DOMAIN store THEN store[t] ELSE empty]
     /\ GoTo(IF job.transformer THEN "read" ELSE "activate")
     /\ past' = past \union Happened("no transformer", ~job.transformer)
     /\ UNCHANGED <<writing, acked>>

(* The registry refuses a version it lists, or its transaction fails.      *)
AddVersionFails ==
  /\ \/ job.pc = "alter" /\ job.todo = {}
     \/ job.pc = "register copy"
  /\ Fails
  /\ IF job.inside THEN UNCHANGED cached ELSE cached' = View
  /\ past' = past \union Happened("altered in part", AlteredInPart)
  /\ UNCHANGED <<writing, acked>>

(* DefaultDataMigrator.Migrate reads every document of the source once.    *)
ReadSource ==
  LET source == View.physical[job.from]
  IN /\ job.pc = "read"
     /\ job.from \in Listed(View)
     /\ source \in DOMAIN store
     /\ Columns[job.from] \subseteq store[source].columns
     /\ job' = [job EXCEPT !.pc = "insert", !.read = store[source].docs]
     /\ Looked
     /\ UNCHANGED <<row, store, writing, acked, past>>

(* It transforms what it has read and inserts it as one batch.             *)
InsertTransformed ==
  /\ job.pc = "insert"
  /\ store' = [store EXCEPT ![job.target].docs = @ \union job.read]
  /\ GoTo("activate")
  /\ UNCHANGED <<row, cached, writing, acked, past>>

(* Mutant: the failed version is left for the caller to find.              *)
CopyFailsForGood ==
  /\ job.pc \in {"read", "insert"}
  /\ Fails
  /\ UNCHANGED <<cached, writing, acked, past>>

(* Mutant: the copy's failure is logged and the version activated.         *)
CopyFailureIgnored ==
  /\ job.pc \in {"read", "insert"}
  /\ GoTo("activate")
  /\ UNCHANGED <<row, store, cached, writing, acked, past>>

(* The read, the transformer (its panic is caught) or the insertion fails. *)
CopyFails ==
  /\ job.pc \in {"read", "insert"}
  /\ GoTo("prune")
  /\ UNCHANGED <<row, store, cached, writing, acked, past>>

(* The failed version is pruned with its table, and the error returned.    *)
PruneFailed ==
  LET e == View
  IN /\ job.pc = "prune"
     /\ job.target \in Listed(e)
     /\ e.active # job.target
     /\ job' = Idle
     /\ IF job.inside
        THEN row' = job.savedRow /\ store' = job.savedStore /\ UNCHANGED cached
        ELSE /\ Registered(WithoutVersion(e, job.target))
             /\ store' = [t \in DOMAIN store \ {e.physical[job.target]} |-> store[t]]
     /\ UNCHANGED <<writing, acked, past>>

(* A failure to prune is only logged.                                      *)
PruneFails ==
  /\ job.pc = "prune"
  /\ Fails
  /\ past' = past \union {"not pruned"}
  /\ UNCHANGED <<cached, writing, acked>>

----------------------------------------------------------------------------
(* Activation, rollback, crash.                                            *)

SetActiveVersion ==
  LET e == View
  IN /\ job.pc = "activate"
     /\ job.target \in Listed(e)
     /\ e.active # job.target
     /\ Registered([e EXCEPT !.active = job.target])
     /\ Succeeds
     /\ past' = past \union Happened("inside", job.inside)
     /\ UNCHANGED <<store, writing, acked>>

SetActiveVersionFails ==
  /\ job.pc = "activate"
  /\ Fails
  /\ past' = past \union {"not activated"}
  /\ UNCHANGED <<cached, writing, acked>>

(* The callback of Transact returns an error after Migrate, or the commit  *)
(* fails.                                                                  *)
TransactionRollsBack ==
  /\ job # Idle
  /\ job.inside
  /\ Fails
  /\ UNCHANGED <<cached, writing, acked, past>>

(* The version the caller names, or the one below the active one.          *)
Rollback(v) ==
  LET e == View
  IN /\ job = Idle
     /\ v \in Listed(e)
     /\ v # e.active
     /\ Registered([e EXCEPT !.active = v])
     /\ past' = past \union {"rolled back"}
     /\ UNCHANGED <<store, job, writing, acked>>

Crash ==
  /\ job' = Idle
  /\ row' = IF job.inside THEN job.savedRow ELSE row
  /\ store' = IF job.inside THEN job.savedStore ELSE store
  /\ cached' = NoEntry
  /\ writing' = [w \in Writers |-> NotWriting]
  /\ past' = past \union {"crashed"}
  /\ UNCHANGED acked

----------------------------------------------------------------------------
(* The writes.                                                             *)

(* CreateMany resolves the active schema through the registry's cache.     *)
StartWrite(w, d) ==
  LET e == IF cached = NoEntry THEN row ELSE cached
  IN /\ writing[w] = NotWriting
     /\ d \notin acked
     /\ \A u \in Writers : writing[u].doc # d
     /\ ~job.inside
     /\ writing' = [writing EXCEPT ![w] =
          [doc |-> d, version |-> e.active, table |-> e.physical[e.active]]]
     /\ cached' = e
     /\ past' = past \union Happened("overlapped", job # Idle)
     /\ UNCHANGED <<row, store, job, acked>>

(* A transaction on the database keeps other writes waiting.               *)
FinishWrite(w) ==
  LET t == writing[w].table
  IN /\ writing[w] # NotWriting
     /\ ~job.inside
     /\ t \in DOMAIN store
     /\ Columns[writing[w].version] \subseteq store[t].columns
     /\ store' = [store EXCEPT ![t].docs = @ \union {writing[w].doc}]
     /\ acked' = acked \union {writing[w].doc}
     /\ writing' = [writing EXCEPT ![w] = NotWriting]
     /\ UNCHANGED <<row, cached, job, past>>

WriteFails(w) ==
  /\ writing[w] # NotWriting
  /\ writing' = [writing EXCEPT ![w] = NotWriting]
  /\ UNCHANGED <<row, store, cached, job, acked, past>>

MigrationNext ==
  \/ \E inside, transformer \in BOOLEAN, phase \in Phases \union {""} :
       Migrate(inside, phase, transformer)
  \/ \E change \in job.todo : ApplyChange(change)
  \/ ChangeFails
  \/ AddVersionInPlace
  \/ AddVersionWithTable
  \/ AddVersionFails
  \/ ReadSource
  \/ InsertTransformed
  \/ CopyFails
  \/ PruneFailed
  \/ PruneFails
  \/ SetActiveVersion
  \/ SetActiveVersionFails
  \/ TransactionRollsBack
  \/ \E v \in Versions : Rollback(v)
  \/ Crash
  \/ \E w \in Writers, d \in Documents : StartWrite(w, d)
  \/ \E w \in Writers : FinishWrite(w) \/ WriteFails(w)

MigrationSpec == MigrationInit /\ [][MigrationNext]_migrationVars

----------------------------------------------------------------------------
(* Properties.                                                             *)

(* What no property answers for: the ways the code does not provide for.   *)
BeyondReadable == {"overlapped", "no transformer", "inside", "rolled back"}
BeyondFitting == {"dropped in place", "inside"}
BeyondRetry == {"inside", "rolled back", "crashed", "not pruned", "not activated"}

(* A document whose write was acknowledged stays readable: the physical    *)
(* collection of the active version holds it, through failures, prunings   *)
(* and crashes.  Excepted are a write beside a migration, a copy without a *)
(* transformer, a migration inside a transaction that commits (the         *)
(* registry outside keeps its stale entry), a return to an older table.    *)
AckedReadable ==
  past \intersect BeyondReadable = {}
    => acked \subseteq store[row.physical[row.active]].docs

(* The active version always has a table with all its columns, so that its *)
(* documents can be read and written, whatever step of a migration failed. *)
(* A column dropped in place is missed by the older version, if that one   *)
(* is still, or again, the active one.                                     *)
ActiveSchemaFits ==
  past \intersect BeyondFitting = {}
    => LET place == row.physical[row.active]
       IN /\ place \in DOMAIN store
          /\ Columns[row.active] \subseteq store[place].columns

(* "so the caller can retry": once Migrate has returned, no version above  *)
(* the active one is listed, no table is left that no version has, and the *)
(* table of the active version has its columns and no others, which is     *)
(* what the statements of a retry start from.  The last is not so when a   *)
(* migration in place fails after a statement has been executed: nothing   *)
(* undoes that one, and the retry's own ADD COLUMN fails on it (only the   *)
(* copy, PhaseFull or PhaseDDL, is then left to retry with).               *)
RetryPossible ==
  /\ job = Idle
  /\ past \intersect BeyondRetry = {}
  => /\ \A v \in Listed(row) : v <= row.active
     /\ DOMAIN store = {row.physical[v] : v \in Listed(row)}
     /\ \/ "altered in part" \in past
        \/ store[row.physical[row.active]].columns = Columns[row.active]

(* Beyond all three there is nothing left to check.                        *)
SomethingPromised ==
  \E beyond \in {BeyondReadable, BeyondFitting, BeyondRetry} : past \intersect beyond = {}

=============================================================================
