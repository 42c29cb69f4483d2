-------------------------- MODULE MigrationProofs --------------------------
(***************************************************************************)
(* Proofs about Migration, for any versions, documents and writers, and    *)
(* about SchemaEvolution, for any schemas an author can write.             *)
(***************************************************************************)
EXTENDS Migration, SchemaEvolution, TLAPS

Column == UNION {Columns[v] : v \in Versions}
Maps(S) == UNION {[D -> S] : D \in SUBSET Versions}
Tables == [columns : SUBSET Column, docs : SUBSET Documents]
Entries == [active : Versions, physical : Maps(Versions)]
Stores == Maps(Tables)
Steps == {"idle", "alter", "register copy", "read", "insert", "prune", "activate"}
Changes == ({"add", "drop"} \X Column) \union ({"other"} \X {"change"})
Jobs ==
  [pc : Steps, inside : BOOLEAN, phase : Phases, transformer : BOOLEAN,
   from : Versions \union {0}, target : Versions \union {0}, table : Versions \union {0},
   todo : SUBSET Changes, read : SUBSET Documents,
   savedRow : Entries \union {NoEntry}, savedStore : Stores \union {<<>>}]
WritesUnderWay == [doc : Documents, version : Versions, table : Versions]

(* An entry and the tables it speaks of: a table bears the name of the     *)
(* version it was created for, and is the place of that version.           *)
Placed(e, tables) ==
  /\ e \in Entries /\ tables \in Stores
  /\ e.active \in Listed(e)
  /\ \A v \in Listed(e) :
       /\ e.physical[v] \in Listed(e)
       /\ e.physical[e.physical[v]] = e.physical[v]
       /\ e.physical[v] \in DOMAIN tables
  /\ DOMAIN tables \subseteq {e.physical[v] : v \in Listed(e)}

(* The row and the tables of the application, and those a transaction that *)
(* rolls back returns to.                                                  *)
PlacedInv ==
  /\ Placed(row, store)
  /\ job.inside => Placed(job.savedRow, job.savedStore)

(* The cache is never wrong: inside a transaction it has what was there    *)
(* before, which is what a rollback returns to.                            *)
CacheInv == cached \in {NoEntry, IF job.inside THEN job.savedRow ELSE row}

(* The version a migration has added is its own.                           *)
JobInv ==
  /\ job \in Jobs
  /\ job.pc = "idle" => job = Idle
  /\ job.pc # "idle" =>
       /\ job.from = row.active /\ job.target = row.active + 1
       /\ job.target \in Versions
       /\ job.table = row.physical[row.active]
  /\ job.pc \in {"read", "insert", "prune"} =>
       /\ job.target \in Listed(row)
       /\ \A v \in Listed(row) : row.physical[v] = job.target <=> v = job.target
  /\ job.pc = "activate" => job.target \in Listed(row)

PlainTypes ==
  /\ writing \in [Writers -> WritesUnderWay \union {NotWriting}]
  /\ acked \subseteq Documents

CoreInv == PlainTypes /\ PlacedInv /\ CacheInv /\ JobInv

(* Every version has its columns, not the active one alone; what the table *)
(* lacks for the new version is still to be added.                         *)
Fits(e, tables) ==
  \A v \in Listed(e) : Columns[v] \subseteq tables[e.physical[v]].columns
FitsInv ==
  /\ Fits(row, store)
  /\ job.inside => Fits(job.savedRow, job.savedStore)
  /\ job.pc = "alter" =>
       \A c \in Columns[job.target] :
         c \in store[job.table].columns \/ <<"add", c>> \in job.todo

(* A write goes to the table of the active version, and never beside a     *)
(* migration; what the migration has read or copied is everything.         *)
Holds(e, tables) == acked \subseteq tables[e.physical[e.active]].docs
AckedInv ==
  /\ Holds(row, store)
  /\ job.inside => Holds(job.savedRow, job.savedStore)
  /\ \A w \in Writers : writing[w] # NotWriting =>
       job.pc = "idle" /\ writing[w].table = row.physical[row.active]
  /\ job.pc = "insert" => acked \subseteq job.read
  /\ job.pc = "activate" => acked \subseteq store[row.physical[job.target]].docs

(* Nothing is listed above the active version but the one being added.     *)
Topmost(e, last) == \A v \in Listed(e) : v <= last
RetryInv ==
  /\ Topmost(row, IF job.pc \in {"idle", "alter", "register copy"}
                  THEN row.active ELSE job.target)
  /\ job.inside => Topmost(job.savedRow, job.savedRow.active)

(* Once a migration has been committed by a transaction the registry       *)
(* outside is stale, and nothing is claimed.                               *)
MigrationInv ==
  "inside" \notin past =>
    /\ CoreInv
    /\ past \intersect BeyondFitting = {} => FitsInv
    /\ past \intersect BeyondReadable = {} => AckedInv
    /\ past \intersect BeyondRetry = {} => RetryInv

----------------------------------------------------------------------------
(* Entries and tables.                                                     *)

LEMMA MapTypes ==
  ASSUME NEW S, NEW f
  PROVE  f \in Maps(S) <=> DOMAIN f \in SUBSET Versions /\ f \in [DOMAIN f -> S]
BY DEF Maps

LEMMA EntryTypes ==
  ASSUME NEW e \in Entries
  PROVE  /\ e.active \in Versions /\ e.physical \in Maps(Versions)
         /\ Listed(e) \in SUBSET Versions
         /\ \A v \in Listed(e) : e.physical[v] \in Versions
         /\ e # NoEntry
<1>1. e.active \in Versions /\ e.physical \in Maps(Versions)
  BY DEF Entries
<1>2. e.active # 0
  BY <1>1, VersionsAssumption
<1> QED
  BY <1>1, <1>2, MapTypes DEF Listed, NoEntry

LEMMA AddedVersion ==
  ASSUME NEW e \in Entries, NEW v \in Versions, NEW place \in Versions,
         NEW new, new = WithVersion(e, v, place)
  PROVE  /\ new \in Entries /\ new.active = e.active
         /\ Listed(new) = Listed(e) \union {v}
         /\ new.physical[v] = place
         /\ \A w \in Listed(e) \ {v} : new.physical[w] = e.physical[w]
<1> DEFINE D == Listed(e) \union {v}
           f == [w \in D |-> IF w = v THEN place ELSE e.physical[w]]
<1>1. new = [e EXCEPT !.physical = f]
  BY DEF WithVersion, Entries
<1>2. D \in SUBSET Versions /\ \A w \in D : f[w] \in Versions
  BY EntryTypes
<1>3. f \in Maps(Versions) /\ DOMAIN f = D
  BY <1>2, MapTypes
<1>4. f[v] = place /\ \A w \in Listed(e) \ {v} : f[w] = e.physical[w]
  OBVIOUS
<1> HIDE DEF f
<1>5. new \in Entries /\ new.active = e.active /\ new.physical = f
  BY <1>1, <1>3 DEF Entries
<1> QED
  BY <1>3, <1>4, <1>5 DEF Listed

LEMMA RemovedVersion ==
  ASSUME NEW e \in Entries, NEW v \in Versions
  PROVE  LET new == WithoutVersion(e, v)
         IN  /\ new \in Entries /\ new.active = e.active
             /\ Listed(new) = Listed(e) \ {v}
             /\ \A w \in Listed(e) \ {v} : new.physical[w] = e.physical[w]
<1> DEFINE new == WithoutVersion(e, v)
           D == Listed(e) \ {v}
           f == [w \in D |-> e.physical[w]]
<1>1. new = [e EXCEPT !.physical = f]
  BY DEF WithoutVersion, Entries
<1>2. D \in SUBSET Versions /\ \A w \in D : f[w] \in Versions
  BY EntryTypes
<1>3. f \in Maps(Versions) /\ DOMAIN f = D
  BY <1>2, MapTypes
<1>4. \A w \in Listed(e) \ {v} : f[w] = e.physical[w]
  OBVIOUS
<1> HIDE DEF f
<1>5. new \in Entries /\ new.active = e.active /\ new.physical = f
  BY <1>1, <1>3 DEF Entries
<1> QED
  BY <1>3, <1>4, <1>5 DEF Listed

LEMMA ActivatedVersion ==
  ASSUME NEW e \in Entries, NEW v \in Versions
  PROVE  LET new == [e EXCEPT !.active = v]
         IN  new \in Entries /\ new.active = v /\ new.physical = e.physical
BY DEF Entries

LEMMA TableTypes ==
  ASSUME NEW all \in Stores
  PROVE  /\ DOMAIN all \in SUBSET Versions
         /\ \A t \in DOMAIN all : all[t] \in Tables
BY MapTypes DEF Stores

LEMMA ColumnTypes == \A v \in Versions : Columns[v] \in SUBSET Column
BY DEF Column

LEMMA IdleTypes ==
  /\ Idle \in Jobs /\ Idle.pc = "idle" /\ Idle.inside = FALSE
  /\ \A s \in Steps : s # "idle" => s \in Steps \ {"idle"}
BY DEF Idle, Jobs, Steps, Phases

(* Inside or outside, an operation sees the row.                           *)
LEMMA ViewIsRow == CoreInv => View = row
BY DEF CoreInv, CacheInv, View

LEMMA MigrationInitially == MigrationInit => MigrationInv
<1> SUFFICES ASSUME MigrationInit PROVE MigrationInv
  OBVIOUS
<1>1. 1 \in Versions
  BY VersionsAssumption
<1>2. row \in Entries /\ store \in Stores
  <2> DEFINE f == [v \in {1} |-> 1]
             g == [t \in {1} |-> [columns |-> Columns[1], docs |-> {}]]
  <2>1. f \in Maps(Versions) /\ g \in Maps(Tables)
    BY <1>1, ColumnTypes, MapTypes DEF Tables
  <2> HIDE DEF f, g
  <2> QED
    BY <1>1, <2>1 DEF MigrationInit, Entries, Stores, f, g
<1>3. /\ row.active = 1 /\ Listed(row) = {1} /\ row.physical[1] = 1
      /\ DOMAIN store = {1} /\ store[1] = [columns |-> Columns[1], docs |-> {}]
  BY DEF MigrationInit, Listed
<1>4. PlacedInv
  BY <1>2, <1>3, IdleTypes DEF MigrationInit, PlacedInv, Placed
<1>5. PlainTypes /\ CacheInv /\ JobInv
  BY IdleTypes DEF MigrationInit, PlainTypes, CacheInv, JobInv, WritesUnderWay, NotWriting
<1>6. FitsInv /\ AckedInv /\ RetryInv
  BY <1>3, IdleTypes
  DEF MigrationInit, FitsInv, Fits, AckedInv, Holds, RetryInv, Topmost
<1> QED
  BY <1>4, <1>5, <1>6 DEF MigrationInv, CoreInv

----------------------------------------------------------------------------
(* Steps.                                                                  *)

(* What has happened stays: what is promised now was promised before.      *)
LEMMA Promised ==
  ASSUME MigrationInv, past \subseteq past', "inside" \notin past'
  PROVE  /\ CoreInv
         /\ past' \intersect BeyondFitting = {} => FitsInv
         /\ past' \intersect BeyondReadable = {} => AckedInv
         /\ past' \intersect BeyondRetry = {} => RetryInv
BY DEF MigrationInv

(* The migration is over, however it failed: what a transaction had done   *)
(* is undone, and nothing else has changed since the last step.            *)
LEMMA Ends ==
  ASSUME MigrationInv, past \subseteq past', Fails, UNCHANGED acked,
         cached' \in {NoEntry, cached} \/ (~job.inside /\ cached' = row),
         \/ UNCHANGED writing
         \/ writing' = [w \in Writers |-> NotWriting],
         job.pc \in {"read", "insert", "prune", "activate"} /\ ~job.inside =>
           past' \intersect BeyondRetry # {}
  PROVE  MigrationInv'
<1> SUFFICES ASSUME "inside" \notin past' PROVE MigrationInv'
  BY DEF MigrationInv
<1> USE DEF Fails
<1>1. CoreInv
  BY Promised
<1>2. job'.pc = "idle" /\ job'.inside = FALSE /\ job' = Idle /\ job' \in Jobs
  BY IdleTypes
<1>3. job.pc = "idle" => ~job.inside
  BY <1>1, IdleTypes DEF CoreInv, JobInv
<1>4. CoreInv'
  <2>1. PlacedInv'
    BY <1>1, <1>2 DEF CoreInv, PlacedInv
  <2>2. CacheInv'
    BY <1>1, <1>2 DEF CoreInv, CacheInv
  <2>3. PlainTypes'
    BY <1>1 DEF CoreInv, PlainTypes, WritesUnderWay, NotWriting
  <2> QED
    BY <1>2, <2>1, <2>2, <2>3 DEF CoreInv, JobInv
<1>5. ASSUME past' \intersect BeyondFitting = {} PROVE FitsInv'
  <2>1. FitsInv
    BY <1>5, Promised
  <2> QED
    BY <1>2, <2>1 DEF FitsInv
<1>6. ASSUME past' \intersect BeyondReadable = {} PROVE AckedInv'
  <2>1. AckedInv
    BY <1>6, Promised
  <2>2. Holds(row, store)'
    BY <2>1 DEF AckedInv, Holds
  <2>3. ASSUME NEW w \in Writers, writing'[w] # NotWriting
        PROVE  writing'[w].table = row'.physical[row'.active]
    BY <1>3, <2>1, <2>3 DEF AckedInv
  <2> QED
    BY <1>2, <2>2, <2>3 DEF AckedInv
<1>7. ASSUME past' \intersect BeyondRetry = {} PROVE RetryInv'
  <2>1. RetryInv
    BY <1>7, Promised
  <2>2. job.pc \in Steps
    BY <1>1 DEF CoreInv, JobInv, Jobs
  <2> QED
    BY <1>2, <1>7, <2>1, <2>2 DEF RetryInv, Topmost, Steps
<1> QED
  BY <1>4, <1>5, <1>6, <1>7 DEF MigrationInv

LEMMA MigrationEnds ==
  ASSUME MigrationInv,
         \/ ChangeFails /\ job' = Idle
         \/ AddVersionFails
         \/ PruneFails \/ SetActiveVersionFails \/ TransactionRollsBack \/ Crash
  PROVE  MigrationInv'
<1> SUFFICES ASSUME "inside" \notin past' PROVE MigrationInv'
  BY DEF MigrationInv
<1>1. past \subseteq past'
  BY DEF ChangeFails, AddVersionFails, PruneFails, SetActiveVersionFails,
         TransactionRollsBack, Crash
<1>2. View = row /\ job.pc \in Steps /\ Idle.pc = "idle" /\ job \in Jobs
  BY <1>1, Promised, ViewIsRow, IdleTypes DEF CoreInv, JobInv, Jobs
<1>3. CASE ChangeFails /\ job' = Idle
  <2>1. Fails
    <3>1. [job EXCEPT !.pc = "register copy"] # Idle
      BY <1>2 DEF Jobs
    <3> QED
      BY <1>3, <3>1 DEF ChangeFails, GoTo
  <2> QED
    BY <1>1, <1>3, <2>1, Ends DEF ChangeFails
<1>4. CASE AddVersionFails
  BY <1>1, <1>2, <1>4, Ends DEF AddVersionFails
<1>5. CASE PruneFails \/ SetActiveVersionFails \/ Crash
  <2>1. past' \intersect BeyondRetry # {} /\ Fails
    BY <1>5 DEF PruneFails, SetActiveVersionFails, Crash, BeyondRetry, Fails
  <2> QED
    BY <1>1, <1>5, <2>1, Ends DEF PruneFails, SetActiveVersionFails, Crash
<1>6. CASE TransactionRollsBack
  BY <1>1, <1>6, Ends DEF TransactionRollsBack
<1> QED
  BY <1>3, <1>4, <1>5, <1>6

(* A step of a write, or the beginning of one.                             *)
LEMMA WriteStarts ==
  ASSUME MigrationInv, NEW w \in Writers, NEW d \in Documents, StartWrite(w, d)
  PROVE  MigrationInv'
<1> SUFFICES ASSUME "inside" \notin past' PROVE MigrationInv'
  BY DEF MigrationInv
<1>1. past \subseteq past' /\ UNCHANGED <<row, store, job, acked>> /\ ~job.inside
  BY DEF StartWrite
<1>2. CoreInv
  BY <1>1, Promised
<1>3. PICK e \in Entries :
        /\ e = row /\ cached' = e
        /\ writing' = [writing EXCEPT ![w] =
             [doc |-> d, version |-> e.active, table |-> e.physical[e.active]]]
  BY <1>1, <1>2 DEF StartWrite, CoreInv, CacheInv, PlacedInv, Placed
<1>4. CoreInv'
  <2>1. [doc |-> d, version |-> e.active, table |-> e.physical[e.active]] \in WritesUnderWay
    BY <1>2, <1>3, EntryTypes DEF WritesUnderWay, CoreInv, PlacedInv, Placed
  <2>2. PlainTypes'
    BY <1>1, <1>2, <1>3, <2>1 DEF CoreInv, PlainTypes
  <2>3. PlacedInv' /\ CacheInv' /\ JobInv'
    BY <1>1, <1>2, <1>3 DEF CoreInv, PlacedInv, CacheInv, JobInv
  <2> QED
    BY <2>2, <2>3 DEF CoreInv
<1>5. past' \intersect BeyondFitting = {} => FitsInv'
  BY <1>1, Promised DEF FitsInv
<1>6. ASSUME past' \intersect BeyondReadable = {} PROVE AckedInv'
  <2>1. AckedInv
    BY <1>1, <1>6, Promised
  <2>2. job = Idle
    BY <1>6 DEF StartWrite, Happened, BeyondReadable
  <2>3. \A u \in Writers : writing'[u] # NotWriting =>
          u = w \/ writing[u] # NotWriting
    BY <1>2, <1>3 DEF CoreInv, PlainTypes
  <2>4. \A u \in Writers : writing'[u] # NotWriting =>
          writing'[u].table = row.physical[row.active]
    BY <1>2, <1>3, <2>1, <2>3 DEF CoreInv, PlainTypes, AckedInv
  <2> QED
    BY <1>1, <2>1, <2>2, <2>4, IdleTypes DEF AckedInv, Holds
<1>7. past' \intersect BeyondRetry = {} => RetryInv'
  BY <1>1, Promised DEF RetryInv
<1> QED
  BY <1>4, <1>5, <1>6, <1>7 DEF MigrationInv

(* One table changes.                                                      *)
LEMMA TableChanged ==
  ASSUME store \in Stores, NEW t \in DOMAIN store, NEW made \in Tables,
         store' = [store EXCEPT ![t] = made]
  PROVE  /\ store' \in Stores /\ DOMAIN store' = DOMAIN store /\ store'[t] = made
         /\ \A u \in DOMAIN store \ {t} : store'[u] = store[u]
<1>1. store \in [DOMAIN store -> Tables] /\ DOMAIN store \in SUBSET Versions
  BY MapTypes DEF Stores
<1>2. store' \in [DOMAIN store' -> Tables] /\ DOMAIN store' = DOMAIN store
  BY <1>1
<1> QED
  BY <1>1, <1>2, MapTypes DEF Stores

LEMMA DocsAdded ==
  ASSUME NEW t \in DOMAIN store, NEW docs \in SUBSET Documents, store \in Stores,
         store' = [store EXCEPT ![t].docs = @ \union docs]
  PROVE  /\ store' \in Stores /\ DOMAIN store' = DOMAIN store
         /\ \A u \in DOMAIN store : store'[u].columns = store[u].columns
         /\ \A u \in DOMAIN store : u # t => store'[u].docs = store[u].docs
         /\ store'[t].docs = store[t].docs \union docs
<1>1. PICK made \in Tables :
        /\ made = [store[t] EXCEPT !.docs = @ \union docs]
        /\ made.columns = store[t].columns /\ made.docs = store[t].docs \union docs
  BY TableTypes DEF Tables
<1>2. store' = [store EXCEPT ![t] = made]
  BY <1>1
<1>3. /\ store' \in Stores /\ DOMAIN store' = DOMAIN store /\ store'[t] = made
      /\ \A u \in DOMAIN store \ {t} : store'[u] = store[u]
  BY <1>2, TableChanged
<1> QED
  BY <1>1, <1>3

LEMMA WriteFinishes ==
  ASSUME MigrationInv, NEW w \in Writers, FinishWrite(w)
  PROVE  MigrationInv'
<1> SUFFICES ASSUME "inside" \notin past' PROVE MigrationInv'
  BY DEF MigrationInv
<1>1. past' = past /\ UNCHANGED <<row, cached, job>> /\ ~job.inside
      /\ writing[w] # NotWriting /\ writing' = [writing EXCEPT ![w] = NotWriting]
  BY DEF FinishWrite
<1>2. CoreInv
  BY <1>1, Promised
<1>3. PICK t \in DOMAIN store, d \in Documents :
        /\ t = writing[w].table /\ d = writing[w].doc
        /\ acked' = acked \union {d}
        /\ store' = [store EXCEPT ![t].docs = @ \union {d}]
  <2>1. writing[w] \in WritesUnderWay
    BY <1>1, <1>2 DEF CoreInv, PlainTypes
  <2> QED
    BY <2>1 DEF FinishWrite, WritesUnderWay
<1>4. /\ store' \in Stores /\ DOMAIN store' = DOMAIN store
      /\ \A u \in DOMAIN store : store'[u].columns = store[u].columns
      /\ \A u \in DOMAIN store : u # t => store'[u].docs = store[u].docs
      /\ store'[t].docs = store[t].docs \union {d}
  <2>1. store \in Stores
    BY <1>2 DEF CoreInv, PlacedInv, Placed
  <2>2. PICK docs \in SUBSET Documents : docs = {d}
    OBVIOUS
  <2>3. store' = [store EXCEPT ![t].docs = @ \union docs]
    BY <1>3, <2>2
  <2>4. /\ store' \in Stores /\ DOMAIN store' = DOMAIN store
        /\ \A u \in DOMAIN store : store'[u].columns = store[u].columns
        /\ \A u \in DOMAIN store : u # t => store'[u].docs = store[u].docs
        /\ store'[t].docs = store[t].docs \union docs
    BY <2>1, <2>3, DocsAdded
  <2> QED
    BY <2>2, <2>4
<1>5. CoreInv'
  <2>1. PlainTypes'
    BY <1>1, <1>2, <1>3 DEF CoreInv, PlainTypes
  <2>2. PlacedInv'
    BY <1>1, <1>2, <1>4 DEF CoreInv, PlacedInv, Placed
  <2>3. CacheInv' /\ JobInv'
    BY <1>1, <1>2 DEF CoreInv, CacheInv, JobInv
  <2> QED
    BY <2>1, <2>2, <2>3 DEF CoreInv
<1>6. ASSUME past' \intersect BeyondFitting = {} PROVE FitsInv'
  <2>1. FitsInv
    BY <1>1, <1>6, Promised
  <2>2. Fits(row, store)'
    BY <1>1, <1>2, <1>4, <2>1 DEF FitsInv, Fits, CoreInv, PlacedInv, Placed
  <2>3. job.pc = "alter" => job.table \in DOMAIN store
    BY <1>2 DEF CoreInv, JobInv, PlacedInv, Placed
  <2> QED
    <3>1. job.inside => Fits(job.savedRow, job.savedStore)'
      BY <1>1, <2>1 DEF FitsInv, Fits
    <3>2. job.pc = "alter" =>
            \A c \in Columns[job.target] :
              c \in store'[job.table].columns \/ <<"add", c>> \in job.todo
      BY <1>4, <2>1, <2>3 DEF FitsInv
    <3> QED
      BY <1>1, <2>2, <3>1, <3>2 DEF FitsInv
<1>7. ASSUME past' \intersect BeyondReadable = {} PROVE AckedInv'
  <2>1. AckedInv
    BY <1>1, <1>7, Promised
  <2>2. job.pc = "idle" /\ t = row.physical[row.active]
    <3>1. writing[w] # NotWriting
      BY DEF FinishWrite
    <3> QED
      BY <1>3, <2>1, <3>1 DEF AckedInv
  <2>3. Holds(row, store)'
    BY <1>1, <1>3, <1>4, <2>1, <2>2 DEF AckedInv, Holds
  <2>4. \A u \in Writers : writing'[u] # NotWriting => writing[u] = writing'[u]
    BY <1>1, <1>2 DEF CoreInv, PlainTypes
  <2> QED
    BY <1>1, <2>1, <2>2, <2>3, <2>4 DEF AckedInv
<1>8. past' \intersect BeyondRetry = {} => RetryInv'
  BY <1>1, Promised DEF RetryInv
<1> QED
  BY <1>5, <1>6, <1>7, <1>8 DEF MigrationInv

LEMMA WriteEnds ==
  ASSUME MigrationInv, NEW w \in Writers, WriteFails(w)
  PROVE  MigrationInv'
<1> SUFFICES ASSUME "inside" \notin past' PROVE MigrationInv'
  BY DEF MigrationInv
<1>1. /\ UNCHANGED <<row, store, cached, job, acked, past>>
      /\ writing' = [writing EXCEPT ![w] = NotWriting]
  BY DEF WriteFails
<1>2. CoreInv
  BY <1>1, Promised
<1>3. CoreInv' /\ \A u \in Writers : writing'[u] # NotWriting => writing'[u] = writing[u]
  BY <1>1, <1>2 DEF CoreInv, PlainTypes, PlacedInv, CacheInv, JobInv
<1>4. past' \intersect BeyondFitting = {} => FitsInv'
  BY <1>1, Promised DEF FitsInv
<1>5. past' \intersect BeyondReadable = {} => AckedInv'
  BY <1>1, <1>3, Promised DEF AckedInv, Holds
<1>6. past' \intersect BeyondRetry = {} => RetryInv'
  BY <1>1, Promised DEF RetryInv
<1> QED
  BY <1>3, <1>4, <1>5, <1>6 DEF MigrationInv

(* Another listed version becomes the active one, without a migration.     *)
LEMMA RollsBack ==
  ASSUME MigrationInv, NEW v \in Versions, Rollback(v)
  PROVE  MigrationInv'
<1> SUFFICES ASSUME "inside" \notin past' PROVE MigrationInv'
  BY DEF MigrationInv
<1>1. /\ past' = past \union {"rolled back"} /\ UNCHANGED <<store, job, writing, acked>>
      /\ job.pc = "idle" /\ job.inside = FALSE /\ job = Idle
  BY IdleTypes DEF Rollback
<1>2. CoreInv
  BY <1>1, Promised
<1>3. PICK new \in Entries :
        /\ row' = new /\ cached' = new
        /\ new.active = v /\ new.physical = row.physical /\ v \in Listed(row)
  <2>1. row \in Entries /\ View = row
    BY <1>2, ViewIsRow DEF CoreInv, PlacedInv, Placed
  <2>2. row' = [row EXCEPT !.active = v] /\ cached' = row' /\ v \in Listed(row)
    BY <1>1, <2>1 DEF Rollback, Registered
  <2> QED
    BY <2>1, <2>2, ActivatedVersion
<1>4. CoreInv'
  <2>1. PlacedInv'
    <3>1. Placed(row, store)
      BY <1>2 DEF CoreInv, PlacedInv
    <3>2. Placed(new, store)
      BY <1>3, <3>1 DEF Placed, Listed
    <3> QED
      BY <1>1, <1>3, <3>2 DEF PlacedInv, Placed, Listed
  <2>2. PlainTypes' /\ CacheInv' /\ JobInv'
    BY <1>1, <1>2, <1>3 DEF CoreInv, PlainTypes, CacheInv, JobInv
  <2> QED
    BY <2>1, <2>2 DEF CoreInv
<1>5. past' \intersect BeyondFitting = {} => FitsInv'
  BY <1>1, <1>3, Promised DEF FitsInv, Fits, Listed
<1>6. past' \intersect BeyondReadable # {} /\ past' \intersect BeyondRetry # {}
  BY <1>1 DEF BeyondReadable, BeyondRetry
<1> QED
  BY <1>4, <1>5, <1>6 DEF MigrationInv

LEMMA DiffTypes ==
  ASSUME NEW v \in Versions, NEW w \in Versions
  PROVE  /\ Diff(v, w) \in SUBSET Changes
         /\ \A c \in Columns[w] : c \in Columns[v] \/ <<"add", c>> \in Diff(v, w)
BY DEF Diff, Changes, Column

(* What a migration begins with.                                           *)
LEMMA MigrationJob ==
  ASSUME CoreInv, NEW inside \in BOOLEAN, NEW transformer \in BOOLEAN,
         NEW phase \in Phases \union {""}, Migrate(inside, phase, transformer)
  PROVE  /\ job = Idle /\ job' \in Jobs
         /\ job'.pc \in {"register copy", "alter"} /\ job'.inside = inside
         /\ job'.from = row.active /\ job'.target = row.active + 1
         /\ job'.target \in Versions
         /\ job'.table = row.physical[row.active]
         /\ job'.todo = Diff(row.active, row.active + 1)
         /\ inside => job'.savedRow = row /\ job'.savedStore = store
         /\ cached' = IF inside THEN cached ELSE row
<1> DEFINE todo == Diff(row.active, row.active + 1)
           way == ResolvePhase(phase, transformer, todo)
           pc == IF way = "full" THEN "register copy" ELSE "alter"
           savedRow == IF inside THEN row ELSE NoEntry
           savedStore == IF inside THEN store ELSE <<>>
           new == [Idle EXCEPT
                     !.pc = pc, !.inside = inside, !.phase = way, !.transformer = transformer,
                     !.from = row.active, !.target = row.active + 1,
                     !.table = row.physical[row.active], !.todo = todo,
                     !.savedRow = savedRow, !.savedStore = savedStore]
<1>1. /\ row \in Entries /\ store \in Stores /\ View = row
      /\ row.active \in Versions /\ row.active \in Listed(row)
      /\ row.physical[row.active] \in Versions
  BY ViewIsRow, EntryTypes DEF CoreInv, PlacedInv, Placed
<1>2. /\ job = Idle /\ row.active + 1 \in Versions /\ job' = new
      /\ cached' = IF inside THEN cached ELSE row
  BY <1>1 DEF Migrate
<1>3. /\ pc \in {"register copy", "alter"} /\ way \in Phases
      /\ todo \in SUBSET Changes
      /\ savedRow \in Entries \union {NoEntry} /\ savedStore \in Stores \union {<<>>}
      /\ inside => savedRow = row /\ savedStore = store
  BY <1>1, <1>2, DiffTypes DEF ResolvePhase, Phases
<1> HIDE DEF todo, way, pc, savedRow, savedStore
<1>4. /\ new \in Jobs
      /\ new.pc = pc /\ new.inside = inside /\ new.from = row.active
      /\ new.target = row.active + 1 /\ new.table = row.physical[row.active]
      /\ new.todo = todo /\ new.savedRow = savedRow /\ new.savedStore = savedStore
  <2> DEFINE some == [Idle EXCEPT !.pc = pc, !.inside = inside, !.phase = way,
                                  !.transformer = transformer]
             more == [some EXCEPT !.from = row.active, !.target = row.active + 1,
                                  !.table = row.physical[row.active]]
             all == [more EXCEPT !.todo = todo, !.savedRow = savedRow,
                                 !.savedStore = savedStore]
  <2>1. new = all
    OBVIOUS
  <2>2. some \in Jobs /\ some.pc = pc /\ some.inside = inside
    <3>1. Idle \in Jobs /\ pc \in Steps /\ way \in Phases
      BY <1>3, IdleTypes DEF Steps
    <3> QED
      BY <3>1 DEF Jobs
  <2> HIDE DEF some, new
  <2>3. /\ more \in Jobs /\ more.pc = pc /\ more.inside = inside
        /\ more.from = row.active /\ more.target = row.active + 1
        /\ more.table = row.physical[row.active]
    BY <1>1, <1>2, <2>2 DEF Jobs
  <2> HIDE DEF more
  <2>4. /\ all \in Jobs /\ all.pc = pc /\ all.inside = inside
        /\ all.from = row.active /\ all.target = row.active + 1
        /\ all.table = row.physical[row.active]
        /\ all.todo = todo /\ all.savedRow = savedRow /\ all.savedStore = savedStore
    BY <1>3, <2>3 DEF Jobs
  <2> QED
    BY <2>1, <2>4
<1> HIDE DEF new
<1> QED
  BY <1>2, <1>3, <1>4 DEF todo

LEMMA MigrationStarts ==
  ASSUME MigrationInv, NEW inside \in BOOLEAN, NEW transformer \in BOOLEAN,
         NEW phase \in Phases \union {""}, Migrate(inside, phase, transformer)
  PROVE  MigrationInv'
<1> SUFFICES ASSUME "inside" \notin past' PROVE MigrationInv'
  BY DEF MigrationInv
<1>1. /\ past' = past \union Happened("overlapped", Writes)
      /\ UNCHANGED <<row, store, writing, acked>>
  BY DEF Migrate
<1>2. CoreInv
  BY <1>1, Promised
<1>3. /\ job = Idle /\ job' \in Jobs
      /\ job'.pc \in {"register copy", "alter"} /\ job'.inside = inside
      /\ job'.from = row.active /\ job'.target = row.active + 1
      /\ job'.target \in Versions
      /\ job'.table = row.physical[row.active]
      /\ job'.todo = Diff(row.active, row.active + 1)
      /\ inside => job'.savedRow = row /\ job'.savedStore = store
      /\ cached' = IF inside THEN cached ELSE row
  BY <1>2, MigrationJob
<1>4. CoreInv'
  <2>1. PlacedInv'
    BY <1>1, <1>2, <1>3 DEF CoreInv, PlacedInv
  <2>2. CacheInv'
    BY <1>1, <1>2, <1>3, IdleTypes DEF CoreInv, CacheInv
  <2>3. PlainTypes' /\ JobInv'
    BY <1>1, <1>2, <1>3 DEF CoreInv, PlainTypes, JobInv
  <2> QED
    BY <2>1, <2>2, <2>3 DEF CoreInv
<1>5. ASSUME past' \intersect BeyondFitting = {} PROVE FitsInv'
  <2>1. FitsInv
    BY <1>1, <1>5, Promised
  <2>2. /\ row.active \in Versions /\ row.active \in Listed(row) /\ row.active + 1 \in Versions
    BY <1>2, <1>3, EntryTypes DEF CoreInv, PlacedInv, Placed
  <2>3. \A c \in Columns[row.active + 1] :
          c \in Columns[row.active] \/ <<"add", c>> \in Diff(row.active, row.active + 1)
    BY <2>2, DiffTypes
  <2>4. Columns[row.active] \subseteq store[row.physical[row.active]].columns
    BY <2>1, <2>2 DEF FitsInv, Fits
  <2>5. Fits(row, store)' /\ (job'.inside => Fits(job.savedRow, job.savedStore)')
    BY <1>1, <1>3, <2>1 DEF FitsInv, Fits
  <2>6. \A c \in Columns[job'.target] :
          c \in store'[job'.table].columns \/ <<"add", c>> \in job'.todo
    BY <1>1, <1>3, <2>3, <2>4
  <2> QED
    BY <2>5, <2>6 DEF FitsInv
<1>6. ASSUME past' \intersect BeyondReadable = {} PROVE AckedInv'
  <2>1. AckedInv
    BY <1>1, <1>6, Promised
  <2>2. ~Writes
    BY <1>1, <1>6 DEF Happened, BeyondReadable
  <2> QED
    BY <1>1, <1>3, <2>1, <2>2 DEF AckedInv, Holds, Writes
<1>7. past' \intersect BeyondRetry = {} => RetryInv'
  BY <1>1, <1>3, IdleTypes, Promised DEF RetryInv, Topmost
<1> QED
  BY <1>4, <1>5, <1>6, <1>7 DEF MigrationInv

(* A migration goes on to another step.                                    *)
LEMMA GoesTo ==
  ASSUME job \in Jobs, NEW step \in Steps, GoTo(step)
  PROVE  /\ job' \in Jobs /\ job'.pc = step
         /\ job'.inside = job.inside /\ job'.from = job.from /\ job'.target = job.target
         /\ job'.table = job.table /\ job'.todo = job.todo /\ job'.read = job.read
         /\ job'.savedRow = job.savedRow /\ job'.savedStore = job.savedStore
BY DEF GoTo, Jobs

(* What a migration under way knows.                                       *)
LEMMA UnderWay ==
  ASSUME CoreInv, job.pc # "idle"
  PROVE  /\ job \in Jobs /\ row \in Entries /\ store \in Stores
         /\ View = row
         /\ job.from = row.active /\ job.target = row.active + 1
         /\ job.target \in Versions /\ row.active \in Versions
         /\ row.active \in Listed(row) /\ row.active # job.target
         /\ job.table = row.physical[row.active]
         /\ job.table \in DOMAIN store /\ job.table \in Versions
<1>1. /\ job \in Jobs /\ row \in Entries /\ store \in Stores
      /\ job.from = row.active /\ job.target = row.active + 1
      /\ job.target \in Versions /\ row.active \in Versions
      /\ row.active \in Listed(row)
      /\ job.table = row.physical[row.active]
      /\ job.table \in DOMAIN store /\ job.table \in Versions
  BY EntryTypes DEF CoreInv, JobInv, PlacedInv, Placed
<1>2. row.active # job.target
  BY <1>1, VersionsAssumption
<1> QED
  BY <1>1, <1>2, ViewIsRow

LEMMA ChangeApplied ==
  ASSUME CoreInv, NEW change \in job.todo, ApplyChange(change)
  PROVE  /\ change \in Changes
         /\ store' \in Stores /\ DOMAIN store' = DOMAIN store
         /\ \A u \in DOMAIN store : store'[u].docs = store[u].docs
         /\ \A u \in DOMAIN store \ {job.table} : store'[u] = store[u]
         /\ store'[job.table].columns = Applied(change, store[job.table].columns)
         /\ job' \in Jobs /\ job'.todo = job.todo \ {change}
         /\ job'.pc = job.pc /\ job'.inside = job.inside /\ job'.from = job.from
         /\ job'.target = job.target /\ job'.table = job.table
         /\ job'.savedRow = job.savedRow /\ job'.savedStore = job.savedStore
<1>1. /\ job.table \in DOMAIN store /\ store \in Stores /\ job \in Jobs
      /\ store[job.table] \in Tables
  BY UnderWay, TableTypes DEF ApplyChange
<1>2. change \in Changes
  BY <1>1 DEF Jobs
<1>3. Applied(change, store[job.table].columns) \in SUBSET Column
  BY <1>1, <1>2 DEF Applied, Changes, Tables
<1>4. PICK made \in Tables :
        /\ made = [store[job.table] EXCEPT !.columns = Applied(change, @)]
        /\ made.columns = Applied(change, store[job.table].columns)
        /\ made.docs = store[job.table].docs
  <2> DEFINE new == [store[job.table] EXCEPT !.columns = Applied(change, @)]
  <2>1. /\ new \in Tables /\ new.docs = store[job.table].docs
        /\ new.columns = Applied(change, store[job.table].columns)
    BY <1>1, <1>3 DEF Tables
  <2> HIDE DEF new
  <2> QED
    BY <2>1 DEF new
<1>5. store' = [store EXCEPT ![job.table] = made]
  BY <1>4 DEF ApplyChange
<1>6. PICK t \in DOMAIN store : t = job.table
  BY <1>1
<1>7. /\ store' \in Stores /\ DOMAIN store' = DOMAIN store /\ store'[t] = made
      /\ \A u \in DOMAIN store \ {t} : store'[u] = store[u]
  BY <1>1, <1>5, <1>6, TableChanged
<1>8. /\ job' \in Jobs /\ job'.todo = job.todo \ {change}
      /\ job'.pc = job.pc /\ job'.inside = job.inside /\ job'.from = job.from
      /\ job'.target = job.target /\ job'.table = job.table
      /\ job'.savedRow = job.savedRow /\ job'.savedStore = job.savedStore
  BY <1>1 DEF ApplyChange, Jobs
<1> QED
  BY <1>2, <1>4, <1>6, <1>7, <1>8

LEMMA ChangeApplies ==
  ASSUME MigrationInv, NEW change \in job.todo, ApplyChange(change)
  PROVE  MigrationInv'
<1> SUFFICES ASSUME "inside" \notin past' PROVE MigrationInv'
  BY DEF MigrationInv
<1>1. /\ past' = past \union Happened("dropped in place", change[1] = "drop")
      /\ UNCHANGED <<row, cached, writing, acked>>
      /\ job.pc = "alter"
  BY DEF ApplyChange
<1>2. CoreInv
  BY <1>1, Promised
<1>3. /\ change \in Changes
      /\ store' \in Stores /\ DOMAIN store' = DOMAIN store
      /\ \A u \in DOMAIN store : store'[u].docs = store[u].docs
      /\ \A u \in DOMAIN store \ {job.table} : store'[u] = store[u]
      /\ store'[job.table].columns = Applied(change, store[job.table].columns)
      /\ job' \in Jobs /\ job'.todo = job.todo \ {change}
      /\ job'.pc = job.pc /\ job'.inside = job.inside /\ job'.from = job.from
      /\ job'.target = job.target /\ job'.table = job.table
      /\ job'.savedRow = job.savedRow /\ job'.savedStore = job.savedStore
  BY <1>2, ChangeApplied
<1>4. CoreInv'
  <2>1. PlacedInv'
    <3>1. Placed(row, store)
      BY <1>2 DEF CoreInv, PlacedInv
    <3>2. row' = row /\ store' \in Stores /\ DOMAIN store' = DOMAIN store
      BY <1>1, <1>3
    <3>3. Placed(row, store)'
      BY <3>1, <3>2 DEF Placed
    <3> QED
      BY <1>2, <1>3, <3>3 DEF CoreInv, PlacedInv
  <2>2. PlainTypes' /\ CacheInv' /\ JobInv'
    BY <1>1, <1>2, <1>3 DEF CoreInv, PlainTypes, CacheInv, JobInv
  <2> QED
    BY <2>1, <2>2 DEF CoreInv
<1>5. ASSUME past' \intersect BeyondFitting = {} PROVE FitsInv'
  <2>1. FitsInv
    BY <1>1, <1>5, Promised
  <2>2. change[1] # "drop"
    BY <1>1, <1>5 DEF Happened, BeyondFitting
  <2>3. change = <<change[1], change[2]>> /\ change[1] \in {"add", "other"}
    BY <1>3, <2>2 DEF Changes
  <2>4. change[1] = "add"
    BY <2>3 DEF ApplyChange, Applicable
  <2>5. store'[job.table].columns = store[job.table].columns \union {change[2]}
    BY <1>3, <2>4 DEF Applied
  <2>6. \A u \in DOMAIN store : store[u].columns \subseteq store'[u].columns
    BY <1>3, <2>5
  <2>7. Fits(row, store)'
    BY <1>1, <1>2, <2>1, <2>6 DEF FitsInv, Fits, CoreInv, PlacedInv, Placed
  <2>8. ASSUME NEW c \in Columns[job'.target]
        PROVE  c \in store'[job'.table].columns \/ <<"add", c>> \in job'.todo
    <3>1. c \in store[job.table].columns \/ <<"add", c>> \in job.todo
      BY <1>1, <1>3, <2>1, <2>8 DEF FitsInv
    <3>2. CASE <<"add", c>> = change
      BY <1>3, <2>5, <3>2
    <3> QED
      BY <1>3, <2>5, <3>1, <3>2
  <2> QED
    BY <1>3, <2>1, <2>7, <2>8 DEF FitsInv
<1>6. ASSUME past' \intersect BeyondReadable = {} PROVE AckedInv'
  <2>1. AckedInv
    BY <1>1, <1>6, Promised
  <2>2. Holds(row, store)'
    BY <1>1, <1>2, <1>3, <2>1 DEF AckedInv, Holds, CoreInv, PlacedInv, Placed
  <2> QED
    BY <1>1, <1>3, <2>1, <2>2 DEF AckedInv, Holds
<1>7. past' \intersect BeyondRetry = {} => RetryInv'
  BY <1>1, <1>3, Promised DEF RetryInv, Topmost
<1> QED
  BY <1>4, <1>5, <1>6, <1>7 DEF MigrationInv

(* A migration falls back to the copy, or gives the copy up.               *)
LEMMA MigrationTurns ==
  ASSUME MigrationInv,
         \/ ChangeFails /\ job' # Idle
         \/ CopyFails
  PROVE  MigrationInv'
<1> SUFFICES ASSUME "inside" \notin past' PROVE MigrationInv'
  BY DEF MigrationInv
<1>1. /\ UNCHANGED <<row, store, cached, writing, acked>> /\ past \subseteq past'
      /\ \/ job.pc = "alter" /\ GoTo("register copy")
         \/ job.pc \in {"read", "insert"} /\ GoTo("prune")
  BY DEF ChangeFails, CopyFails, Fails
<1>2. CoreInv /\ job \in Jobs
  BY <1>1, Promised, UnderWay
<1>3. PICK step \in {"register copy", "prune"} : GoTo(step)
  BY <1>1
<1>4. /\ job' \in Jobs /\ job'.pc \in {"register copy", "prune"}
      /\ job'.pc = "prune" => job.pc \in {"read", "insert"}
      /\ job'.pc = "register copy" => job.pc = "alter"
      /\ job'.inside = job.inside /\ job'.from = job.from /\ job'.target = job.target
      /\ job'.table = job.table /\ job'.savedRow = job.savedRow
      /\ job'.savedStore = job.savedStore
  BY <1>1, <1>2, GoesTo DEF Steps
<1>5. CoreInv'
  <2>1. PlacedInv' /\ PlainTypes' /\ CacheInv'
    BY <1>1, <1>2, <1>4 DEF CoreInv, PlacedInv, PlainTypes, CacheInv
  <2>2. JobInv'
    BY <1>1, <1>2, <1>4 DEF CoreInv, JobInv
  <2> QED
    BY <2>1, <2>2 DEF CoreInv
<1>6. past' \intersect BeyondFitting = {} => FitsInv'
  BY <1>1, <1>4, Promised DEF FitsInv
<1>7. past' \intersect BeyondReadable = {} => AckedInv'
  BY <1>1, <1>4, Promised DEF AckedInv, Holds
<1>8. past' \intersect BeyondRetry = {} => RetryInv'
  BY <1>1, <1>4, Promised DEF RetryInv, Topmost
<1> QED
  BY <1>5, <1>6, <1>7, <1>8 DEF MigrationInv

(* The new version is registered where the active one is.                  *)
LEMMA AddsInPlace ==
  ASSUME MigrationInv, AddVersionInPlace
  PROVE  MigrationInv'
<1> SUFFICES ASSUME "inside" \notin past' PROVE MigrationInv'
  BY DEF MigrationInv
<1>1. /\ UNCHANGED <<store, writing, acked, past>>
      /\ job.pc = "alter" /\ job.todo = {}
  BY DEF AddVersionInPlace
<1>2. CoreInv
  BY <1>1, Promised
<1>3. /\ job \in Jobs /\ row \in Entries /\ store \in Stores
      /\ View = row
      /\ job.from = row.active /\ job.target = row.active + 1
      /\ job.target \in Versions /\ row.active \in Versions
      /\ row.active \in Listed(row) /\ row.active # job.target
      /\ job.table = row.physical[row.active]
      /\ job.table \in DOMAIN store /\ job.table \in Versions
  BY <1>1, <1>2, UnderWay
<1>4. PICK new \in Entries :
        /\ row' = new /\ cached' = IF job.inside THEN cached ELSE new
        /\ job.target \notin Listed(row)
        /\ new.active = row.active
        /\ Listed(new) = Listed(row) \union {job.target}
        /\ new.physical[job.target] = job.table
        /\ \A v \in Listed(row) : new.physical[v] = row.physical[v]
  <2>1. /\ row' = WithVersion(row, job.target, job.table)
        /\ cached' = IF job.inside THEN cached ELSE row'
        /\ job.target \notin Listed(row)
    BY <1>3 DEF AddVersionInPlace, Registered
  <2> DEFINE new == WithVersion(row, job.target, job.table)
  <2>2. /\ new \in Entries /\ new.active = row.active
        /\ Listed(new) = Listed(row) \union {job.target}
        /\ new.physical[job.target] = job.table
        /\ \A v \in Listed(row) \ {job.target} : new.physical[v] = row.physical[v]
    <3>1. row \in Entries /\ job.target \in Versions /\ job.table \in Versions
      BY <1>3
    <3> QED
      BY <3>1, AddedVersion
  <2> HIDE DEF new
  <2> QED
    BY <2>1, <2>2 DEF new
<1>5. /\ job' \in Jobs /\ job'.pc = "activate"
      /\ job'.inside = job.inside /\ job'.from = job.from /\ job'.target = job.target
      /\ job'.table = job.table
      /\ job'.savedRow = job.savedRow /\ job'.savedStore = job.savedStore
  BY <1>3, GoesTo DEF AddVersionInPlace, Steps
<1>6. CoreInv'
  <2>1. Placed(row, store)
    BY <1>2 DEF CoreInv, PlacedInv
  <2>2. Placed(new, store)
    BY <1>3, <1>4, <2>1 DEF Placed
  <2>3. PlacedInv'
    BY <1>1, <1>2, <1>4, <1>5, <2>2 DEF CoreInv, PlacedInv
  <2>4. PlainTypes' /\ CacheInv'
    BY <1>1, <1>2, <1>4, <1>5 DEF CoreInv, PlainTypes, CacheInv
  <2>5. JobInv'
    BY <1>3, <1>4, <1>5 DEF JobInv
  <2> QED
    BY <2>3, <2>4, <2>5 DEF CoreInv
<1>7. ASSUME past' \intersect BeyondFitting = {} PROVE FitsInv'
  <2>1. FitsInv
    BY <1>1, <1>7, Promised
  <2>2. Columns[job.target] \subseteq store[job.table].columns
    BY <1>1, <2>1 DEF FitsInv
  <2>3. Fits(new, store)
    BY <1>4, <2>1, <2>2 DEF FitsInv, Fits
  <2> QED
    BY <1>1, <1>4, <1>5, <2>1, <2>3 DEF FitsInv
<1>8. ASSUME past' \intersect BeyondReadable = {} PROVE AckedInv'
  <2>1. AckedInv
    BY <1>1, <1>8, Promised
  <2> QED
    BY <1>1, <1>3, <1>4, <1>5, <2>1 DEF AckedInv, Holds
<1>9. ASSUME past' \intersect BeyondRetry = {} PROVE RetryInv'
  <2>1. RetryInv
    BY <1>1, <1>9, Promised
  <2>2. \A v \in Listed(row) : v <= row.active /\ v \in Nat
    BY <1>1, <1>3, <2>1, EntryTypes, VersionsAssumption DEF RetryInv, Topmost
  <2>3. row.active \in Nat /\ job.target = row.active + 1
    BY <1>3, VersionsAssumption
  <2>4. \A v \in Listed(new) : v <= job.target
    BY <1>4, <2>2, <2>3
  <2> QED
    BY <1>4, <1>5, <2>1, <2>4 DEF RetryInv, Topmost
<1> QED
  BY <1>6, <1>7, <1>8, <1>9 DEF MigrationInv

(* A version not listed has no table; it is registered with one of its own.*)
LEMMA AddsWithTable ==
  ASSUME MigrationInv, AddVersionWithTable
  PROVE  MigrationInv'
<1> SUFFICES ASSUME "inside" \notin past' PROVE MigrationInv'
  BY DEF MigrationInv
<1>1. /\ UNCHANGED <<writing, acked>> /\ past \subseteq past'
      /\ ~job.transformer => "no transformer" \in past'
      /\ job.pc = "register copy"
  BY DEF AddVersionWithTable, Happened
<1>2. CoreInv
  BY <1>1, Promised
<1>3. /\ job \in Jobs /\ row \in Entries /\ store \in Stores
      /\ View = row
      /\ job.from = row.active /\ job.target = row.active + 1
      /\ job.target \in Versions /\ row.active \in Versions
      /\ row.active \in Listed(row) /\ row.active # job.target
      /\ job.table = row.physical[row.active]
      /\ job.table \in DOMAIN store /\ job.table \in Versions
  BY <1>1, <1>2, UnderWay
<1>4. PICK new \in Entries :
        /\ row' = new /\ cached' = IF job.inside THEN cached ELSE new
        /\ job.target \notin Listed(row)
        /\ new.active = row.active
        /\ Listed(new) = Listed(row) \union {job.target}
        /\ new.physical[job.target] = job.target
        /\ \A v \in Listed(row) : new.physical[v] = row.physical[v]
  <2>1. /\ row' = WithVersion(row, job.target, job.target)
        /\ cached' = IF job.inside THEN cached ELSE row'
        /\ job.target \notin Listed(row)
    BY <1>3 DEF AddVersionWithTable, Registered
  <2> DEFINE new == WithVersion(row, job.target, job.target)
  <2>2. /\ new \in Entries /\ new.active = row.active
        /\ Listed(new) = Listed(row) \union {job.target}
        /\ new.physical[job.target] = job.target
        /\ \A v \in Listed(row) \ {job.target} : new.physical[v] = row.physical[v]
    <3>1. row \in Entries /\ job.target \in Versions /\ job.table \in Versions
      BY <1>3
    <3> QED
      BY <3>1, AddedVersion
  <2> HIDE DEF new
  <2> QED
    BY <2>1, <2>2 DEF new
<1>5. PICK step \in {"read", "activate"} :
        step = (IF job.transformer THEN "read" ELSE "activate")
  OBVIOUS
<1>6. /\ job' \in Jobs /\ job'.pc = step
      /\ job'.inside = job.inside /\ job'.from = job.from /\ job'.target = job.target
      /\ job'.table = job.table
      /\ job'.savedRow = job.savedRow /\ job'.savedStore = job.savedStore
  <2>1. step \in Steps /\ GoTo(step)
    BY <1>5 DEF AddVersionWithTable, Steps
  <2> QED
    BY <1>3, <2>1, GoesTo
<1>7. /\ Placed(row, store)
      /\ \A v \in Listed(row) : row.physical[v] # job.target
      /\ job.target \notin DOMAIN store
  BY <1>2, <1>4 DEF CoreInv, PlacedInv, Placed
<1>8. PICK made \in Tables : made = [columns |-> Columns[job.target], docs |-> {}]
  BY <1>3, ColumnTypes DEF Tables
<1>9. /\ store' \in Stores /\ DOMAIN store' = DOMAIN store \union {job.target}
      /\ store'[job.target] = made
      /\ \A t \in DOMAIN store : store'[t] = store[t]
  <2>1. store' = [t \in DOMAIN store \union {job.target} |->
                    IF t \in DOMAIN store THEN store[t] ELSE made]
    BY <1>8 DEF AddVersionWithTable
  <2>2. DOMAIN store' \in SUBSET Versions /\ store' \in [DOMAIN store' -> Tables]
    BY <1>3, <2>1, TableTypes
  <2> QED
    BY <1>7, <2>1, <2>2, MapTypes DEF Stores
<1>10. CoreInv'
  <2>1. Placed(row, store)'
    BY <1>4, <1>7, <1>9 DEF Placed
  <2>2. PlacedInv'
    BY <1>2, <1>6, <2>1 DEF CoreInv, PlacedInv
  <2>3. PlainTypes' /\ CacheInv'
    BY <1>1, <1>2, <1>4, <1>6 DEF CoreInv, PlainTypes, CacheInv
  <2>4. JobInv'
    BY <1>3, <1>4, <1>6, <1>7 DEF JobInv
  <2> QED
    BY <2>2, <2>3, <2>4 DEF CoreInv
<1>11. ASSUME past' \intersect BeyondFitting = {} PROVE FitsInv'
  <2>1. FitsInv
    BY <1>1, <1>11, Promised
  <2>2. Fits(row, store)'
    BY <1>4, <1>7, <1>8, <1>9, <2>1 DEF FitsInv, Fits, Placed
  <2> QED
    BY <1>6, <2>1, <2>2 DEF FitsInv
<1>12. ASSUME past' \intersect BeyondReadable = {} PROVE AckedInv'
  <2>1. AckedInv
    BY <1>1, <1>12, Promised
  <2>2. step = "read"
    BY <1>1, <1>5, <1>12 DEF BeyondReadable
  <2>3. row'.physical[row'.active] = job.table /\ row.physical[row.active] = job.table
    BY <1>3, <1>4
  <2>4. store'[job.table] = store[job.table]
    BY <1>3, <1>9
  <2>5. Holds(row, store)'
    BY <1>1, <2>1, <2>3, <2>4 DEF AckedInv, Holds
  <2> QED
    BY <1>1, <1>6, <2>1, <2>2, <2>3, <2>5 DEF AckedInv, Holds
<1>13. ASSUME past' \intersect BeyondRetry = {} PROVE RetryInv'
  <2>1. RetryInv
    BY <1>1, <1>13, Promised
  <2>2. \A v \in Listed(row) : v <= row.active /\ v \in Nat
    BY <1>1, <1>3, <2>1, EntryTypes, VersionsAssumption DEF RetryInv, Topmost
  <2>3. row.active \in Nat /\ job.target = row.active + 1
    BY <1>3, VersionsAssumption
  <2>4. \A v \in Listed(new) : v <= job.target
    BY <1>4, <2>2, <2>3
  <2> QED
    BY <1>4, <1>6, <2>1, <2>4 DEF RetryInv, Topmost
<1> QED
  BY <1>10, <1>11, <1>12, <1>13 DEF MigrationInv

(* The copy.                                                               *)
LEMMA ReadsSource ==
  ASSUME MigrationInv, ReadSource
  PROVE  MigrationInv'
<1> SUFFICES ASSUME "inside" \notin past' PROVE MigrationInv'
  BY DEF MigrationInv
<1>1. UNCHANGED <<row, store, writing, acked, past>> /\ job.pc = "read"
  BY DEF ReadSource
<1>2. CoreInv
  BY <1>1, Promised
<1>3. /\ job \in Jobs /\ store \in Stores /\ View = row /\ job.from = row.active
      /\ job.table = row.physical[row.active] /\ job.table \in DOMAIN store
  BY <1>1, <1>2, UnderWay
<1>4. store[job.table].docs \in SUBSET Documents
  BY <1>3, TableTypes DEF Tables
<1>5. /\ job' \in Jobs /\ job'.pc = "insert" /\ job'.read = store[job.table].docs
      /\ job'.inside = job.inside /\ job'.from = job.from /\ job'.target = job.target
      /\ job'.table = job.table
      /\ job'.savedRow = job.savedRow /\ job'.savedStore = job.savedStore
  BY <1>3, <1>4 DEF ReadSource, Jobs, Steps
<1>6. cached' = IF job.inside THEN cached ELSE row
  BY <1>3 DEF ReadSource, Looked
<1>7. CoreInv'
  BY <1>1, <1>2, <1>5, <1>6 DEF CoreInv, PlainTypes, PlacedInv, CacheInv, JobInv
<1>8. past' \intersect BeyondFitting = {} => FitsInv'
  BY <1>1, <1>5, Promised DEF FitsInv
<1>9. past' \intersect BeyondReadable = {} => AckedInv'
  BY <1>1, <1>3, <1>5, Promised DEF AckedInv, Holds
<1>10. past' \intersect BeyondRetry = {} => RetryInv'
  BY <1>1, <1>5, Promised DEF RetryInv, Topmost
<1> QED
  BY <1>7, <1>8, <1>9, <1>10 DEF MigrationInv

(* The copy lands in the table of the new version, and in no other.        *)
LEMMA Inserts ==
  ASSUME MigrationInv, InsertTransformed
  PROVE  MigrationInv'
<1> SUFFICES ASSUME "inside" \notin past' PROVE MigrationInv'
  BY DEF MigrationInv
<1>1. UNCHANGED <<row, cached, writing, acked, past>> /\ job.pc = "insert"
  BY DEF InsertTransformed
<1>2. CoreInv
  BY <1>1, Promised
<1>3. /\ job \in Jobs /\ store \in Stores /\ row \in Entries
      /\ row.active \in Listed(row) /\ row.active # job.target
  BY <1>1, <1>2, UnderWay
<1>4. /\ Placed(row, store)
      /\ job.target \in Listed(row) /\ row.physical[job.target] = job.target
      /\ row.physical[row.active] # job.target /\ job.target \in DOMAIN store
      /\ row.physical[row.active] \in DOMAIN store
  BY <1>1, <1>2, <1>3 DEF CoreInv, PlacedInv, Placed, JobInv
<1>5. PICK t \in DOMAIN store, docs \in SUBSET Documents :
        /\ t = job.target /\ docs = job.read
        /\ store' = [store EXCEPT ![t].docs = @ \union docs]
  BY <1>3, <1>4 DEF InsertTransformed, Jobs
<1>6. /\ store' \in Stores /\ DOMAIN store' = DOMAIN store
      /\ \A u \in DOMAIN store : store'[u].columns = store[u].columns
      /\ \A u \in DOMAIN store : u # t => store'[u].docs = store[u].docs
      /\ store'[t].docs = store[t].docs \union docs
  BY <1>3, <1>5, DocsAdded
<1>7. /\ job' \in Jobs /\ job'.pc = "activate"
      /\ job'.inside = job.inside /\ job'.from = job.from /\ job'.target = job.target
      /\ job'.table = job.table
      /\ job'.savedRow = job.savedRow /\ job'.savedStore = job.savedStore
  BY <1>3, GoesTo DEF InsertTransformed, Steps
<1>8. CoreInv'
  <2>1. Placed(row, store)'
    BY <1>1, <1>4, <1>6 DEF Placed
  <2>2. PlacedInv' /\ PlainTypes' /\ CacheInv'
    BY <1>1, <1>2, <1>7, <2>1 DEF CoreInv, PlacedInv, PlainTypes, CacheInv
  <2>3. JobInv'
    BY <1>1, <1>2, <1>4, <1>7 DEF CoreInv, JobInv
  <2> QED
    BY <2>2, <2>3 DEF CoreInv
<1>9. ASSUME past' \intersect BeyondFitting = {} PROVE FitsInv'
  <2>1. FitsInv
    BY <1>1, <1>9, Promised
  <2>2. Fits(row, store)'
    BY <1>1, <1>4, <1>6, <2>1 DEF FitsInv, Fits, Placed
  <2> QED
    BY <1>7, <2>1, <2>2 DEF FitsInv
<1>10. ASSUME past' \intersect BeyondReadable = {} PROVE AckedInv'
  <2>1. AckedInv
    BY <1>1, <1>10, Promised
  <2>2. Holds(row, store)'
    BY <1>1, <1>4, <1>5, <1>6, <2>1 DEF AckedInv, Holds
  <2>3. acked' \subseteq store'[row'.physical[job'.target]].docs
    BY <1>1, <1>4, <1>5, <1>6, <1>7, <2>1 DEF AckedInv
  <2> QED
    BY <1>1, <1>7, <2>1, <2>2, <2>3 DEF AckedInv, Holds
<1>11. past' \intersect BeyondRetry = {} => RetryInv'
  BY <1>1, <1>7, Promised DEF RetryInv, Topmost
<1> QED
  BY <1>8, <1>9, <1>10, <1>11 DEF MigrationInv

(* The failed version goes with its table, which was its own.              *)
LEMMA Prunes ==
  ASSUME MigrationInv, PruneFailed
  PROVE  MigrationInv'
<1> SUFFICES ASSUME "inside" \notin past' PROVE MigrationInv'
  BY DEF MigrationInv
<1>1. UNCHANGED <<writing, acked, past>> /\ job.pc = "prune" /\ job' = Idle
  BY DEF PruneFailed
<1>2. CoreInv
  BY <1>1, Promised
<1>3. CASE job.inside
  BY <1>1, <1>3, Ends DEF PruneFailed, Fails
<1>4. CASE ~job.inside
  <2>1. /\ store \in Stores /\ row \in Entries /\ View = row
        /\ row.active \in Listed(row) /\ row.active # job.target
        /\ job.target \in Versions /\ job.target = row.active + 1
        /\ row.active \in Versions
    BY <1>1, <1>2, UnderWay
  <2>2. /\ Placed(row, store)
        /\ job.target \in Listed(row)
        /\ \A v \in Listed(row) : row.physical[v] = job.target <=> v = job.target
    BY <1>1, <1>2 DEF CoreInv, PlacedInv, JobInv
  <2>3. PICK new \in Entries :
          /\ row' = new /\ cached' = new /\ new.active = row.active
          /\ Listed(new) = Listed(row) \ {job.target}
          /\ \A v \in Listed(new) : new.physical[v] = row.physical[v]
    <3> DEFINE new == WithoutVersion(row, job.target)
    <3>1. row' = new /\ cached' = new
      BY <1>4, <2>1 DEF PruneFailed, Registered
    <3>2. /\ new \in Entries /\ new.active = row.active
          /\ Listed(new) = Listed(row) \ {job.target}
          /\ \A v \in Listed(row) \ {job.target} : new.physical[v] = row.physical[v]
      BY <2>1, RemovedVersion
    <3> HIDE DEF new
    <3> QED
      BY <3>1, <3>2 DEF new
  <2>4. /\ store' \in Stores /\ DOMAIN store' = DOMAIN store \ {job.target}
        /\ \A t \in DOMAIN store' : store'[t] = store[t]
    <3>1. store' = [t \in DOMAIN store \ {job.target} |-> store[t]]
      BY <1>4, <2>1, <2>2 DEF PruneFailed
    <3>2. DOMAIN store' \in SUBSET Versions /\ store' \in [DOMAIN store' -> Tables]
      BY <2>1, <3>1, TableTypes
    <3> QED
      BY <3>1, <3>2, MapTypes DEF Stores
  <2>5. \A v \in Listed(new) : new.physical[v] \in DOMAIN store'
    BY <2>2, <2>3, <2>4 DEF Placed
  <2>6. CoreInv'
    <3>1. Placed(row, store)'
      BY <2>1, <2>2, <2>3, <2>4, <2>5 DEF Placed
    <3>2. PlacedInv' /\ PlainTypes' /\ CacheInv' /\ JobInv'
      BY <1>1, <1>2, <2>3, <3>1, IdleTypes
      DEF CoreInv, PlacedInv, PlainTypes, CacheInv, JobInv
    <3> QED
      BY <3>2 DEF CoreInv
  <2>7. ASSUME past' \intersect BeyondFitting = {} PROVE FitsInv'
    <3>1. FitsInv
      BY <1>1, <2>7, Promised
    <3>2. Fits(row, store)'
      BY <2>3, <2>4, <2>5, <3>1 DEF FitsInv, Fits
    <3> QED
      BY <1>1, <3>2, IdleTypes DEF FitsInv
  <2>8. ASSUME past' \intersect BeyondReadable = {} PROVE AckedInv'
    <3>1. AckedInv
      BY <1>1, <2>8, Promised
    <3>2. Holds(row, store)'
      BY <1>1, <2>1, <2>3, <2>4, <2>5, <3>1 DEF AckedInv, Holds
    <3> QED
      BY <1>1, <3>1, <3>2, IdleTypes DEF AckedInv
  <2>9. ASSUME past' \intersect BeyondRetry = {} PROVE RetryInv'
    <3>1. RetryInv
      BY <1>1, <2>9, Promised
    <3>2. \A v \in Listed(row) : v <= job.target /\ v \in Nat
      BY <1>1, <2>1, <3>1, EntryTypes, VersionsAssumption DEF RetryInv, Topmost
    <3>3. row.active \in Nat
      BY <2>1, VersionsAssumption
    <3>4. \A v \in Listed(new) : v <= new.active
      BY <2>1, <2>3, <3>2, <3>3
    <3> QED
      BY <1>1, <2>3, <3>4, IdleTypes DEF RetryInv, Topmost
  <2> QED
    BY <2>6, <2>7, <2>8, <2>9 DEF MigrationInv
<1> QED
  BY <1>3, <1>4

(* The new version becomes the active one, and the migration is over.      *)
LEMMA Activates ==
  ASSUME MigrationInv, SetActiveVersion
  PROVE  MigrationInv'
<1> SUFFICES ASSUME "inside" \notin past' PROVE MigrationInv'
  BY DEF MigrationInv
<1>1. /\ UNCHANGED <<store, writing, acked>> /\ job.pc = "activate" /\ job' = Idle
      /\ past \subseteq past' /\ ~job.inside
  BY DEF SetActiveVersion, Succeeds, Happened
<1>2. CoreInv
  BY <1>1, Promised
<1>3. row \in Entries /\ View = row /\ job.target \in Versions /\ job.target \in Listed(row)
  BY <1>1, <1>2, UnderWay DEF CoreInv, JobInv
<1>4. PICK new \in Entries :
        /\ row' = new /\ cached' = new
        /\ new.active = job.target /\ new.physical = row.physical
  <2>1. row' = [row EXCEPT !.active = job.target] /\ cached' = row'
    BY <1>1, <1>3 DEF SetActiveVersion, Registered
  <2> QED
    BY <1>3, <2>1, ActivatedVersion
<1>5. CoreInv'
  <2>1. Placed(row, store)
    BY <1>2 DEF CoreInv, PlacedInv
  <2>2. Placed(new, store)
    BY <1>3, <1>4, <2>1 DEF Placed, Listed
  <2>3. PlacedInv' /\ PlainTypes' /\ CacheInv' /\ JobInv'
    BY <1>1, <1>2, <1>4, <2>2, IdleTypes
    DEF CoreInv, PlacedInv, PlainTypes, CacheInv, JobInv
  <2> QED
    BY <2>3 DEF CoreInv
<1>6. past' \intersect BeyondFitting = {} => FitsInv'
  BY <1>1, <1>4, Promised, IdleTypes DEF FitsInv, Fits, Listed
<1>7. past' \intersect BeyondReadable = {} => AckedInv'
  BY <1>1, <1>4, Promised, IdleTypes DEF AckedInv, Holds
<1>8. past' \intersect BeyondRetry = {} => RetryInv'
  BY <1>1, <1>4, Promised, IdleTypes DEF RetryInv, Topmost, Listed
<1> QED
  BY <1>5, <1>6, <1>7, <1>8 DEF MigrationInv

LEMMA MigrationStep == MigrationInv /\ [MigrationNext]_migrationVars => MigrationInv'
<1> SUFFICES ASSUME MigrationInv, [MigrationNext]_migrationVars PROVE MigrationInv'
  OBVIOUS
<1>1. CASE \E inside, transformer \in BOOLEAN, phase \in Phases \union {""} :
             Migrate(inside, phase, transformer)
  BY <1>1, MigrationStarts
<1>2. CASE \E change \in job.todo : ApplyChange(change)
  BY <1>2, ChangeApplies
<1>3. CASE ChangeFails \/ CopyFails
  BY <1>3, MigrationEnds, MigrationTurns
<1>4. CASE AddVersionInPlace
  BY <1>4, AddsInPlace
<1>5. CASE AddVersionWithTable
  BY <1>5, AddsWithTable
<1>6. CASE ReadSource
  BY <1>6, ReadsSource
<1>7. CASE InsertTransformed
  BY <1>7, Inserts
<1>8. CASE PruneFailed
  BY <1>8, Prunes
<1>9. CASE SetActiveVersion
  BY <1>9, Activates
<1>10. CASE \/ AddVersionFails \/ PruneFails \/ SetActiveVersionFails
            \/ TransactionRollsBack \/ Crash
  BY <1>10, MigrationEnds
<1>11. CASE \E v \in Versions : Rollback(v)
  BY <1>11, RollsBack
<1>12. CASE \E w \in Writers, d \in Documents : StartWrite(w, d)
  BY <1>12, WriteStarts
<1>13. CASE \E w \in Writers : FinishWrite(w) \/ WriteFails(w)
  BY <1>13, WriteFinishes, WriteEnds
<1>14. CASE UNCHANGED migrationVars
  <2> USE <1>14 DEF migrationVars
  <2>1. Placed(row, store)' <=> Placed(row, store)
    BY DEF Placed, Listed
  <2>2. Placed(job.savedRow, job.savedStore)' <=> Placed(job.savedRow, job.savedStore)
    BY DEF Placed, Listed
  <2>3. CoreInv' <=> CoreInv
    BY <2>1, <2>2 DEF CoreInv, PlainTypes, PlacedInv, CacheInv, JobInv
  <2>4. FitsInv' <=> FitsInv
    BY DEF FitsInv, Fits, Listed
  <2>5. AckedInv' <=> AckedInv
    BY DEF AckedInv, Holds
  <2>6. RetryInv' <=> RetryInv
    BY DEF RetryInv, Topmost, Listed
  <2> QED
    BY <2>3, <2>4, <2>5, <2>6 DEF MigrationInv
<1> QED
  BY <1>1, <1>2, <1>3, <1>4, <1>5, <1>6, <1>7, <1>8, <1>9, <1>10, <1>11, <1>12, <1>13,
     <1>14
  DEF MigrationNext

LEMMA MigrationInvariant == MigrationSpec => []MigrationInv
<1> QED
  BY MigrationInitially, MigrationStep, PTL DEF MigrationSpec

----------------------------------------------------------------------------
(* What the statements of the next migration start from.                   *)

Exact(e, tables) == tables[e.physical[e.active]].columns = Columns[e.active]

(* Between two statements a column is in the table if it was not to be     *)
(* added yet, and still is if it has yet to be dropped.                    *)
Halfway ==
  /\ job.todo \subseteq Diff(job.from, job.target)
  /\ \A c \in Column :
       c \in store[job.table].columns
         <=> \/ <<"drop", c>> \in job.todo
             \/ c \in Columns[job.target] /\ <<"add", c>> \notin job.todo

ExactTables ==
  /\ job.inside => Exact(job.savedRow, job.savedStore)
  /\ ~job.inside =>
       /\ job.pc \in {"idle", "register copy", "read", "insert", "prune"} => Exact(row, store)
       /\ job.pc = "alter" => Halfway
       /\ job.pc \in {"read", "insert", "prune", "activate"} =>
            store[row.physical[job.target]].columns = Columns[job.target]

BeyondExact == BeyondRetry \union {"altered in part"}
ExactInv == past \intersect BeyondExact = {} => ExactTables

LEMMA ExactInitially == MigrationInit => ExactInv
<1> SUFFICES ASSUME MigrationInit PROVE ExactTables
  BY DEF ExactInv
<1>1. row.active = 1 /\ row.physical[1] = 1 /\ store[1].columns = Columns[1]
  BY DEF MigrationInit
<1>2. job.pc = "idle" /\ job.inside = FALSE
  BY IdleTypes DEF MigrationInit
<1> QED
  BY <1>1, <1>2 DEF ExactTables, Exact

(* The statements from one version to another, column by column.           *)
LEMMA DiffSays ==
  ASSUME NEW v, NEW w, NEW c
  PROVE  /\ <<"drop", c>> \in Diff(v, w) <=> c \in Columns[v] \ Columns[w]
         /\ <<"add", c>> \in Diff(v, w) <=> c \in Columns[w] \ Columns[v]
BY DEF Diff

(* Before its first statement, and after its last, the table is that of a  *)
(* version.                                                                *)
LEMMA HalfwayEnds ==
  ASSUME CoreInv, job.pc = "alter", Halfway
  PROVE  /\ job.todo = Diff(job.from, job.target) => Exact(row, store)
         /\ job.todo = {} => store[job.table].columns = Columns[job.target]
<1>1. /\ job \in Jobs /\ store \in Stores /\ job.from = row.active
      /\ job.target \in Versions /\ row.active \in Versions
      /\ job.table = row.physical[row.active] /\ job.table \in DOMAIN store
  BY UnderWay
<1>2. /\ store[job.table].columns \in SUBSET Column
      /\ Columns[job.target] \in SUBSET Column /\ Columns[row.active] \in SUBSET Column
  BY <1>1, TableTypes, ColumnTypes DEF Tables
<1>3. ASSUME job.todo = Diff(job.from, job.target), NEW c \in Column
      PROVE  c \in store[job.table].columns <=> c \in Columns[row.active]
  <2>1. /\ <<"drop", c>> \in job.todo <=> c \in Columns[row.active] \ Columns[job.target]
        /\ <<"add", c>> \in job.todo <=> c \in Columns[job.target] \ Columns[row.active]
    <3>1. job.todo = Diff(row.active, job.target)
      BY <1>1, <1>3
    <3>2. /\ <<"drop", c>> \in Diff(row.active, job.target)
               <=> c \in Columns[row.active] \ Columns[job.target]
          /\ <<"add", c>> \in Diff(row.active, job.target)
               <=> c \in Columns[job.target] \ Columns[row.active]
      BY DiffSays
    <3> QED
      BY <3>1, <3>2
  <2>2. c \in store[job.table].columns
          <=> \/ <<"drop", c>> \in job.todo
              \/ c \in Columns[job.target] /\ <<"add", c>> \notin job.todo
    BY DEF Halfway
  <2> QED
    BY <2>1, <2>2
<1>4. ASSUME job.todo = {}, NEW c \in Column
      PROVE  c \in store[job.table].columns <=> c \in Columns[job.target]
  BY <1>4 DEF Halfway
<1>5. job.todo = Diff(job.from, job.target) => Exact(row, store)
  <2> SUFFICES ASSUME job.todo = Diff(job.from, job.target)
               PROVE  store[job.table].columns = Columns[row.active]
    BY <1>1 DEF Exact
  <2> QED
    BY <1>2, <1>3
<1>6. job.todo = {} => store[job.table].columns = Columns[job.target]
  BY <1>2, <1>4
<1> QED
  BY <1>5, <1>6

(* What a migration in place starts from.                                  *)
LEMMA HalfwayBegins ==
  ASSUME CoreInv, Exact(row, store), UNCHANGED <<row, store>>,
         job'.from = row.active, job'.target \in Versions,
         job'.table = row.physical[row.active],
         job'.todo = Diff(row.active, job'.target)
  PROVE  Halfway'
<1>1. row.active \in Versions /\ store[job'.table].columns = Columns[row.active]
  BY EntryTypes DEF Exact, CoreInv, PlacedInv, Placed
<1>2. ASSUME NEW c \in Column
      PROVE  c \in store[job'.table].columns
               <=> \/ <<"drop", c>> \in job'.todo
                   \/ c \in Columns[job'.target] /\ <<"add", c>> \notin job'.todo
  <2>1. /\ <<"drop", c>> \in job'.todo <=> c \in Columns[row.active] \ Columns[job'.target]
        /\ <<"add", c>> \in job'.todo <=> c \in Columns[job'.target] \ Columns[row.active]
    BY DiffSays
  <2> QED
    BY <1>1, <2>1
<1>3. job'.todo \subseteq Diff(job'.from, job'.target)
  OBVIOUS
<1> QED
  BY <1>2, <1>3 DEF Halfway, Diff

LEMMA ExactStep ==
  ASSUME MigrationInv, ExactInv, [MigrationNext]_migrationVars
  PROVE  ExactInv'
<1> SUFFICES ASSUME past' \intersect BeyondExact = {} PROVE ExactTables'
  BY DEF ExactInv
<1> USE DEF ExactTables
(* A step that keeps the history keeps what it promises.                   *)
<1>1. ASSUME past \subseteq past'
      PROVE  CoreInv /\ ExactTables /\ "inside" \notin past'
  BY <1>1 DEF ExactInv, BeyondExact, BeyondRetry, MigrationInv
(* A step that leaves tables and versions where they are.                  *)
<1>2. ASSUME past \subseteq past', UNCHANGED <<row, store>>,
             job'.inside = job.inside, job'.savedRow = job.savedRow,
             job'.savedStore = job.savedStore, job'.target = job.target,
             \/ job' = job
             \/ job.pc = "read" /\ job'.pc = "insert"
             \/ job.pc \in {"read", "insert"} /\ job'.pc = "prune"
      PROVE  ExactTables'
  <2>1. CASE job' = job
    <3>1. Halfway' <=> Halfway
      BY <1>2, <2>1 DEF Halfway, Diff
    <3> QED
      BY <1>1, <1>2, <2>1, <3>1 DEF Exact
  <2>2. CASE job.pc \in {"read", "insert"} /\ job'.pc \in {"insert", "prune"}
    BY <1>1, <1>2, <2>2 DEF Exact
  <2> QED
    BY <1>2, <2>1, <2>2
(* The end of a migration inside a transaction.                            *)
<1>3. ASSUME past \subseteq past', Fails, job.inside PROVE ExactTables'
  BY <1>1, <1>3, IdleTypes DEF Fails, Exact
<1>4. ASSUME NEW inside \in BOOLEAN, NEW transformer \in BOOLEAN,
             NEW phase \in Phases \union {""}, Migrate(inside, phase, transformer)
      PROVE  ExactTables'
  <2>1. past \subseteq past' /\ UNCHANGED <<row, store>>
    BY <1>4 DEF Migrate
  <2>2. CoreInv /\ ExactTables
    BY <1>1, <2>1
  <2>3. /\ job = Idle /\ job' \in Jobs
        /\ job'.pc \in {"register copy", "alter"} /\ job'.inside = inside
        /\ job'.from = row.active /\ job'.target = row.active + 1
        /\ job'.table = row.physical[row.active]
        /\ job'.todo = Diff(row.active, row.active + 1)
        /\ inside => job'.savedRow = row /\ job'.savedStore = store
    BY <1>4, <2>2, MigrationJob
  <2>4. Exact(row, store)
    BY <2>2, <2>3, IdleTypes
  <2>5. row.active + 1 \in Versions
    BY <1>4, <2>2, ViewIsRow DEF Migrate
  <2>6. Halfway'
    BY <2>1, <2>2, <2>3, <2>4, <2>5, HalfwayBegins
  <2> QED
    BY <2>1, <2>3, <2>4, <2>6 DEF Exact
<1>5. ASSUME NEW change \in job.todo, ApplyChange(change) PROVE ExactTables'
  <2>1. past \subseteq past' /\ UNCHANGED row /\ job.pc = "alter" /\ Applicable(change)
    BY <1>5 DEF ApplyChange
  <2>2. CoreInv /\ ExactTables
    BY <1>1, <2>1
  <2>3. /\ change \in Changes
        /\ store'[job.table].columns = Applied(change, store[job.table].columns)
        /\ job'.todo = job.todo \ {change}
        /\ job'.pc = job.pc /\ job'.inside = job.inside
        /\ job'.target = job.target /\ job'.table = job.table
        /\ job'.savedRow = job.savedRow /\ job'.savedStore = job.savedStore
    BY <1>5, <2>2, ChangeApplied
  <2>4. job \in Jobs /\ job'.from = job.from
    BY <1>5, <2>1, <2>2, ChangeApplied, UnderWay
  <2>5. ASSUME Halfway PROVE Halfway'
    <3> DEFINE cols == store[job.table].columns
               rest == job.todo \ {change}
    <3>1. change \in Diff(job.from, job.target)
      BY <2>5 DEF Halfway
    <3>2. PICK what, x : change = <<what, x>> /\ what \in {"add", "drop"}
      BY <2>1, <2>3 DEF Changes, Applicable
    <3>3. ASSUME NEW c \in Column
          PROVE  c \in store'[job.table].columns
                   <=> \/ <<"drop", c>> \in rest
                       \/ c \in Columns[job.target] /\ <<"add", c>> \notin rest
      <4>1. c \in cols
              <=> \/ <<"drop", c>> \in job.todo
                  \/ c \in Columns[job.target] /\ <<"add", c>> \notin job.todo
        BY <2>5 DEF Halfway
      <4>2. CASE what = "add"
        <5>1. store'[job.table].columns = cols \union {x} /\ x \in Columns[job.target]
          <6>1. <<"add", x>> \in Diff(job.from, job.target)
            BY <3>1, <3>2, <4>2
          <6>2. x \in Columns[job.target]
            BY <6>1, DiffSays
          <6>3. Applied(change, cols) = cols \union {x}
            BY <3>2, <4>2 DEF Applied
          <6> QED
            BY <2>3, <6>2, <6>3
        <5>2. /\ <<"drop", c>> \in rest <=> <<"drop", c>> \in job.todo
              /\ <<"add", c>> \in rest <=> <<"add", c>> \in job.todo /\ c # x
          BY <3>2, <4>2
        <5> QED
          BY <4>1, <5>1, <5>2
      <4>3. CASE what = "drop"
        <5>1. store'[job.table].columns = cols \ {x} /\ x \notin Columns[job.target]
          <6>1. <<"drop", x>> \in Diff(job.from, job.target)
            BY <3>1, <3>2, <4>3
          <6>2. x \notin Columns[job.target]
            BY <6>1, DiffSays
          <6>3. Applied(change, cols) = cols \ {x}
            BY <3>2, <4>3 DEF Applied
          <6> QED
            BY <2>3, <6>2, <6>3
        <5>2. /\ <<"drop", c>> \in rest <=> <<"drop", c>> \in job.todo /\ c # x
              /\ <<"add", c>> \in rest <=> <<"add", c>> \in job.todo
          BY <3>2, <4>3
        <5> QED
          BY <4>1, <5>1, <5>2
      <4> QED
        BY <3>2, <4>2, <4>3
    <3>4. rest \subseteq Diff(job.from, job.target)
      BY <2>5 DEF Halfway
    <3> QED
      BY <2>3, <2>4, <3>3, <3>4 DEF Halfway, Diff
  <2> QED
    BY <2>1, <2>2, <2>3, <2>5 DEF Exact
(* A statement fails, or the version is not registered.                    *)
<1>6. ASSUME ChangeFails \/ AddVersionFails PROVE ExactTables'
  <2>1. /\ past \subseteq past' /\ job.pc \in {"alter", "register copy"}
        /\ AlteredInPart => "altered in part" \in past'
        /\ Fails \/ (job.pc = "alter" /\ GoTo("register copy") /\ UNCHANGED <<row, store>>)
    BY <1>6 DEF ChangeFails, AddVersionFails, Happened
  <2>2. CoreInv /\ ExactTables
    BY <1>1, <2>1
  <2>3. ASSUME ~job.inside PROVE Exact(row, store)
    <3>1. job.pc = "alter" => job.todo = Diff(job.from, job.target)
      BY <2>1, <2>3 DEF AlteredInPart, BeyondExact
    <3> QED
      BY <2>1, <2>2, <2>3, <3>1, HalfwayEnds
  <2>4. CASE Fails
    <3>1. CASE job.inside
      BY <1>3, <2>1, <2>4, <3>1
    <3>2. CASE ~job.inside
      BY <2>3, <2>4, <3>2, IdleTypes DEF Fails, Exact
    <3> QED
      BY <3>1, <3>2
  <2>5. CASE GoTo("register copy") /\ UNCHANGED <<row, store>>
    <3>1. /\ job'.pc = "register copy" /\ job'.inside = job.inside
          /\ job'.savedRow = job.savedRow /\ job'.savedStore = job.savedStore
      BY <2>1, <2>2, <2>5, UnderWay, GoesTo DEF Steps
    <3> QED
      BY <2>2, <2>3, <2>5, <3>1 DEF Exact
  <2> QED
    BY <2>1, <2>4, <2>5
<1>7. ASSUME AddVersionInPlace PROVE ExactTables'
  <2>1. /\ UNCHANGED <<store, past>> /\ job.pc = "alter" /\ job.todo = {}
    BY <1>7 DEF AddVersionInPlace
  <2>2. CoreInv /\ ExactTables
    BY <1>1, <2>1
  <2>3. /\ row \in Entries /\ View = row /\ job.target \in Versions
        /\ job.table \in Versions /\ job \in Jobs
    BY <2>1, <2>2, UnderWay
  <2>4. row'.physical[job.target] = job.table
    BY <1>7, <2>3, AddedVersion DEF AddVersionInPlace, Registered
  <2>5. /\ job'.pc = "activate" /\ job'.inside = job.inside /\ job'.target = job.target
        /\ job'.savedRow = job.savedRow /\ job'.savedStore = job.savedStore
    BY <1>7, <2>3, GoesTo DEF AddVersionInPlace, Steps
  <2> QED
    BY <2>1, <2>2, <2>4, <2>5, HalfwayEnds DEF Exact
<1>8. ASSUME AddVersionWithTable PROVE ExactTables'
  <2>1. past \subseteq past' /\ job.pc = "register copy"
    BY <1>8 DEF AddVersionWithTable
  <2>2. CoreInv /\ ExactTables
    BY <1>1, <2>1
  <2>3. /\ row \in Entries /\ View = row /\ job.target \in Versions /\ job \in Jobs
        /\ row.active \in Listed(row) /\ row.active # job.target
        /\ job.target \notin Listed(row)
    BY <1>8, <2>1, <2>2, UnderWay DEF AddVersionWithTable
  <2>4. /\ row'.physical[job.target] = job.target /\ row'.active = row.active
        /\ row'.physical[row.active] = row.physical[row.active]
    <3>1. row' = WithVersion(row, job.target, job.target)
      BY <1>8, <2>3 DEF AddVersionWithTable, Registered
    <3> QED
      BY <2>3, <3>1, AddedVersion
  <2>5. row.physical[row.active] \in DOMAIN store /\ job.target \notin DOMAIN store
    BY <2>2, <2>3 DEF CoreInv, PlacedInv, Placed
  <2>6. /\ store'[job.target].columns = Columns[job.target]
        /\ store'[row.physical[row.active]] = store[row.physical[row.active]]
    BY <1>8, <2>5 DEF AddVersionWithTable
  <2>7. /\ job'.pc \in {"read", "activate"} /\ job'.inside = job.inside
        /\ job'.target = job.target
        /\ job'.savedRow = job.savedRow /\ job'.savedStore = job.savedStore
    BY <1>8, <2>3 DEF AddVersionWithTable, GoTo, Jobs
  <2> QED
    BY <2>1, <2>2, <2>4, <2>6, <2>7 DEF Exact
<1>9. ASSUME ReadSource \/ CopyFails PROVE ExactTables'
  <2>1. /\ UNCHANGED <<row, store, past>> /\ job.pc \in {"read", "insert"}
    BY <1>9 DEF ReadSource, CopyFails
  <2>2. job \in Jobs
    BY <1>1, <2>1, UnderWay
  <2>3. /\ job'.inside = job.inside /\ job'.target = job.target
        /\ job'.savedRow = job.savedRow /\ job'.savedStore = job.savedStore
        /\ (job.pc = "read" /\ job'.pc = "insert") \/ job'.pc = "prune"
    BY <1>9, <2>2 DEF ReadSource, CopyFails, GoTo, Jobs
  <2> QED
    BY <1>2, <2>1, <2>3
<1>10. ASSUME InsertTransformed PROVE ExactTables'
  <2>1. /\ UNCHANGED <<row, past>> /\ job.pc = "insert"
    BY <1>10 DEF InsertTransformed
  <2>2. CoreInv /\ ExactTables
    BY <1>1, <2>1
  <2>3. job \in Jobs /\ store \in Stores
    BY <2>1, <2>2, UnderWay
  <2>4. /\ Placed(row, store) /\ job.target \in Listed(row)
        /\ row.physical[job.target] = job.target
        /\ row.physical[job.target] \in DOMAIN store
        /\ row.physical[row.active] \in DOMAIN store
    BY <2>1, <2>2 DEF CoreInv, PlacedInv, Placed, JobInv
  <2>5. PICK t \in DOMAIN store, docs \in SUBSET Documents :
          t = job.target /\ store' = [store EXCEPT ![t].docs = @ \union docs]
    BY <1>10, <2>3, <2>4 DEF InsertTransformed, Jobs
  <2>6. \A u \in DOMAIN store : store'[u].columns = store[u].columns
    BY <2>3, <2>5, DocsAdded
  <2>7. /\ job'.pc = "activate" /\ job'.inside = job.inside /\ job'.target = job.target
        /\ job'.savedRow = job.savedRow /\ job'.savedStore = job.savedStore
    BY <1>10, <2>3, GoesTo DEF InsertTransformed, Steps
  <2> QED
    BY <2>1, <2>2, <2>4, <2>6, <2>7 DEF Exact
<1>11. ASSUME PruneFailed PROVE ExactTables'
  <2>1. UNCHANGED past /\ job.pc = "prune" /\ job' = Idle
    BY <1>11 DEF PruneFailed
  <2>2. CASE job.inside
    BY <1>3, <1>11, <2>1, <2>2 DEF PruneFailed, Fails
  <2>3. CASE ~job.inside
    <3>1. CoreInv /\ ExactTables
      BY <1>1, <2>1
    <3>2. /\ row \in Entries /\ View = row /\ job.target \in Versions
          /\ row.active \in Listed(row) /\ row.active # job.target
      BY <2>1, <3>1, UnderWay
    <3>3. /\ row'.active = row.active
          /\ row'.physical[row.active] = row.physical[row.active]
      BY <1>11, <2>3, <3>2, RemovedVersion DEF PruneFailed, Registered
    <3>4. /\ row.physical[row.active] \in DOMAIN store \ {row.physical[job.target]}
      BY <2>1, <3>1, <3>2 DEF CoreInv, PlacedInv, Placed, JobInv
    <3>5. store'[row.physical[row.active]] = store[row.physical[row.active]]
      BY <1>11, <2>3, <3>2, <3>4 DEF PruneFailed
    <3> QED
      BY <2>1, <2>3, <3>1, <3>3, <3>5, IdleTypes DEF Exact
  <2> QED
    BY <2>2, <2>3
<1>12. ASSUME SetActiveVersion PROVE ExactTables'
  <2>1. /\ past \subseteq past' /\ ~job.inside /\ UNCHANGED store /\ job' = Idle
        /\ job.pc = "activate"
    BY <1>12 DEF SetActiveVersion, Succeeds, Happened, BeyondExact, BeyondRetry
  <2>2. CoreInv /\ ExactTables
    BY <1>1, <2>1
  <2>3. row \in Entries /\ View = row /\ job.target \in Versions
    BY <2>1, <2>2, UnderWay
  <2>4. row'.active = job.target /\ row'.physical = row.physical
    BY <1>12, <2>3, ActivatedVersion DEF SetActiveVersion, Registered
  <2> QED
    BY <2>1, <2>2, <2>4, IdleTypes DEF Exact
<1>13. ASSUME PruneFails \/ SetActiveVersionFails \/ Crash \/ \E v \in Versions : Rollback(v)
       PROVE  ExactTables'
  BY <1>13 DEF PruneFails, SetActiveVersionFails, Crash, Rollback, BeyondExact, BeyondRetry
<1>14. ASSUME TransactionRollsBack PROVE ExactTables'
  BY <1>3, <1>14 DEF TransactionRollsBack
<1>15. ASSUME \/ \E w \in Writers, d \in Documents : StartWrite(w, d)
              \/ \E w \in Writers : WriteFails(w)
              \/ UNCHANGED migrationVars
       PROVE  ExactTables'
  <2>1. past \subseteq past' /\ UNCHANGED <<row, store, job>>
    BY <1>15 DEF StartWrite, WriteFails, migrationVars
  <2> QED
    BY <1>2, <2>1
<1>16. ASSUME NEW w \in Writers, FinishWrite(w) PROVE ExactTables'
  <2>1. UNCHANGED <<row, job, past>>
    BY <1>16 DEF FinishWrite
  <2>2. CoreInv /\ ExactTables
    BY <1>1, <2>1
  <2>3. PICK t \in DOMAIN store, docs \in SUBSET Documents :
          store' = [store EXCEPT ![t].docs = @ \union docs]
    <3>1. writing[w] \in WritesUnderWay
      BY <1>16, <2>2 DEF FinishWrite, CoreInv, PlainTypes
    <3>2. {writing[w].doc} \in SUBSET Documents
      BY <3>1 DEF WritesUnderWay
    <3> QED
      BY <1>16, <3>2 DEF FinishWrite
  <2>4. /\ store \in Stores /\ row.physical[row.active] \in DOMAIN store
        /\ job.pc # "idle" => job.table \in DOMAIN store
        /\ \A v \in Listed(row) : row.physical[v] \in DOMAIN store
        /\ job.pc \in {"read", "insert", "prune", "activate"} => job.target \in Listed(row)
    BY <2>2 DEF CoreInv, PlacedInv, Placed, JobInv
  <2>5. \A u \in DOMAIN store : store'[u].columns = store[u].columns
    BY <2>3, <2>4, DocsAdded
  <2>6. job.pc = "alter" /\ Halfway => Halfway'
    BY <2>1, <2>4, <2>5 DEF Halfway, Diff
  <2> QED
    BY <2>1, <2>2, <2>4, <2>5, <2>6 DEF Exact
<1> QED
  BY <1>4, <1>5, <1>6, <1>7, <1>8, <1>9, <1>10, <1>11, <1>12, <1>13, <1>14, <1>15, <1>16
  DEF MigrationNext

LEMMA ExactInvariant == MigrationSpec => []ExactInv
<1> QED
  BY MigrationInvariant, ExactInitially, ExactStep, PTL DEF MigrationSpec

----------------------------------------------------------------------------
(* What a migration promises.                                              *)

(* However a migration fails (a statement, the copy, the activation, a     *)
(* rollback of the transaction, a crash), the active version has a table   *)
(* with its columns.                                                       *)
THEOREM FitsTheorem == MigrationSpec => []ActiveSchemaFits
<1>1. MigrationInv => ActiveSchemaFits
  <2> SUFFICES ASSUME MigrationInv, past \intersect BeyondFitting = {}
               PROVE  /\ row.physical[row.active] \in DOMAIN store
                      /\ Columns[row.active] \subseteq store[row.physical[row.active]].columns
    BY DEF ActiveSchemaFits
  <2>1. CoreInv /\ FitsInv
    BY DEF MigrationInv, BeyondFitting
  <2> QED
    BY <2>1 DEF CoreInv, PlacedInv, Placed, FitsInv, Fits
<1> QED
  BY <1>1, MigrationInvariant, PTL

(* However migrations and writes fail or crash, a document whose write was *)
(* acknowledged is in the table of the active version.                     *)
THEOREM ReadableTheorem == MigrationSpec => []AckedReadable
<1>1. MigrationInv => AckedReadable
  BY DEF MigrationInv, AckedReadable, BeyondReadable, AckedInv, Holds
<1> QED
  BY <1>1, MigrationInvariant, PTL

(* After a migration that failed the next one finds what the first found:  *)
(* no version above the active one, no table without a version, and, where *)
(* no statement had been executed, the columns the statements start from.  *)
THEOREM RetryTheorem == MigrationSpec => []RetryPossible
<1>1. MigrationInv /\ ExactInv => RetryPossible
  <2> SUFFICES ASSUME MigrationInv, ExactInv, job = Idle, past \intersect BeyondRetry = {}
               PROVE  /\ \A v \in Listed(row) : v <= row.active
                      /\ DOMAIN store = {row.physical[v] : v \in Listed(row)}
                      /\ \/ "altered in part" \in past
                         \/ store[row.physical[row.active]].columns = Columns[row.active]
    BY DEF RetryPossible
  <2>1. Placed(row, store) /\ RetryInv /\ job.pc = "idle" /\ ~job.inside
    BY IdleTypes DEF MigrationInv, BeyondRetry, CoreInv, PlacedInv
  <2>2. "altered in part" \in past \/ Exact(row, store)
    BY <2>1 DEF ExactInv, ExactTables, BeyondExact
  <2> QED
    BY <2>1, <2>2 DEF Placed, RetryInv, Topmost, Exact
<1> QED
  BY <1>1, MigrationInvariant, ExactInvariant, PTL

----------------------------------------------------------------------------
(* What operations say, and what a diff of two schemas says.               *)

Says(ops, kind, path, v) ==
  \/ kind = "add" /\ path \in DOMAIN ops.add /\ v = ops.add[path]
  \/ kind = "remove" /\ path \in ops.remove /\ v = ""
  \/ kind = "set" /\ path \in DOMAIN ops.set /\ v = ops.set[path]

(* The collection x becomes y.                                             *)
Step(within, of, x, y, kind, path, v) ==
  \/ kind = "add" /\ \E id \in DOMAIN y \ DOMAIN x :
       path = EvolutionPath(within, id, of, "") /\ v = y[id]
  \/ kind = "remove" /\ v = "" /\ \E id \in DOMAIN x \ DOMAIN y :
       path = EvolutionPath(within, id, of, "")
  \/ kind = "set" /\ \E id \in DOMAIN x \intersect DOMAIN y : \E p \in Changed(of, x[id], y[id]) :
       path = EvolutionPath(within, id, of, p) /\ v = PropertyOf(y[id], p)

LEMMA PathIs ==
  ASSUME NEW w, NEW i, NEW o, NEW p
  PROVE  /\ EvolutionPath(w, i, o, p).within = w /\ EvolutionPath(w, i, o, p).id = i
         /\ EvolutionPath(w, i, o, p).of = o /\ EvolutionPath(w, i, o, p).prop = p
BY DEF EvolutionPath

LEMMA StepPath ==
  ASSUME NEW within, NEW of, NEW x, NEW y, NEW kind, NEW path, NEW v,
         Step(within, of, x, y, kind, path, v)
  PROVE  /\ path = EvolutionPath(within, path.id, of, path.prop)
         /\ path.within = within /\ path.of = of
<1>1. PICK id, p : path = EvolutionPath(within, id, of, p)
  BY Zenon DEF Step
<1> QED
  BY <1>1, PathIs

LEMMA StepValue ==
  ASSUME NEW within, NEW of, NEW x, NEW y, NEW kind, NEW path, NEW v,
         Step(within, of, x, y, kind, path, v)
  PROVE  v = CASE kind = "add" -> y[path.id]
               [] kind = "remove" -> ""
               [] OTHER -> PropertyOf(y[path.id], path.prop)
<1>1. CASE kind = "add"
  <2>1. PICK id : path = EvolutionPath(within, id, of, "") /\ v = y[id]
    BY <1>1 DEF Step
  <2> QED
    BY <1>1, <2>1 DEF EvolutionPath
<1>2. CASE kind = "remove"
  BY <1>2 DEF Step
<1>3. CASE kind = "set"
  <2>1. PICK id, p : path = EvolutionPath(within, id, of, p) /\ v = PropertyOf(y[id], p)
    BY <1>3 DEF Step
  <2>2. path.id = id /\ path.prop = p
    BY <2>1, PathIs
  <2> QED
    BY <1>3, <2>1, <2>2
<1> QED
  BY <1>1, <1>2, <1>3 DEF Step

LEMMA StepAgrees ==
  ASSUME NEW within, NEW of, NEW x, NEW y, NEW kind, NEW path, NEW v, NEW w,
         Step(within, of, x, y, kind, path, v), Step(within, of, x, y, kind, path, w)
  PROVE  v = w
BY StepValue, Zenon

LEMMA EntityOpsSay ==
  ASSUME NEW within, NEW of, NEW x, NEW y, NEW kind, NEW path, NEW v
  PROVE  Says(EntityOps(within, of, x, y), kind, path, v)
         <=> Step(within, of, x, y, kind, path, v)
<1> DEFINE Paths(ids) == {EvolutionPath(within, id, of, "") : id \in ids}
           both == DOMAIN x \intersect DOMAIN y
           sets == UNION {{EvolutionPath(within, id, of, q) : q \in Changed(of, x[id], y[id])} :
                            id \in both}
<1>1. /\ EntityOps(within, of, x, y).add = [p \in Paths(DOMAIN y \ DOMAIN x) |-> y[p.id]]
      /\ EntityOps(within, of, x, y).remove = Paths(DOMAIN x \ DOMAIN y)
      /\ EntityOps(within, of, x, y).set = [p \in sets |-> PropertyOf(y[p.id], p.prop)]
  BY DEF EntityOps
<1>2. CASE kind = "add"
  <2>1. Says(EntityOps(within, of, x, y), kind, path, v)
        <=> path \in Paths(DOMAIN y \ DOMAIN x) /\ v = y[path.id]
    BY <1>1, <1>2 DEF Says
  <2>2. Step(within, of, x, y, kind, path, v)
        <=> path \in Paths(DOMAIN y \ DOMAIN x) /\ v = y[path.id]
    <3>1. ASSUME Step(within, of, x, y, kind, path, v)
          PROVE  path \in Paths(DOMAIN y \ DOMAIN x) /\ v = y[path.id]
      <4>1. PICK id \in DOMAIN y \ DOMAIN x : path = EvolutionPath(within, id, of, "") /\ v = y[id]
        BY <1>2, <3>1 DEF Step
      <4>2. path.id = id
        BY <4>1 DEF EvolutionPath
      <4> QED
        BY <4>1, <4>2
    <3>2. ASSUME path \in Paths(DOMAIN y \ DOMAIN x), v = y[path.id]
          PROVE  Step(within, of, x, y, kind, path, v)
      <4>1. PICK id \in DOMAIN y \ DOMAIN x : path = EvolutionPath(within, id, of, "")
        BY <3>2
      <4>2. path.id = id
        BY <4>1 DEF EvolutionPath
      <4>3. v = y[id]
        BY <3>2, <4>2
      <4> QED
        BY <1>2, <4>1, <4>3 DEF Step
    <3> QED
      BY <3>1, <3>2
  <2> QED
    BY <2>1, <2>2
<1>3. CASE kind = "remove"
  BY <1>1, <1>3 DEF Says, Step
<1>4. CASE kind = "set"
  <2>1. Says(EntityOps(within, of, x, y), kind, path, v)
        <=> path \in sets /\ v = PropertyOf(y[path.id], path.prop)
    BY <1>1, <1>4 DEF Says
  <2>2. path \in sets <=> \E id \in both : \E p \in Changed(of, x[id], y[id]) :
                            path = EvolutionPath(within, id, of, p)
    OBVIOUS
  <2>3. Step(within, of, x, y, kind, path, v)
        <=> path \in sets /\ v = PropertyOf(y[path.id], path.prop)
    BY <1>4, <2>2, PathIs DEF Step
  <2> QED
    BY <2>1, <2>3
<1> QED
  BY <1>2, <1>3, <1>4 DEF Says, Step

LEMMA JoinOpsSay ==
  ASSUME NEW S,
         \A a, b \in S : \A kind, path, v, w : Says(a, kind, path, v) /\ Says(b, kind, path, w) => v = w
  PROVE  \A kind, path, v :
           Says(JoinOps(S), kind, path, v) <=> \E ops \in S : Says(ops, kind, path, v)
<1> SUFFICES ASSUME NEW kind, NEW path, NEW v
             PROVE  Says(JoinOps(S), kind, path, v) <=> \E ops \in S : Says(ops, kind, path, v)
  OBVIOUS
<1> DEFINE A == UNION {DOMAIN ops.add : ops \in S}
           T == UNION {DOMAIN ops.set : ops \in S}
<1>1. /\ JoinOps(S).add = [p \in A |-> (CHOOSE ops \in S : p \in DOMAIN ops.add).add[p]]
      /\ JoinOps(S).remove = UNION {ops.remove : ops \in S}
      /\ JoinOps(S).set = [p \in T |-> (CHOOSE ops \in S : p \in DOMAIN ops.set).set[p]]
  BY DEF JoinOps
<1>2. CASE kind = "add"
  <2>1. Says(JoinOps(S), kind, path, v)
        <=> path \in A /\ v = (CHOOSE ops \in S : path \in DOMAIN ops.add).add[path]
    BY <1>1, <1>2 DEF Says
  <2>2. ASSUME path \in A
        PROVE  /\ (CHOOSE ops \in S : path \in DOMAIN ops.add) \in S
               /\ path \in DOMAIN (CHOOSE ops \in S : path \in DOMAIN ops.add).add
    BY <2>2
  <2>3. ASSUME NEW ops \in S, Says(ops, kind, path, v)
        PROVE  path \in A /\ v = (CHOOSE o \in S : path \in DOMAIN o.add).add[path]
    <3>1. path \in A
      BY <1>2, <2>3 DEF Says
    <3>2. Says(CHOOSE o \in S : path \in DOMAIN o.add, kind, path,
               (CHOOSE o \in S : path \in DOMAIN o.add).add[path])
      BY <1>2, <2>2, <3>1 DEF Says
    <3> QED
      BY <2>2, <2>3, <3>1, <3>2
  <2>4. ASSUME path \in A, v = (CHOOSE ops \in S : path \in DOMAIN ops.add).add[path]
        PROVE  \E ops \in S : Says(ops, kind, path, v)
    BY <1>2, <2>2, <2>4 DEF Says
  <2> QED
    BY <2>1, <2>3, <2>4
<1>3. CASE kind = "remove"
  <2>1. path \in JoinOps(S).remove <=> \E ops \in S : path \in ops.remove
    <3>1. JoinOps(S).remove = UNION {ops.remove : ops \in S}
      BY <1>1
    <3> QED
      BY <3>1
  <2> QED
    BY <1>3, <2>1 DEF Says
<1>4. CASE kind = "set"
  <2>1. Says(JoinOps(S), kind, path, v)
        <=> path \in T /\ v = (CHOOSE ops \in S : path \in DOMAIN ops.set).set[path]
    BY <1>1, <1>4 DEF Says
  <2>2. ASSUME path \in T
        PROVE  /\ (CHOOSE ops \in S : path \in DOMAIN ops.set) \in S
               /\ path \in DOMAIN (CHOOSE ops \in S : path \in DOMAIN ops.set).set
    BY <2>2
  <2>3. ASSUME NEW ops \in S, Says(ops, kind, path, v)
        PROVE  path \in T /\ v = (CHOOSE o \in S : path \in DOMAIN o.set).set[path]
    <3>1. path \in T
      BY <1>4, <2>3 DEF Says
    <3>2. Says(CHOOSE o \in S : path \in DOMAIN o.set, kind, path,
               (CHOOSE o \in S : path \in DOMAIN o.set).set[path])
      BY <1>4, <2>2, <3>1 DEF Says
    <3> QED
      BY <2>2, <2>3, <3>1, <3>2
  <2>4. ASSUME path \in T, v = (CHOOSE ops \in S : path \in DOMAIN ops.set).set[path]
        PROVE  \E ops \in S : Says(ops, kind, path, v)
    BY <1>4, <2>2, <2>4 DEF Says
  <2> QED
    BY <2>1, <2>3, <2>4
<1> QED
  BY <1>2, <1>3, <1>4 DEF Says

LEMMA NoOpsSay ==
  ASSUME NEW kind, NEW path, NEW v
  PROVE  ~Says(NoOps, kind, path, v)
<1>1. DOMAIN NoOps.add = {} /\ NoOps.remove = {} /\ DOMAIN NoOps.set = {}
  BY DEF NoOps
<1> QED
  BY <1>1 DEF Says

RootStep(a, b, kind, path, v) ==
  kind = "set" /\ \E p \in {"name", "description"} :
    a[p] # b[p] /\ path = EvolutionPath({}, "", "root", p) /\ v = b[p]

LEMMA RootOpsSay ==
  ASSUME NEW a, NEW b, NEW kind, NEW path, NEW v
  PROVE  Says(RootOps(a, b), kind, path, v) <=> RootStep(a, b, kind, path, v)
<1> DEFINE paths == {EvolutionPath({}, "", "root", p) : p \in {q \in {"name", "description"} : a[q] # b[q]}}
<1>1. /\ RootOps(a, b).add = NoOps.add /\ RootOps(a, b).remove = NoOps.remove
      /\ RootOps(a, b).set = [p \in paths |-> b[p.prop]]
  BY DEF RootOps, NoOps
<1>2. DOMAIN NoOps.add = {} /\ NoOps.remove = {}
  BY DEF NoOps
<1>3. Says(RootOps(a, b), kind, path, v) <=> kind = "set" /\ path \in paths /\ v = b[path.prop]
  BY <1>1, <1>2 DEF Says
<1>4. ASSUME NEW p, path = EvolutionPath({}, "", "root", p)
      PROVE  path.prop = p
  BY <1>4 DEF EvolutionPath
<1> QED
  BY <1>3, <1>4 DEF RootStep

OnlyEntity(c, id) == [i \in {id} \intersect DOMAIN c |-> c[i]]

LEMMA OnlyStep ==
  ASSUME NEW of, NEW x, NEW y, NEW id, NEW kind, NEW path, NEW v
  PROVE  Step({}, of, OnlyEntity(x, id), OnlyEntity(y, id), kind, path, v)
         <=> Step({}, of, x, y, kind, path, v) /\ path.id = id
<1>1. /\ DOMAIN OnlyEntity(x, id) = {id} \intersect DOMAIN x
      /\ DOMAIN OnlyEntity(y, id) = {id} \intersect DOMAIN y
      /\ \A i \in DOMAIN OnlyEntity(x, id) : OnlyEntity(x, id)[i] = x[i]
      /\ \A i \in DOMAIN OnlyEntity(y, id) : OnlyEntity(y, id)[i] = y[i]
  BY DEF OnlyEntity
<1>2. ASSUME NEW i, NEW p, path = EvolutionPath({}, i, of, p)
      PROVE  path.id = i
  BY <1>2 DEF EvolutionPath
<1>3. CASE kind = "add"
  <2>1. ASSUME Step({}, of, OnlyEntity(x, id), OnlyEntity(y, id), kind, path, v)
        PROVE  Step({}, of, x, y, kind, path, v) /\ path.id = id
    BY <1>1, <1>2, <1>3, <2>1 DEF Step
  <2>2. ASSUME Step({}, of, x, y, kind, path, v), path.id = id
        PROVE  Step({}, of, OnlyEntity(x, id), OnlyEntity(y, id), kind, path, v)
    BY <1>1, <1>2, <1>3, <2>2 DEF Step
  <2> QED
    BY <2>1, <2>2
<1>4. CASE kind = "remove"
  <2>1. ASSUME Step({}, of, OnlyEntity(x, id), OnlyEntity(y, id), kind, path, v)
        PROVE  Step({}, of, x, y, kind, path, v) /\ path.id = id
    BY <1>1, <1>2, <1>4, <2>1 DEF Step
  <2>2. ASSUME Step({}, of, x, y, kind, path, v), path.id = id
        PROVE  Step({}, of, OnlyEntity(x, id), OnlyEntity(y, id), kind, path, v)
    BY <1>1, <1>2, <1>4, <2>2 DEF Step
  <2> QED
    BY <2>1, <2>2
<1>5. CASE kind = "set"
  <2>1. ASSUME Step({}, of, OnlyEntity(x, id), OnlyEntity(y, id), kind, path, v)
        PROVE  Step({}, of, x, y, kind, path, v) /\ path.id = id
    BY <1>1, <1>2, <1>5, <2>1 DEF Step
  <2>2. ASSUME Step({}, of, x, y, kind, path, v), path.id = id
        PROVE  Step({}, of, OnlyEntity(x, id), OnlyEntity(y, id), kind, path, v)
    BY <1>1, <1>2, <1>5, <2>2 DEF Step
  <2> QED
    BY <2>1, <2>2
<1> QED
  BY <1>3, <1>4, <1>5 DEF Step

(* The operations of an entity, a nested schema with its contents.         *)
InnerStep(x, y, id, kind, path, v) ==
  /\ id \in DOMAIN x \intersect DOMAIN y
  /\ \E part \in NestedCollections : Step({id}, part, x[id][part], y[id][part], kind, path, v)

OfEntity(of, x, y, id, kind, path, v) ==
  \/ Step({}, of, x, y, kind, path, v) /\ path.id = id
  \/ of = "schemas" /\ InnerStep(x, y, id, kind, path, v)

LEMMA OpsOfSay ==
  ASSUME NEW of, NEW x, NEW y, NEW id, NEW kind, NEW path, NEW v
  PROVE  Says(OpsOf(of, x, y, id), kind, path, v) <=> OfEntity(of, x, y, id, kind, path, v)
<1> DEFINE inner == IF of = "schemas" /\ id \in DOMAIN x \intersect DOMAIN y
                    THEN NestedCollections ELSE {}
           S == {EntityOps({}, of, OnlyEntity(x, id), OnlyEntity(y, id))}
                \union {EntityOps({id}, part, x[id][part], y[id][part]) : part \in inner}
           At(k, p, w) == \/ Step({}, of, OnlyEntity(x, id), OnlyEntity(y, id), k, p, w)
                          \/ \E part \in inner : Step({id}, part, x[id][part], y[id][part], k, p, w)
<1>1. OpsOf(of, x, y, id) = JoinOps(S)
  BY DEF OpsOf, OnlyEntity
<1>2. \A k, p, w : (\E ops \in S : Says(ops, k, p, w)) <=> At(k, p, w)
  BY EntityOpsSay
<1>3. ASSUME NEW k, NEW p, NEW w1, NEW w2, At(k, p, w1), At(k, p, w2)
      PROVE  w1 = w2
  <2>1. {} # {id}
    OBVIOUS
  <2>2. CASE p.within = {}
    <3>1. /\ Step({}, of, OnlyEntity(x, id), OnlyEntity(y, id), k, p, w1)
          /\ Step({}, of, OnlyEntity(x, id), OnlyEntity(y, id), k, p, w2)
      BY <1>3, <2>1, <2>2, StepPath
    <3> QED
      BY <3>1, StepAgrees
  <2>3. CASE p.within = {id}
    <3>1. PICK part \in inner : Step({id}, part, x[id][part], y[id][part], k, p, w1)
      BY <1>3, <2>1, <2>3, StepPath
    <3>2. PICK other \in inner : Step({id}, other, x[id][other], y[id][other], k, p, w2)
      BY <1>3, <2>1, <2>3, StepPath
    <3>3. part = p.of /\ other = p.of
      BY <3>1, <3>2, StepPath
    <3> QED
      BY <3>1, <3>2, <3>3, StepAgrees
  <2> QED
    BY <1>3, <2>2, <2>3, StepPath
<1>4. \A f, g \in S : \A k, p, w1, w2 : Says(f, k, p, w1) /\ Says(g, k, p, w2) => w1 = w2
  BY <1>2, <1>3
<1> HIDE DEF S
<1>5. Says(JoinOps(S), kind, path, v) <=> \E ops \in S : Says(ops, kind, path, v)
  BY <1>4, JoinOpsSay
<1>6. Says(OpsOf(of, x, y, id), kind, path, v) <=> At(kind, path, v)
  BY <1>1, <1>2, <1>5
<1> QED
  BY <1>6, OnlyStep DEF OfEntity, InnerStep

----------------------------------------------------------------------------
(* What the changes of a diff say together.                                *)

Means(a, b, kind, path, v) ==
  \/ RootStep(a, b, kind, path, v)
  \/ \E of \in Collections : Step({}, of, a[of], b[of], kind, path, v)
  \/ \E id : InnerStep(a.schemas, b.schemas, id, kind, path, v)

LEMMA RootStepPath ==
  ASSUME NEW a, NEW b, NEW kind, NEW path, NEW v, RootStep(a, b, kind, path, v)
  PROVE  path.within = {} /\ path.of = "root" /\ v = b[path.prop]
<1>1. PICK p \in {"name", "description"} : path = EvolutionPath({}, "", "root", p) /\ v = b[p]
  BY DEF RootStep
<1> QED
  BY <1>1 DEF EvolutionPath

LEMMA CollectionNames == "root" \notin Collections /\ NestedCollections \subseteq Collections
BY DEF Collections, NestedCollections

LEMMA MeansRoot ==
  ASSUME NEW a, NEW b, NEW kind, NEW path, NEW v, Means(a, b, kind, path, v),
         path.within = {}, path.of = "root"
  PROVE  v = b[path.prop]
<1>1. ~\E of \in Collections : Step({}, of, a[of], b[of], kind, path, v)
  BY StepPath, CollectionNames
<1>2. ~\E id : InnerStep(a.schemas, b.schemas, id, kind, path, v)
  <2>1. ASSUME NEW id, NEW part, Step({id}, part, a.schemas[id][part], b.schemas[id][part], kind, path, v)
        PROVE  FALSE
    <3>1. path.within = {id}
      BY <2>1, StepPath
    <3> QED
      BY <3>1
  <2> QED
    BY <2>1 DEF InnerStep
<1> QED
  BY <1>1, <1>2, RootStepPath DEF Means

LEMMA MeansAgrees ==
  ASSUME NEW a, NEW b, NEW kind, NEW path, NEW v, NEW w,
         Means(a, b, kind, path, v), Means(a, b, kind, path, w)
  PROVE  v = w
<1>1. CASE path.within = {} /\ path.of = "root"
  BY <1>1, MeansRoot
<1>2. CASE path.within = {} /\ path.of # "root"
  <2>1. ASSUME NEW u, Means(a, b, kind, path, u)
        PROVE  Step({}, path.of, a[path.of], b[path.of], kind, path, u)
    <3>1. ~RootStep(a, b, kind, path, u)
      BY <1>2, RootStepPath
    <3>2. ~\E id : InnerStep(a.schemas, b.schemas, id, kind, path, u)
      <4>1. ASSUME NEW id, NEW part, Step({id}, part, a.schemas[id][part], b.schemas[id][part], kind, path, u)
            PROVE  FALSE
        <5>1. path.within = {id}
          BY <4>1, StepPath
        <5> QED
          BY <1>2, <5>1
      <4> QED
        BY <4>1 DEF InnerStep
    <3>3. PICK of \in Collections : Step({}, of, a[of], b[of], kind, path, u)
      BY <2>1, <3>1, <3>2 DEF Means
    <3>4. path.of = of
      BY <3>3, StepPath
    <3> QED
      BY <3>3, <3>4
  <2> QED
    BY <2>1, StepAgrees
<1>3. CASE path.within # {}
  <2>1. ASSUME NEW u, Means(a, b, kind, path, u)
        PROVE  \E id : /\ path.within = {id}
                       /\ Step({id}, path.of, a.schemas[id][path.of], b.schemas[id][path.of], kind, path, u)
    <3>1. ~RootStep(a, b, kind, path, u)
      BY <1>3, RootStepPath
    <3>2. ~\E of \in Collections : Step({}, of, a[of], b[of], kind, path, u)
      BY <1>3, StepPath
    <3>3. PICK id, part : Step({id}, part, a.schemas[id][part], b.schemas[id][part], kind, path, u)
      BY <2>1, <3>1, <3>2 DEF Means, InnerStep
    <3>4. path.within = {id} /\ path.of = part
      BY <3>3, StepPath
    <3> QED
      BY <3>3, <3>4
  <2>2. PICK id : /\ path.within = {id}
                  /\ Step({id}, path.of, a.schemas[id][path.of], b.schemas[id][path.of], kind, path, v)
    BY <2>1
  <2>3. PICK other : /\ path.within = {other}
                     /\ Step({other}, path.of, a.schemas[other][path.of], b.schemas[other][path.of], kind, path, w)
    BY <2>1
  <2>4. id = other
    BY <2>2, <2>3
  <2> QED
    BY <2>2, <2>3, <2>4, StepAgrees
<1> QED
  BY <1>1, <1>2, <1>3

(* What leads forward and what leads back are of the same entities.        *)
LEMMA ChangedBothWays ==
  ASSUME NEW of, NEW old, NEW new
  PROVE  Changed(of, old, new) = Changed(of, new, old)
<1>1. ComparedProperties(of, old, new) = ComparedProperties(of, new, old)
  <2>1. CASE of = "constraints"
    <3>1. CASE old.union.kind # new.union.kind
      BY <2>1, <3>1 DEF ComparedProperties
    <3>2. CASE old.union.kind = new.union.kind
      BY <2>1, <3>2 DEF ComparedProperties
    <3> QED
      BY <3>1, <3>2
  <2>2. CASE of # "constraints"
    BY <2>2 DEF ComparedProperties
  <2> QED
    BY <2>1, <2>2
<1> QED
  BY <1>1 DEF Changed

LEMMA StepBothWays ==
  ASSUME NEW within, NEW of, NEW x, NEW y, NEW kind, NEW path, NEW v,
         Step(within, of, x, y, kind, path, v)
  PROVE  \E k, p, w : Step(within, of, y, x, k, p, w) /\ p.id = path.id
<1>1. ASSUME NEW id \in DOMAIN y \ DOMAIN x, path = EvolutionPath(within, id, of, "")
      PROVE  Step(within, of, y, x, "remove", path, "")
  BY <1>1 DEF Step
<1>2. ASSUME NEW id \in DOMAIN x \ DOMAIN y, path = EvolutionPath(within, id, of, "")
      PROVE  Step(within, of, y, x, "add", path, x[id])
  BY <1>2 DEF Step
<1>3. ASSUME NEW id \in DOMAIN x \intersect DOMAIN y, NEW p \in Changed(of, x[id], y[id]),
             path = EvolutionPath(within, id, of, p)
      PROVE  Step(within, of, y, x, "set", path, PropertyOf(x[id], p))
  BY <1>3, ChangedBothWays DEF Step
<1> QED
  BY <1>1, <1>2, <1>3, Zenon DEF Step

LEMMA OpsOfBothWays ==
  ASSUME NEW of, NEW x, NEW y, NEW id, NEW kind, NEW path, NEW v,
         Says(OpsOf(of, x, y, id), kind, path, v)
  PROVE  OpsOf(of, y, x, id) # NoOps
<1>1. CASE Step({}, of, x, y, kind, path, v) /\ path.id = id
  <2>1. PICK k, p, w : Step({}, of, y, x, k, p, w) /\ p.id = id
    BY <1>1, StepBothWays
  <2>2. Says(OpsOf(of, y, x, id), k, p, w)
    BY <2>1, OpsOfSay DEF OfEntity
  <2> QED
    BY <2>2, NoOpsSay
<1>2. CASE of = "schemas" /\ InnerStep(x, y, id, kind, path, v)
  <2>0. PICK part \in NestedCollections :
          id \in DOMAIN x \intersect DOMAIN y /\ Step({id}, part, x[id][part], y[id][part], kind, path, v)
    BY <1>2 DEF InnerStep
  <2>1. PICK k, p, w : Step({id}, part, y[id][part], x[id][part], k, p, w)
    BY <2>0, StepBothWays
  <2>2. Says(OpsOf(of, y, x, id), k, p, w)
    BY <1>2, <2>0, <2>1, OpsOfSay DEF OfEntity, InnerStep
  <2> QED
    BY <2>2, NoOpsSay
<1>3. OfEntity(of, x, y, id, kind, path, v)
  BY OpsOfSay
<1> QED
  BY <1>1, <1>2, <1>3, Zenon DEF OfEntity

(* No entity of a revision is a system entity.                             *)
LEMMA AuthoredNames ==
  ASSUME NEW s, Authored(s)
  PROVE  /\ \A of \in Collections \ {"metadata"} : \A id \in DOMAIN s[of] :
              ~IsSystemEntityName(s[of][id].name)
         /\ \A id \in DOMAIN s["schemas"] \union DOMAIN s["metadata"] : ~IsSystemEntityName(id)
         /\ \A id \in DOMAIN s["schemas"] : \A f \in DOMAIN s["schemas"][id]["fields"] :
              ~IsSystemEntityName(s["schemas"][id]["fields"][f].name)
BY DEF Authored

LEMMA OfEntityAdds ==
  ASSUME NEW a, Authored(a), NEW b, Authored(b), NEW of \in Collections, NEW id,
         NEW path \in DOMAIN OpsOf(of, a[of], b[of], id).add, path.of \in {"fields", "schemas"}
  PROVE  ~IsSystemEntityName(OpsOf(of, a[of], b[of], id).add[path].name)
<1> DEFINE v == OpsOf(of, a[of], b[of], id).add[path]
<1>1. OfEntity(of, a[of], b[of], id, "add", path, v)
  <2>1. Says(OpsOf(of, a[of], b[of], id), "add", path, v)
    BY DEF Says
  <2> QED
    BY <2>1, OpsOfSay
<1>2. CASE Step({}, of, a[of], b[of], "add", path, v)
  <2>1. path.of = of
    BY <1>2, StepPath
  <2>2. PICK i \in DOMAIN b[of] : v = b[of][i]
    BY <1>2 DEF Step
  <2>3. of \in Collections \ {"metadata"}
    BY <2>1
  <2> QED
    BY <2>2, <2>3, AuthoredNames
<1>3. CASE of = "schemas" /\ InnerStep(a[of], b[of], id, "add", path, v)
  <2>1. PICK part \in NestedCollections :
          id \in DOMAIN b[of] /\ Step({id}, part, a[of][id][part], b[of][id][part], "add", path, v)
    BY <1>3 DEF InnerStep
  <2>2. path.of = part
    BY <2>1, StepPath
  <2>3. part = "fields"
    BY <2>2 DEF NestedCollections
  <2>4. PICK i \in DOMAIN b[of][id][part] : v = b[of][id][part][i]
    BY <2>1 DEF Step
  <2> QED
    BY <1>3, <2>1, <2>3, <2>4, AuthoredNames
<1> QED
  BY <1>1, <1>2, <1>3 DEF OfEntity

LEMMA NotSystemChange ==
  ASSUME NEW a, Authored(a), NEW b, Authored(b), NEW of \in Collections,
         NEW id \in DOMAIN a[of] \union DOMAIN b[of]
  PROVE  /\ ~IsHiddenSchema(of, a[of], b[of], id)
         /\ ~IsSystemChange(EntityChange(of, a[of], b[of], id))
<1> DEFINE change == EntityChange(of, a[of], b[of], id)
<1>1. ~IsHiddenSchema(of, a[of], b[of], id)
  <2>1. SUFFICES ASSUME of = "schemas"
                 PROVE  ~IsSystemEntityName((IF id \in DOMAIN b[of] THEN b[of] ELSE a[of])[id].name)
    BY DEF IsHiddenSchema
  <2>2. of \in Collections \ {"metadata"}
    BY <2>1
  <2> QED
    BY <2>2, AuthoredNames
<1>2. /\ change.entity = EntityName(of, a[of], b[of], id)
      /\ change.forward = OpsOf(of, a[of], b[of], id)
      /\ change.backward = OpsOf(of, b[of], a[of], id)
  BY DEF EntityChange, ChangeOf
<1>3. ~IsSystemEntityName(EntityName(of, a[of], b[of], id))
  <2>1. CASE of \in {"schemas", "metadata"}
    BY <2>1, AuthoredNames DEF EntityName
  <2>2. CASE of \notin {"schemas", "metadata"}
    BY <2>2, AuthoredNames DEF EntityName
  <2> QED
    BY <2>1, <2>2
<1>4. ASSUME NEW path \in DOMAIN change.forward.add, path.of \in {"fields", "schemas"}
      PROVE  ~IsSystemEntityName(change.forward.add[path].name)
  BY <1>2, <1>4, OfEntityAdds
<1>5. ASSUME NEW path \in DOMAIN change.backward.add, path.of \in {"fields", "schemas"}
      PROVE  ~IsSystemEntityName(change.backward.add[path].name)
  BY <1>2, <1>5, OfEntityAdds
<1> HIDE DEF change
<1>6. ~IsSystemChange(change)
  BY <1>2, <1>3, <1>4, <1>5 DEF IsSystemChange
<1> QED
  BY <1>1, <1>6 DEF change

LEMMA OfEntityId ==
  ASSUME NEW of, NEW x, NEW y, NEW id, NEW kind, NEW path, NEW v,
         Says(OpsOf(of, x, y, id), kind, path, v)
  PROVE  id \in DOMAIN x \union DOMAIN y
<1>1. OfEntity(of, x, y, id, kind, path, v)
  BY OpsOfSay
<1>2. ASSUME Step({}, of, x, y, kind, path, v), path.id = id
      PROVE  id \in DOMAIN x \union DOMAIN y
  <2>1. PICK i \in DOMAIN x \union DOMAIN y : \E p : path = EvolutionPath({}, i, of, p)
    BY <1>2, Zenon DEF Step
  <2>2. path.id = i
    BY <2>1 DEF EvolutionPath
  <2> QED
    BY <1>2, <2>1, <2>2
<1> QED
  BY <1>1, <1>2 DEF OfEntity, InnerStep

(* An entity of which anything is said, forward or back, has its change.   *)
LEMMA DiffHas ==
  ASSUME NEW a, Authored(a), NEW b, Authored(b), NEW of \in Collections, NEW id,
         NEW kind, NEW path, NEW v,
         \/ Says(OpsOf(of, a[of], b[of], id), kind, path, v)
         \/ Says(OpsOf(of, b[of], a[of], id), kind, path, v)
  PROVE  EntityChange(of, a[of], b[of], id) \in SchemaDiff(a, b)
<1>1. id \in DOMAIN a[of] \union DOMAIN b[of]
  BY OfEntityId
<1>2. OpsOf(of, a[of], b[of], id) # NoOps
  BY OpsOfBothWays, NoOpsSay
<1>3. EntityChange(of, a[of], b[of], id) \in CollectionDiff(of, a[of], b[of])
  BY <1>1, <1>2, NotSystemChange DEF CollectionDiff
<1> QED
  BY <1>1, <1>3, NotSystemChange DEF SchemaDiff

LEMMA DiffRoot ==
  ASSUME NEW a, NEW b, NEW kind, NEW path, NEW v,
         RootStep(a, b, kind, path, v) \/ RootStep(b, a, kind, path, v)
  PROVE  ChangeOf("root", "modified", "root", RootOps(a, b), RootOps(b, a)) \in SchemaDiff(a, b)
<1> DEFINE change == ChangeOf("root", "modified", "root", RootOps(a, b), RootOps(b, a))
<1>1. PICK p \in {"name", "description"} : a[p] # b[p]
  BY DEF RootStep
<1>2. RootStep(a, b, "set", EvolutionPath({}, "", "root", p), b[p])
  BY <1>1 DEF RootStep
<1>3. RootOps(a, b) # NoOps
  BY <1>2, RootOpsSay, NoOpsSay
<1>4. change \in RootDiff(a, b)
  BY <1>3 DEF RootDiff
<1>5. change.entity = "root" /\ change.forward = RootOps(a, b) /\ change.backward = RootOps(b, a)
  BY DEF ChangeOf
<1>6. DOMAIN RootOps(a, b).add = {} /\ DOMAIN RootOps(b, a).add = {}
  BY DEF RootOps, NoOps
<1>7. ~IsSystemEntityName("root")
  BY DEF IsSystemEntityName
<1> HIDE DEF change
<1>8. ~IsSystemChange(change)
  BY <1>5, <1>6, <1>7 DEF IsSystemChange
<1> QED
  BY <1>4, <1>8 DEF SchemaDiff, change

LEMMA DiffIs ==
  ASSUME NEW a, NEW b, NEW c \in SchemaDiff(a, b)
  PROVE  \/ c.forward = RootOps(a, b) /\ c.backward = RootOps(b, a)
         \/ \E of \in Collections : \E id :
              c.forward = OpsOf(of, a[of], b[of], id) /\ c.backward = OpsOf(of, b[of], a[of], id)
<1>1. CASE c \in RootDiff(a, b)
  BY <1>1 DEF RootDiff, ChangeOf
<1>2. ASSUME NEW of \in Collections, c \in CollectionDiff(of, a[of], b[of])
      PROVE  \E id : /\ c.forward = OpsOf(of, a[of], b[of], id)
                     /\ c.backward = OpsOf(of, b[of], a[of], id)
  <2>1. PICK id : c = EntityChange(of, a[of], b[of], id)
    BY <1>2 DEF CollectionDiff
  <2> QED
    BY <2>1 DEF EntityChange, ChangeOf
<1> QED
  BY <1>1, <1>2 DEF SchemaDiff

LEMMA OfEntityMeans ==
  ASSUME NEW a, NEW b, NEW of \in Collections, NEW id, NEW kind, NEW path, NEW v,
         OfEntity(of, a[of], b[of], id, kind, path, v)
  PROVE  Means(a, b, kind, path, v)
<1>1. CASE of = "schemas"
  BY <1>1 DEF OfEntity, Means
<1> QED
  BY <1>1 DEF OfEntity, Means

(* Together the changes of a diff say what turns one schema into the other *)
(* and, for the way back, the other into the one.                          *)
LEMMA DiffForward ==
  ASSUME NEW a, Authored(a), NEW b, Authored(b), NEW kind, NEW path, NEW v
  PROVE  (\E c \in SchemaDiff(a, b) : Says(c.forward, kind, path, v)) <=> Means(a, b, kind, path, v)
<1>1. ASSUME NEW c \in SchemaDiff(a, b), Says(c.forward, kind, path, v)
      PROVE  Means(a, b, kind, path, v)
  <2>1. CASE c.forward = RootOps(a, b)
    BY <1>1, <2>1, RootOpsSay DEF Means
  <2>2. ASSUME NEW of \in Collections, NEW id, c.forward = OpsOf(of, a[of], b[of], id)
        PROVE  Means(a, b, kind, path, v)
    BY <1>1, <2>2, OpsOfSay, OfEntityMeans
  <2> QED
    BY <2>1, <2>2, DiffIs
<1>2. ASSUME RootStep(a, b, kind, path, v)
      PROVE  \E c \in SchemaDiff(a, b) : Says(c.forward, kind, path, v)
  <2>1. ChangeOf("root", "modified", "root", RootOps(a, b), RootOps(b, a)) \in SchemaDiff(a, b)
    BY <1>2, DiffRoot
  <2>2. ChangeOf("root", "modified", "root", RootOps(a, b), RootOps(b, a)).forward = RootOps(a, b)
    BY DEF ChangeOf
  <2>3. Says(RootOps(a, b), kind, path, v)
    BY <1>2, RootOpsSay
  <2> QED
    BY <2>1, <2>2, <2>3
<1>3. ASSUME NEW of \in Collections, NEW id, OfEntity(of, a[of], b[of], id, kind, path, v)
      PROVE  \E c \in SchemaDiff(a, b) : Says(c.forward, kind, path, v)
  <2>1. Says(OpsOf(of, a[of], b[of], id), kind, path, v)
    BY <1>3, OpsOfSay
  <2>2. EntityChange(of, a[of], b[of], id) \in SchemaDiff(a, b)
    BY <2>1, DiffHas
  <2>3. EntityChange(of, a[of], b[of], id).forward = OpsOf(of, a[of], b[of], id)
    BY DEF EntityChange, ChangeOf
  <2> QED
    BY <2>1, <2>2, <2>3
<1>4. ASSUME Means(a, b, kind, path, v)
      PROVE  \/ RootStep(a, b, kind, path, v)
             \/ \E of \in Collections : \E id : OfEntity(of, a[of], b[of], id, kind, path, v)
  BY <1>4 DEF Means, OfEntity, Collections
<1> QED
  BY <1>1, <1>2, <1>3, <1>4

LEMMA DiffBackward ==
  ASSUME NEW a, Authored(a), NEW b, Authored(b), NEW kind, NEW path, NEW v
  PROVE  (\E c \in SchemaDiff(a, b) : Says(c.backward, kind, path, v)) <=> Means(b, a, kind, path, v)
<1>1. ASSUME NEW c \in SchemaDiff(a, b), Says(c.backward, kind, path, v)
      PROVE  Means(b, a, kind, path, v)
  <2>1. CASE c.backward = RootOps(b, a)
    BY <1>1, <2>1, RootOpsSay DEF Means
  <2>2. ASSUME NEW of \in Collections, NEW id, c.backward = OpsOf(of, b[of], a[of], id)
        PROVE  Means(b, a, kind, path, v)
    BY <1>1, <2>2, OpsOfSay, OfEntityMeans
  <2> QED
    BY <2>1, <2>2, DiffIs
<1>2. ASSUME RootStep(b, a, kind, path, v)
      PROVE  \E c \in SchemaDiff(a, b) : Says(c.backward, kind, path, v)
  <2>1. ChangeOf("root", "modified", "root", RootOps(a, b), RootOps(b, a)) \in SchemaDiff(a, b)
    BY <1>2, DiffRoot
  <2>2. ChangeOf("root", "modified", "root", RootOps(a, b), RootOps(b, a)).backward = RootOps(b, a)
    BY DEF ChangeOf
  <2>3. Says(RootOps(b, a), kind, path, v)
    BY <1>2, RootOpsSay
  <2> QED
    BY <2>1, <2>2, <2>3
<1>3. ASSUME NEW of \in Collections, NEW id, OfEntity(of, b[of], a[of], id, kind, path, v)
      PROVE  \E c \in SchemaDiff(a, b) : Says(c.backward, kind, path, v)
  <2>1. Says(OpsOf(of, b[of], a[of], id), kind, path, v)
    BY <1>3, OpsOfSay
  <2>2. EntityChange(of, a[of], b[of], id) \in SchemaDiff(a, b)
    BY <2>1, DiffHas
  <2>3. EntityChange(of, a[of], b[of], id).backward = OpsOf(of, b[of], a[of], id)
    BY DEF EntityChange, ChangeOf
  <2> QED
    BY <2>1, <2>2, <2>3
<1>4. ASSUME Means(b, a, kind, path, v)
      PROVE  \/ RootStep(b, a, kind, path, v)
             \/ \E of \in Collections : \E id : OfEntity(of, b[of], a[of], id, kind, path, v)
  BY <1>4 DEF Means, OfEntity, Collections
<1> QED
  BY <1>1, <1>2, <1>3, <1>4

----------------------------------------------------------------------------
(* What operations that turn x into y make of x.                           *)

Turns(ops, within, of, x, y) ==
  \A kind, path, v :
    Step(within, of, x, y, kind, path, v)
      <=> Says(ops, kind, path, v) /\ path.within = within /\ path.of = of

(* Two revisions of a collection of which all is compared.                 *)
Compared(of, x, y) ==
  /\ ShapedCollection(of, x) /\ ShapedCollection(of, y)
  /\ of = "constraints" => ~UncomparedRules(x, y)

Fresh(ops, within, of) == {p.id : p \in {q \in DOMAIN ops.add : q.of = of /\ q.within = within}}
Kept(ops, within, of, x) == {id \in DOMAIN x : EvolutionPath(within, id, of, "") \notin ops.remove}

NewEntity(ops, within, of, id) == ops.add[EvolutionPath(within, id, of, "")]

LEMMA TurnsAdds ==
  ASSUME NEW ops, NEW within, NEW of, NEW x, NEW y, Turns(ops, within, of, x, y)
  PROVE  /\ Fresh(ops, within, of) = DOMAIN y \ DOMAIN x
         /\ \A id \in DOMAIN y \ DOMAIN x : NewEntity(ops, within, of, id) = y[id]
         /\ Kept(ops, within, of, x) = DOMAIN x \intersect DOMAIN y
<1>1. ASSUME NEW id \in DOMAIN y \ DOMAIN x
      PROVE  /\ EvolutionPath(within, id, of, "") \in DOMAIN ops.add
             /\ EvolutionPath(within, id, of, "").within = within
             /\ EvolutionPath(within, id, of, "").of = of
             /\ EvolutionPath(within, id, of, "").id = id
             /\ ops.add[EvolutionPath(within, id, of, "")] = y[id]
  <2>1. Step(within, of, x, y, "add", EvolutionPath(within, id, of, ""), y[id])
    BY DEF Step
  <2>2. Says(ops, "add", EvolutionPath(within, id, of, ""), y[id])
    BY <2>1 DEF Turns
  <2>3. /\ EvolutionPath(within, id, of, "").within = within
        /\ EvolutionPath(within, id, of, "").of = of
        /\ EvolutionPath(within, id, of, "").id = id
    BY DEF EvolutionPath
  <2> QED
    BY <2>2, <2>3 DEF Says
<1>2. ASSUME NEW p \in DOMAIN ops.add, p.of = of, p.within = within
      PROVE  p.id \in DOMAIN y \ DOMAIN x
  <2>1. Says(ops, "add", p, ops.add[p])
    BY DEF Says
  <2>2. Step(within, of, x, y, "add", p, ops.add[p])
    BY <1>2, <2>1 DEF Turns
  <2>3. PICK id \in DOMAIN y \ DOMAIN x : p = EvolutionPath(within, id, of, "")
    BY <2>2 DEF Step
  <2>4. p.id = id
    BY <2>3 DEF EvolutionPath
  <2> QED
    BY <2>4
<1>3. ASSUME NEW id \in DOMAIN x
      PROVE  EvolutionPath(within, id, of, "") \in ops.remove <=> id \notin DOMAIN y
  <2> DEFINE path == EvolutionPath(within, id, of, "")
  <2>1. path.within = within /\ path.of = of /\ path.id = id
    BY DEF EvolutionPath
  <2>2. path \in ops.remove <=> Says(ops, "remove", path, "")
    BY DEF Says
  <2>3. ASSUME Step(within, of, x, y, "remove", path, "")
        PROVE  id \notin DOMAIN y
    <3>1. PICK i \in DOMAIN x \ DOMAIN y : path = EvolutionPath(within, i, of, "")
      BY <2>3 DEF Step
    <3>2. path.id = i
      BY <3>1 DEF EvolutionPath
    <3> QED
      BY <2>1, <3>2
  <2>4. ASSUME id \notin DOMAIN y
        PROVE  Step(within, of, x, y, "remove", path, "")
    BY <2>4 DEF Step
  <2> QED
    BY <2>1, <2>2, <2>3, <2>4 DEF Turns
<1>4. Fresh(ops, within, of) = DOMAIN y \ DOMAIN x
  <2>1. ASSUME NEW id \in DOMAIN y \ DOMAIN x
        PROVE  id \in Fresh(ops, within, of)
    BY <1>1 DEF Fresh
  <2> QED
    BY <1>2, <2>1 DEF Fresh
<1>5. Kept(ops, within, of, x) = DOMAIN x \intersect DOMAIN y
  BY <1>3 DEF Kept
<1> QED
  BY <1>1, <1>4, <1>5 DEF NewEntity

LEMMA TurnsSets ==
  ASSUME NEW ops, NEW within, NEW of, NEW x, NEW y, Turns(ops, within, of, x, y),
         NEW id \in DOMAIN x \intersect DOMAIN y, NEW p
  PROVE  /\ EvolutionPath(within, id, of, p) \in DOMAIN ops.set <=> p \in Changed(of, x[id], y[id])
         /\ p \in Changed(of, x[id], y[id])
              => ops.set[EvolutionPath(within, id, of, p)] = PropertyOf(y[id], p)
<1> DEFINE path == EvolutionPath(within, id, of, p)
<1>1. path.within = within /\ path.of = of /\ path.id = id /\ path.prop = p
  BY PathIs
<1>2. ASSUME p \in Changed(of, x[id], y[id])
      PROVE  path \in DOMAIN ops.set /\ ops.set[path] = PropertyOf(y[id], p)
  <2>1. Step(within, of, x, y, "set", path, PropertyOf(y[id], p))
    BY <1>2 DEF Step
  <2>2. Says(ops, "set", path, PropertyOf(y[id], p))
    BY <2>1 DEF Turns
  <2> QED
    BY <2>2 DEF Says
<1>3. ASSUME path \in DOMAIN ops.set
      PROVE  p \in Changed(of, x[id], y[id])
  <2>1. Says(ops, "set", path, ops.set[path])
    BY <1>3 DEF Says
  <2>2. Step(within, of, x, y, "set", path, ops.set[path])
    BY <1>1, <2>1 DEF Turns
  <2>3. PICK i \in DOMAIN x \intersect DOMAIN y : \E q \in Changed(of, x[i], y[i]) :
          path = EvolutionPath(within, i, of, q)
    BY <2>2 DEF Step
  <2>4. PICK q \in Changed(of, x[i], y[i]) : path = EvolutionPath(within, i, of, q)
    BY <2>3
  <2>5. path.id = i /\ path.prop = q
    BY <2>4, PathIs
  <2> QED
    BY <1>1, <2>4, <2>5
<1> QED
  BY <1>2, <1>3

LEMMA OverriddenIs ==
  ASSUME NEW ops, NEW within, NEW of, NEW x, NEW y, Turns(ops, within, of, x, y),
         NEW id \in DOMAIN x \intersect DOMAIN y, NEW r
  PROVE  Overridden(r, id, of, within, ops)
           = [p \in DOMAIN r |-> IF p \in Changed(of, x[id], y[id])
                                 THEN PropertyOf(y[id], p) ELSE r[p]]
<1>1. ASSUME NEW p \in DOMAIN r
      PROVE  (LET path == EvolutionPath(within, id, of, p)
              IN IF path \in DOMAIN ops.set THEN ops.set[path] ELSE r[p])
             = IF p \in Changed(of, x[id], y[id]) THEN PropertyOf(y[id], p) ELSE r[p]
  BY TurnsSets
<1> QED
  BY <1>1 DEF Overridden

PlainCollections == {"fields", "indexes", "metadata"}

LEMMA PlainShapes ==
  ASSUME NEW of \in PlainCollections, NEW e, NEW f, Shaped(of, e), Shaped(of, f)
  PROVE  /\ DOMAIN e = DOMAIN f /\ DOMAIN e = ComparedProperties(of, e, f)
         /\ f = [p \in DOMAIN f |-> f[p]]
<1>1. CASE of = "fields"
  BY <1>1 DEF Shaped, IsRecord, ComparedProperties, ComparedOfField, EvolvingField
<1>2. CASE of = "indexes"
  BY <1>2 DEF Shaped, IsRecord, ComparedProperties, EvolvingIndex
<1>3. CASE of = "metadata"
  BY <1>3 DEF Shaped, IsRecord, ComparedProperties
<1> QED
  BY <1>1, <1>2, <1>3 DEF PlainCollections

LEMMA PlainEntity ==
  ASSUME NEW ops, NEW within, NEW of \in PlainCollections, NEW x, NEW y,
         Turns(ops, within, of, x, y), Compared(of, x, y), NEW id \in DOMAIN x \intersect DOMAIN y
  PROVE  PatchedEntity(x[id], id, of, within, ops) = y[id]
<1>1. Shaped(of, x[id]) /\ Shaped(of, y[id])
  BY DEF Compared, ShapedCollection
<1>2. /\ DOMAIN x[id] = DOMAIN y[id] /\ DOMAIN x[id] = ComparedProperties(of, x[id], y[id])
      /\ y[id] = [p \in DOMAIN y[id] |-> y[id][p]]
  BY <1>1, PlainShapes
<1>3. Overridden(x[id], id, of, within, ops)
        = [p \in DOMAIN x[id] |-> IF p \in Changed(of, x[id], y[id])
                                  THEN PropertyOf(y[id], p) ELSE x[id][p]]
  BY OverriddenIs
<1>4. ASSUME NEW p \in DOMAIN x[id]
      PROVE  (IF p \in Changed(of, x[id], y[id]) THEN PropertyOf(y[id], p) ELSE x[id][p]) = y[id][p]
  BY <1>2, <1>4 DEF Changed, PropertyOf
<1>5. Overridden(x[id], id, of, within, ops) = y[id]
  BY <1>2, <1>3, <1>4
<1> QED
  BY <1>5 DEF PatchedEntity, PlainCollections

LEMMA ConstraintShape ==
  ASSUME NEW e, Shaped("constraints", e)
  PROVE  /\ DOMAIN e = {"name", "description", "union"} /\ e = [p \in DOMAIN e |-> e[p]]
         /\ e.union = [p \in DOMAIN e.union |-> e.union[p]]
         /\ \/ e.union.kind = "rule" /\ DOMAIN e.union = {"kind", "fields", "predicate", "parameters"}
            \/ e.union.kind = "group" /\ DOMAIN e.union = {"kind", "content"}
BY DEF Shaped, IsRecord

LEMMA ConstraintEntity ==
  ASSUME NEW ops, NEW within, NEW x, NEW y,
         Turns(ops, within, "constraints", x, y), Compared("constraints", x, y),
         NEW id \in DOMAIN x \intersect DOMAIN y
  PROVE  PatchedEntity(x[id], id, "constraints", within, ops) = y[id]
<1> DEFINE e == x[id]
           f == y[id]
           changed == Changed("constraints", e, f)
           o == Overridden(e, id, "constraints", within, ops)
<1>1. Shaped("constraints", e) /\ Shaped("constraints", f)
  BY DEF Compared, ShapedCollection
<1>2. /\ DOMAIN e = {"name", "description", "union"} /\ DOMAIN f = {"name", "description", "union"}
      /\ f = [p \in {"name", "description", "union"} |-> f[p]]
  BY <1>1, ConstraintShape
<1>3. o = [p \in DOMAIN e |-> IF p \in changed THEN PropertyOf(f, p) ELSE e[p]]
  BY OverriddenIs
<1>4. \A p \in {"name", "description"} : o[p] = f[p]
  <2>1. {"name", "description"} \subseteq ComparedProperties("constraints", e, f)
    BY DEF ComparedProperties
  <2> QED
    BY <1>2, <1>3, <2>1 DEF Changed, PropertyOf
<1>5. CASE e.union.kind # f.union.kind
  <2>1. "union" \in ComparedProperties("constraints", e, f)
    BY <1>5 DEF ComparedProperties
  <2>2. "union" \in changed
    BY <1>2, <1>5, <2>1 DEF Changed, PropertyOf
  <2>3. o["union"] = f["union"]
    BY <1>2, <1>3, <2>2 DEF PropertyOf
  <2>4. o = f
    BY <1>2, <1>3, <1>4, <2>3
  <2> QED
    BY <1>5, <2>4 DEF PatchedEntity
<1>6. CASE e.union.kind = f.union.kind
  <2>1. "union" \notin ComparedProperties("constraints", e, f)
    BY <1>6 DEF ComparedProperties
  <2>2. o.union = e.union
    BY <1>2, <1>3, <2>1 DEF Changed
  <2>3. Overridden(e.union, id, "constraints", within, ops)
          = [p \in DOMAIN e.union |-> IF p \in changed THEN PropertyOf(f, p) ELSE e.union[p]]
    BY OverriddenIs
  <2>4. [p \in DOMAIN e.union |-> IF p \in changed THEN PropertyOf(f, p) ELSE e.union[p]] = f.union
    <3>1. CASE e.union.kind = "rule"
      <4>1. /\ DOMAIN e.union = {"kind", "fields", "predicate", "parameters"}
            /\ DOMAIN f.union = DOMAIN e.union
            /\ f.union = [p \in DOMAIN f.union |-> f.union[p]]
        BY <1>1, <1>6, <3>1, ConstraintShape
      <4>2. ComparedProperties("constraints", e, f)
              = {"name", "description", "fields", "predicate", "parameters"}
        BY <1>6, <3>1 DEF ComparedProperties
      <4>3. \A p \in {"fields", "predicate", "parameters"} :
              PropertyOf(e, p) = e.union[p] /\ PropertyOf(f, p) = f.union[p]
        BY <1>2 DEF PropertyOf
      <4>4. \A p \in {"fields", "predicate", "parameters"} : p \in changed \/ e.union[p] = f.union[p]
        BY <4>2, <4>3 DEF Changed
      <4>5. "kind" \notin changed
        BY <4>2 DEF Changed
      <4>6. ASSUME NEW p \in DOMAIN e.union
            PROVE  (IF p \in changed THEN PropertyOf(f, p) ELSE e.union[p]) = f.union[p]
        BY <1>6, <4>1, <4>3, <4>4, <4>5
      <4> QED
        BY <4>1, <4>6
    <3>2. CASE e.union.kind = "group"
      <4>1. e.union = f.union
        BY <1>6, <3>2 DEF Compared, UncomparedRules
      <4>2. /\ DOMAIN e.union = {"kind", "content"}
            /\ f.union = [p \in DOMAIN f.union |-> f.union[p]]
        BY <1>1, <3>2, <4>1, ConstraintShape
      <4>3. "kind" \notin changed /\ "content" \notin changed
        BY <1>6, <3>2 DEF Changed, ComparedProperties
      <4> QED
        BY <4>1, <4>2, <4>3
    <3> QED
      BY <1>1, <3>1, <3>2, ConstraintShape
  <2>5. PatchedEntity(e, id, "constraints", within, ops) = [o EXCEPT !.union = f.union]
    BY <2>2, <2>3, <2>4 DEF PatchedEntity
  <2>6. [o EXCEPT !.union = f.union] = f
    BY <1>2, <1>3, <1>4
  <2> QED
    BY <2>5, <2>6
<1> QED
  BY <1>5, <1>6

LEMMA TurnsPatches ==
  ASSUME NEW ops, NEW within, NEW of \in Collections \ {"schemas"}, NEW x, NEW y,
         Turns(ops, within, of, x, y), Compared(of, x, y)
  PROVE  Patched(x, of, within, ops) = y
<1>2. Patched(x, of, within, ops)
        = [id \in Kept(ops, within, of, x) \union Fresh(ops, within, of) |->
             IF id \in Fresh(ops, within, of) THEN NewEntity(ops, within, of, id)
             ELSE PatchedEntity(x[id], id, of, within, ops)]
  BY DEF Patched, Kept, Fresh, NewEntity
<1>3. /\ Fresh(ops, within, of) = DOMAIN y \ DOMAIN x
      /\ Kept(ops, within, of, x) = DOMAIN x \intersect DOMAIN y
      /\ \A id \in DOMAIN y \ DOMAIN x : NewEntity(ops, within, of, id) = y[id]
  BY TurnsAdds
<1>4. \A id \in DOMAIN x \intersect DOMAIN y : PatchedEntity(x[id], id, of, within, ops) = y[id]
  <2>1. CASE of = "constraints"
    BY <2>1, ConstraintEntity
  <2>2. CASE of # "constraints"
    <3>1. of \in PlainCollections
      BY <2>2 DEF Collections, NestedCollections, PlainCollections
    <3> QED
      BY <3>1, PlainEntity
  <2> QED
    BY <2>1, <2>2
<1>5. y = [id \in DOMAIN y |-> y[id]]
  BY DEF Compared, ShapedCollection
<1> QED
  BY <1>2, <1>3, <1>4, <1>5

ComparedOfSchema == {"name", "description", "concrete", "type", "values"}
OwnOfSchema == ComparedOfSchema \union {"schema"}

LEMMA NestedProps ==
  /\ DOMAIN EmptyNested = ComparedOfSchema \union {"schema", "fields", "indexes", "constraints"}
  /\ \A e, f : ComparedProperties("schemas", e, f) = ComparedOfSchema
  /\ \A e : Shaped("schemas", e) => DOMAIN e = DOMAIN EmptyNested /\ e = [p \in DOMAIN EmptyNested |-> e[p]]
<1>1. DOMAIN EmptyNested = ComparedOfSchema \union {"schema", "fields", "indexes", "constraints"}
  BY DEF EmptyNested, ComparedOfSchema
<1>2. \A e, f : ComparedProperties("schemas", e, f) = ComparedOfSchema
  BY DEF ComparedProperties, ComparedOfSchema
<1>3. \A e : Shaped("schemas", e) => DOMAIN e = DOMAIN EmptyNested /\ e = [p \in DOMAIN EmptyNested |-> e[p]]
  BY DEF Shaped, IsRecord
<1> QED
  BY <1>1, <1>2, <1>3

(* A nested schema first has its own properties set, not its contents.     *)
LEMMA SchemaEntity ==
  ASSUME NEW ops, NEW x, NEW y, Turns(ops, {}, "schemas", x, y),
         NEW id \in DOMAIN x \intersect DOMAIN y,
         Shaped("schemas", x[id]), Shaped("schemas", y[id])
  PROVE  PatchedEntity(x[id], id, "schemas", {}, ops)
           = [p \in DOMAIN EmptyNested |-> IF p \in ComparedOfSchema THEN y[id][p] ELSE x[id][p]]
<1>1. DOMAIN x[id] = DOMAIN EmptyNested /\ DOMAIN y[id] = DOMAIN EmptyNested
  BY NestedProps
<1>2. Overridden(x[id], id, "schemas", {}, ops)
        = [p \in DOMAIN EmptyNested |-> IF p \in Changed("schemas", x[id], y[id])
                                        THEN PropertyOf(y[id], p) ELSE x[id][p]]
  BY <1>1, OverriddenIs
<1>3. ASSUME NEW p \in DOMAIN EmptyNested
      PROVE  (IF p \in Changed("schemas", x[id], y[id]) THEN PropertyOf(y[id], p) ELSE x[id][p])
             = IF p \in ComparedOfSchema THEN y[id][p] ELSE x[id][p]
  <2>1. PropertyOf(x[id], p) = x[id][p] /\ PropertyOf(y[id], p) = y[id][p]
    BY <1>1 DEF PropertyOf
  <2>2. p \in Changed("schemas", x[id], y[id]) <=> p \in ComparedOfSchema /\ x[id][p] # y[id][p]
    BY <2>1, NestedProps DEF Changed
  <2> QED
    BY <2>1, <2>2
<1>4. PatchedEntity(x[id], id, "schemas", {}, ops) = Overridden(x[id], id, "schemas", {}, ops)
  BY DEF PatchedEntity
<1> QED
  BY <1>2, <1>3, <1>4

LEMMA NestedBecomes ==
  ASSUME NEW ops, NEW id, NEW n, NEW m, Shaped("schemas", m),
         n = [p \in DOMAIN EmptyNested |-> n[p]],
         \A p \in OwnOfSchema : n[p] = m[p],
         \A part \in NestedCollections :
           Turns(ops, {id}, part, n[part], m[part]) /\ Compared(part, n[part], m[part])
  PROVE  PatchedNested(n, id, ops) = m
<1>1. \A part \in NestedCollections : Patched(n[part], part, {id}, ops) = m[part]
  <2>1. \A part \in NestedCollections : part \in Collections \ {"schemas"}
    BY DEF Collections, NestedCollections
  <2> QED
    BY <2>1, TurnsPatches
<1>2. /\ Patched(n.fields, "fields", {id}, ops) = m.fields
      /\ Patched(n.indexes, "indexes", {id}, ops) = m.indexes
      /\ Patched(n.constraints, "constraints", {id}, ops) = m.constraints
  BY <1>1 DEF NestedCollections
<1>3. PatchedNested(n, id, ops)
        = [n EXCEPT !.fields = m.fields, !.indexes = m.indexes, !.constraints = m.constraints]
  BY <1>2 DEF PatchedNested
<1>4. m = [p \in DOMAIN EmptyNested |-> m[p]]
  BY NestedProps
<1>5. DOMAIN EmptyNested = ComparedOfSchema \union {"schema", "fields", "indexes", "constraints"}
  BY NestedProps
<1>6. DOMAIN n = DOMAIN EmptyNested
  OBVIOUS
<1>7. PatchedNested(n, id, ops)
        = [p \in DOMAIN EmptyNested |-> IF p \in {"fields", "indexes", "constraints"} THEN m[p] ELSE n[p]]
  BY <1>3, <1>6
<1> QED
  BY <1>4, <1>5, <1>7 DEF OwnOfSchema

MixedSchema(x, y) == [p \in DOMAIN EmptyNested |-> IF p \in ComparedOfSchema THEN y[p] ELSE x[p]]

LEMMA MixedBecomes ==
  ASSUME NEW ops, NEW id, NEW x, NEW y, Shaped("schemas", y), x.schema = y.schema,
         \A part \in NestedCollections :
           Turns(ops, {id}, part, x[part], y[part]) /\ Compared(part, x[part], y[part])
  PROVE  PatchedNested(MixedSchema(x, y), id, ops) = y
<1>1. DOMAIN EmptyNested = ComparedOfSchema \union {"schema", "fields", "indexes", "constraints"}
  BY NestedProps
<1>2. \A part \in NestedCollections : MixedSchema(x, y)[part] = x[part]
  BY <1>1 DEF NestedCollections, ComparedOfSchema, MixedSchema
<1>3. \A p \in OwnOfSchema : MixedSchema(x, y)[p] = y[p]
  BY <1>1 DEF OwnOfSchema, MixedSchema
<1>4. MixedSchema(x, y) = [p \in DOMAIN EmptyNested |-> MixedSchema(x, y)[p]]
  BY DEF MixedSchema
<1>5. \A part \in NestedCollections :
        /\ Turns(ops, {id}, part, MixedSchema(x, y)[part], y[part])
        /\ Compared(part, MixedSchema(x, y)[part], y[part])
  BY <1>2
<1> QED
  BY <1>3, <1>4, <1>5, NestedBecomes

LEMMA MeansTurns ==
  ASSUME NEW a, NEW b, NEW ops,
         \A kind, path, v : Says(ops, kind, path, v) <=> Means(a, b, kind, path, v)
  PROVE  /\ \A of \in Collections : Turns(ops, {}, of, a[of], b[of])
         /\ \A id \in DOMAIN a.schemas \intersect DOMAIN b.schemas : \A part \in NestedCollections :
              Turns(ops, {id}, part, a.schemas[id][part], b.schemas[id][part])
         /\ \A id \in DOMAIN b.schemas \ DOMAIN a.schemas : \A part \in NestedCollections :
              Turns(ops, {id}, part, b.schemas[id][part], b.schemas[id][part])
<1>1. ASSUME NEW of \in Collections, NEW kind, NEW path, NEW v
      PROVE  Step({}, of, a[of], b[of], kind, path, v)
               <=> Says(ops, kind, path, v) /\ path.within = {} /\ path.of = of
  <2>1. ASSUME Step({}, of, a[of], b[of], kind, path, v)
        PROVE  Says(ops, kind, path, v) /\ path.within = {} /\ path.of = of
    BY <2>1, StepPath DEF Means
  <2>2. ASSUME Says(ops, kind, path, v), path.within = {}, path.of = of
        PROVE  Step({}, of, a[of], b[of], kind, path, v)
    <3>1. ~RootStep(a, b, kind, path, v)
      BY <2>2, RootStepPath, CollectionNames
    <3>2. ~\E id : InnerStep(a.schemas, b.schemas, id, kind, path, v)
      <4>1. ASSUME NEW id, NEW part, Step({id}, part, a.schemas[id][part], b.schemas[id][part], kind, path, v)
            PROVE  FALSE
        <5>1. path.within = {id}
          BY <4>1, StepPath
        <5> QED
          BY <2>2, <5>1
      <4> QED
        BY <4>1 DEF InnerStep
    <3>3. PICK other \in Collections : Step({}, other, a[other], b[other], kind, path, v)
      BY <2>2, <3>1, <3>2 DEF Means
    <3>4. path.of = other
      BY <3>3, StepPath
    <3> QED
      BY <2>2, <3>3, <3>4
  <2> QED
    BY <2>1, <2>2
<1>2. ASSUME NEW id, NEW part, NEW kind, NEW path, NEW v,
             Says(ops, kind, path, v), path.within = {id}, path.of = part
      PROVE  /\ id \in DOMAIN a.schemas \intersect DOMAIN b.schemas
             /\ Step({id}, part, a.schemas[id][part], b.schemas[id][part], kind, path, v)
  <2>1. ~RootStep(a, b, kind, path, v)
    BY <1>2, RootStepPath
  <2>2. ~\E of \in Collections : Step({}, of, a[of], b[of], kind, path, v)
    BY <1>2, StepPath
  <2>3. PICK i : InnerStep(a.schemas, b.schemas, i, kind, path, v)
    BY <1>2, <2>1, <2>2 DEF Means
  <2>4. PICK p : Step({i}, p, a.schemas[i][p], b.schemas[i][p], kind, path, v)
    BY <2>3 DEF InnerStep
  <2>5. path.within = {i} /\ path.of = p
    BY <2>4, StepPath
  <2>6. i = id /\ p = part
    BY <1>2, <2>5
  <2> QED
    BY <2>3, <2>4, <2>6 DEF InnerStep
<1>3. ASSUME NEW id \in DOMAIN a.schemas \intersect DOMAIN b.schemas, NEW part \in NestedCollections,
             NEW kind, NEW path, NEW v,
             Step({id}, part, a.schemas[id][part], b.schemas[id][part], kind, path, v)
      PROVE  Says(ops, kind, path, v) /\ path.within = {id} /\ path.of = part
  <2>1. InnerStep(a.schemas, b.schemas, id, kind, path, v)
    BY <1>3 DEF InnerStep
  <2> QED
    BY <1>3, <2>1, StepPath DEF Means
<1>4. ASSUME NEW within, NEW of, NEW z, NEW kind, NEW path, NEW v, Step(within, of, z, z, kind, path, v)
      PROVE  FALSE
  BY <1>4 DEF Step, Changed
<1>5. \A of \in Collections : Turns(ops, {}, of, a[of], b[of])
  BY <1>1 DEF Turns
<1>6. \A id \in DOMAIN a.schemas \intersect DOMAIN b.schemas : \A part \in NestedCollections :
        Turns(ops, {id}, part, a.schemas[id][part], b.schemas[id][part])
  BY <1>2, <1>3 DEF Turns
<1>7. \A id \in DOMAIN b.schemas \ DOMAIN a.schemas : \A part \in NestedCollections :
        Turns(ops, {id}, part, b.schemas[id][part], b.schemas[id][part])
  BY <1>2, <1>4 DEF Turns
<1> QED
  BY <1>5, <1>6, <1>7

LEMMA RootBecomes ==
  ASSUME NEW a, NEW b, NEW ops,
         \A kind, path, v : Says(ops, kind, path, v) <=> Means(a, b, kind, path, v)
  PROVE  Overridden([name |-> a.name, description |-> a.description], "", "root", {}, ops)
           = [name |-> b.name, description |-> b.description]
<1> DEFINE old == [name |-> a.name, description |-> a.description]
           At(p) == EvolutionPath({}, "", "root", p)
           Value(p) == IF At(p) \in DOMAIN ops.set THEN ops.set[At(p)] ELSE old[p]
<1>1. ASSUME NEW p \in {"name", "description"}
      PROVE  Value(p) = b[p]
  <2>1. old[p] = a[p]
    OBVIOUS
  <2>2. CASE At(p) \in DOMAIN ops.set
    <3>1. Says(ops, "set", At(p), ops.set[At(p)])
      BY <2>2 DEF Says
    <3>2. At(p).of = "root" /\ At(p).within = {} /\ At(p).prop = p
      BY DEF EvolutionPath
    <3>3. \A kind, path, v : Says(ops, kind, path, v) /\ path.within = {} /\ path.of = "root"
                               => v = b[path.prop]
      BY MeansRoot
    <3> HIDE DEF At
    <3>4. ops.set[At(p)] = b[p]
      BY <3>1, <3>2, <3>3
    <3> QED
      BY <2>2, <3>4
  <2>3. CASE At(p) \notin DOMAIN ops.set
    <3>1. ASSUME a[p] # b[p]
          PROVE  FALSE
      <4>1. RootStep(a, b, "set", At(p), b[p])
        BY <3>1 DEF RootStep
      <4>2. Says(ops, "set", At(p), b[p])
        BY <4>1 DEF Means
      <4> QED
        BY <2>3, <4>2 DEF Says
    <3> QED
      BY <2>1, <2>3, <3>1
  <2> QED
    BY <2>2, <2>3
<1>2. Overridden(old, "", "root", {}, ops) = [p \in {"name", "description"} |-> Value(p)]
  BY DEF Overridden
<1> HIDE DEF Value
<1>3. [p \in {"name", "description"} |-> Value(p)] = [name |-> b.name, description |-> b.description]
  BY <1>1
<1> QED
  BY <1>2, <1>3

LEMMA AuthoredShapes ==
  ASSUME NEW s, Authored(s)
  PROVE  /\ \A of \in Collections : ShapedCollection(of, s[of])
         /\ \A id \in DOMAIN s.schemas : Shaped("schemas", s.schemas[id])
         /\ \A id \in DOMAIN s.schemas : \A part \in NestedCollections :
              ShapedCollection(part, s.schemas[id][part])
         /\ s.schemas = [id \in DOMAIN s.schemas |-> s.schemas[id]]
         /\ s = [name |-> s.name, description |-> s.description, fields |-> s.fields,
                 indexes |-> s.indexes, constraints |-> s.constraints, metadata |-> s.metadata,
                 schemas |-> s.schemas]
<1>1. /\ IsRecord(s, DOMAIN EmptySchema)
      /\ \A of \in Collections : ShapedCollection(of, s[of])
      /\ \A id \in DOMAIN s.schemas : \A part \in NestedCollections :
              ShapedCollection(part, s.schemas[id][part])
  BY DEF Authored
<1>2. ShapedCollection("schemas", s["schemas"])
  BY <1>1 DEF Collections
<1>3. DOMAIN EmptySchema = {"name", "description", "fields", "indexes", "constraints", "schemas", "metadata"}
  BY DEF EmptySchema
<1>4. s = [name |-> s.name, description |-> s.description, fields |-> s.fields,
           indexes |-> s.indexes, constraints |-> s.constraints, metadata |-> s.metadata,
           schemas |-> s.schemas]
  BY <1>1, <1>3 DEF IsRecord
<1> QED
  BY <1>1, <1>2, <1>4 DEF ShapedCollection

LEMMA SchemasBecome ==
  ASSUME NEW a, Authored(a), NEW b, Authored(b), ~Uncompared(a, b), NEW ops,
         \A kind, path, v : Says(ops, kind, path, v) <=> Means(a, b, kind, path, v)
  PROVE  LET schemas == Patched(a.schemas, "schemas", {}, ops)
         IN [id \in DOMAIN schemas |-> PatchedNested(schemas[id], id, ops)] = b.schemas
<1> DEFINE x == a.schemas
           y == b.schemas
           schemas == Patched(x, "schemas", {}, ops)
<1>1. Turns(ops, {}, "schemas", x, y)
  <2>1. Turns(ops, {}, "schemas", a["schemas"], b["schemas"])
    BY MeansTurns DEF Collections
  <2> QED
    BY <2>1
<1>2. /\ DOMAIN schemas = DOMAIN y
      /\ \A id \in DOMAIN y \ DOMAIN x : schemas[id] = y[id]
      /\ \A id \in DOMAIN x \intersect DOMAIN y :
           schemas[id] = PatchedEntity(x[id], id, "schemas", {}, ops)
  <2>1. schemas = [id \in Kept(ops, {}, "schemas", x) \union Fresh(ops, {}, "schemas") |->
                     IF id \in Fresh(ops, {}, "schemas") THEN NewEntity(ops, {}, "schemas", id)
                     ELSE PatchedEntity(x[id], id, "schemas", {}, ops)]
    BY DEF Patched, Kept, Fresh, NewEntity
  <2>2. /\ Fresh(ops, {}, "schemas") = DOMAIN y \ DOMAIN x
        /\ Kept(ops, {}, "schemas", x) = DOMAIN x \intersect DOMAIN y
        /\ \A id \in DOMAIN y \ DOMAIN x : NewEntity(ops, {}, "schemas", id) = y[id]
    BY <1>1, TurnsAdds
  <2> HIDE DEF x, y, schemas
  <2> QED
    BY <2>1, <2>2
<1>3. ASSUME NEW id \in DOMAIN y \ DOMAIN x
      PROVE  PatchedNested(schemas[id], id, ops) = y[id]
  <2>1. \A part \in NestedCollections : Turns(ops, {id}, part, y[id][part], y[id][part])
    BY MeansTurns
  <2>2. Shaped("schemas", y[id])
    BY AuthoredShapes
  <2>3. \A part \in NestedCollections : Compared(part, y[id][part], y[id][part])
    BY AuthoredShapes DEF Compared, UncomparedRules
  <2>4. y[id] = [p \in DOMAIN EmptyNested |-> y[id][p]]
    BY <2>2, NestedProps
  <2>5. PatchedNested(y[id], id, ops) = y[id]
    BY <2>1, <2>2, <2>3, <2>4, NestedBecomes
  <2> QED
    BY <1>2, <2>5
<1>4. ASSUME NEW id \in DOMAIN x \intersect DOMAIN y
      PROVE  PatchedNested(schemas[id], id, ops) = y[id]
  <2>1. Shaped("schemas", x[id]) /\ Shaped("schemas", y[id])
    BY AuthoredShapes
  <2>2. schemas[id] = MixedSchema(x[id], y[id])
    BY <1>1, <1>2, <2>1, SchemaEntity DEF MixedSchema
  <2>3. \A part \in NestedCollections : Turns(ops, {id}, part, x[id][part], y[id][part])
    BY MeansTurns
  <2>4. \A part \in NestedCollections : Compared(part, x[id][part], y[id][part])
    <3>1. ~UncomparedRules(x[id].constraints, y[id].constraints)
      BY DEF Uncompared
    <3> QED
      BY <3>1, AuthoredShapes DEF Compared
  <2>5. x[id].schema = y[id].schema
    BY DEF Uncompared
  <2> HIDE DEF x, y, schemas
  <2>6. PatchedNested(MixedSchema(x[id], y[id]), id, ops) = y[id]
    BY <2>1, <2>3, <2>4, <2>5, MixedBecomes
  <2> QED
    BY <2>2, <2>6
<1>5. y = [id \in DOMAIN y |-> y[id]]
  BY AuthoredShapes
<1> HIDE DEF x, y, schemas
<1>6. [id \in DOMAIN schemas |-> PatchedNested(schemas[id], id, ops)] = y
  BY <1>2, <1>3, <1>4, <1>5
<1> QED
  BY <1>6 DEF x, y, schemas

LEMMA SchemaBecomes ==
  ASSUME NEW a, Authored(a), NEW b, Authored(b), ~Uncompared(a, b), NEW ops,
         \A kind, path, v : Says(ops, kind, path, v) <=> Means(a, b, kind, path, v)
  PROVE  PatchedSchema(a, ops) = b
<1>1. ASSUME NEW of \in Collections \ {"schemas"}
      PROVE  Patched(a[of], of, {}, ops) = b[of]
  <2>1. Turns(ops, {}, of, a[of], b[of])
    BY MeansTurns
  <2>2. ~UncomparedRules(a.constraints, b.constraints)
    BY DEF Uncompared
  <2>3. Compared(of, a[of], b[of])
    BY <2>2, AuthoredShapes DEF Compared
  <2> QED
    BY <2>1, <2>3, TurnsPatches
<1>2. /\ Patched(a.fields, "fields", {}, ops) = b.fields
      /\ Patched(a.indexes, "indexes", {}, ops) = b.indexes
      /\ Patched(a.constraints, "constraints", {}, ops) = b.constraints
      /\ Patched(a.metadata, "metadata", {}, ops) = b.metadata
  BY <1>1 DEF Collections, NestedCollections
<1> DEFINE root == Overridden([name |-> a.name, description |-> a.description], "", "root", {}, ops)
<1>3. root = [name |-> b.name, description |-> b.description]
  BY RootBecomes
<1>4. LET schemas == Patched(a.schemas, "schemas", {}, ops)
      IN [id \in DOMAIN schemas |-> PatchedNested(schemas[id], id, ops)] = b.schemas
  BY SchemasBecome
<1> HIDE DEF root
<1>6. root.name = b.name /\ root.description = b.description
  BY <1>3
<1>7. PatchedSchema(a, ops)
        = [name |-> root.name, description |-> root.description,
           fields |-> Patched(a.fields, "fields", {}, ops),
           indexes |-> Patched(a.indexes, "indexes", {}, ops),
           constraints |-> Patched(a.constraints, "constraints", {}, ops),
           metadata |-> Patched(a.metadata, "metadata", {}, ops),
           schemas |-> LET schemas == Patched(a.schemas, "schemas", {}, ops)
                       IN [id \in DOMAIN schemas |-> PatchedNested(schemas[id], id, ops)]]
  BY Zenon DEF PatchedSchema, root
<1>5. PatchedSchema(a, ops)
        = [name |-> b.name, description |-> b.description, fields |-> b.fields,
           indexes |-> b.indexes, constraints |-> b.constraints, metadata |-> b.metadata,
           schemas |-> b.schemas]
  BY <1>2, <1>4, <1>6, <1>7
<1> QED
  BY <1>5, AuthoredShapes

LEMMA DiffTurns ==
  ASSUME NEW a, Authored(a), NEW b, Authored(b)
  PROVE  /\ \A kind, path, v : Says(JoinOps({c.forward : c \in SchemaDiff(a, b)}), kind, path, v)
                                 <=> Means(a, b, kind, path, v)
         /\ \A kind, path, v : Says(JoinOps({c.backward : c \in SchemaDiff(a, b)}), kind, path, v)
                                 <=> Means(b, a, kind, path, v)
<1> DEFINE F == {c.forward : c \in SchemaDiff(a, b)}
           B == {c.backward : c \in SchemaDiff(a, b)}
<1>1. \A kind, path, v : (\E ops \in F : Says(ops, kind, path, v)) <=> Means(a, b, kind, path, v)
  BY DiffForward
<1>2. \A kind, path, v : (\E ops \in B : Says(ops, kind, path, v)) <=> Means(b, a, kind, path, v)
  BY DiffBackward
<1> HIDE DEF F, B
<1>3. \A f, g \in F : \A kind, path, v, w : Says(f, kind, path, v) /\ Says(g, kind, path, w) => v = w
  BY <1>1, MeansAgrees
<1>4. \A f, g \in B : \A kind, path, v, w : Says(f, kind, path, v) /\ Says(g, kind, path, w) => v = w
  BY <1>2, MeansAgrees
<1>5. \A kind, path, v : Says(JoinOps(F), kind, path, v) <=> \E ops \in F : Says(ops, kind, path, v)
  BY <1>3, JoinOpsSay
<1>6. \A kind, path, v : Says(JoinOps(B), kind, path, v) <=> \E ops \in B : Says(ops, kind, path, v)
  BY <1>4, JoinOpsSay
<1>7. /\ \A kind, path, v : Says(JoinOps(F), kind, path, v) <=> Means(a, b, kind, path, v)
      /\ \A kind, path, v : Says(JoinOps(B), kind, path, v) <=> Means(b, a, kind, path, v)
  BY <1>1, <1>2, <1>5, <1>6
<1> QED
  BY <1>7 DEF F, B

LEMMA UncomparedBothWays ==
  ASSUME NEW a, NEW b, ~Uncompared(a, b)
  PROVE  ~Uncompared(b, a)
BY DEF Uncompared, UncomparedRules

----------------------------------------------------------------------------
(* Migrations.                                                             *)

PlanOf(p, a) ==
  /\ p = [target |-> p.target, diff |-> p.diff, left |-> p.left, bump |-> p.bump, phase |-> p.phase]
  /\ p.target \in SchemaRevisions /\ p.diff = SchemaDiff(a, p.target)
  /\ p.left \subseteq p.diff /\ p.bump = VersionImpact(p.diff)

PlanOK == activeSchema \in SchemaRevisions /\ (plan # <<>> => PlanOf(plan, activeSchema))

LEMMA PlanInductive == EvolutionSpec => []PlanOK
<1>1. EvolutionInit => PlanOK
  BY DEF EvolutionInit, EvolvingFrom, PlanOK
<1>2. PlanOK /\ [EvolutionNext]_evolutionVars => PlanOK'
  <2> SUFFICES ASSUME PlanOK, [EvolutionNext]_evolutionVars
               PROVE  PlanOK'
    OBVIOUS
  <2>1. ASSUME NEW target \in SchemaRevisions, NEW asked, StartMigration(target, asked)
        PROVE  PlanOK'
    <3> DEFINE diff == SchemaDiff(activeSchema, target)
               phase == IF asked = "" THEN IF AllInPlace(diff) THEN "schema_only" ELSE "ddl" ELSE asked
    <3>1. /\ plan' = [target |-> target, diff |-> diff, left |-> diff, bump |-> VersionImpact(diff),
                      phase |-> phase]
          /\ activeSchema' = activeSchema
      BY <2>1 DEF StartMigration
    <3> HIDE DEF diff, phase
    <3>2. /\ plan'.target = target /\ plan'.diff = diff /\ plan'.left = diff
          /\ plan'.bump = VersionImpact(diff) /\ plan'.phase = phase
      BY <3>1
    <3>3. plan' = [target |-> plan'.target, diff |-> plan'.diff, left |-> plan'.left,
                   bump |-> plan'.bump, phase |-> plan'.phase]
      BY <3>1, <3>2
    <3> QED
      BY <3>1, <3>2, <3>3 DEF PlanOK, PlanOf, diff
  <2>2. ASSUME NEW change \in plan.left, InPlace, RunStatement(change)
        PROVE  PlanOK'
    <3>1. plan' = [plan EXCEPT !.left = @ \ {change}] /\ activeSchema' = activeSchema
      BY <2>2 DEF RunStatement
    <3>2. PlanOf(plan, activeSchema)
      BY <2>2 DEF InPlace, PlanOK
    <3> QED
      BY <3>1, <3>2 DEF PlanOK, PlanOf
  <2>3. ASSUME NEW change \in plan.left, InPlace, StatementStops(change)
        PROVE  PlanOK'
    <3>1. (plan' = <<>> \/ plan' = [plan EXCEPT !.phase = "full"]) /\ activeSchema' = activeSchema
      BY <2>3 DEF StatementStops
    <3>2. PlanOf(plan, activeSchema)
      BY <2>3 DEF InPlace, PlanOK
    <3> QED
      BY <3>1, <3>2 DEF PlanOK, PlanOf
  <2>4. ASSUME NEW t, NEW u, plan # <<>>, Activate(t, u)
        PROVE  PlanOK'
    BY <2>4 DEF Activate, PlanOK, PlanOf
  <2>5. CASE UNCHANGED evolutionVars
    BY <2>5 DEF PlanOK, evolutionVars
  <2> QED
    BY <2>1, <2>2, <2>3, <2>4, <2>5 DEF EvolutionNext, FinishInPlace, MigrateWithCopy, InPlace
<1> QED
  BY <1>1, <1>2, PTL DEF EvolutionSpec

(* DiffInverts, for every set of revisions: the operations a migration is  *)
(* planned from turn the active schema into the target, and those kept     *)
(* for the way back turn the target into it.                               *)
THEOREM DiffsInvert == EvolutionSpec => []DiffInverts
<1>1. PlanOK => DiffInverts
  <2> SUFFICES ASSUME PlanOK, plan # <<>>, ~Uncompared(activeSchema, plan.target)
               PROVE  /\ PatchedSchema(activeSchema, JoinOps({c.forward : c \in plan.diff})) = plan.target
                      /\ PatchedSchema(plan.target, JoinOps({c.backward : c \in plan.diff})) = activeSchema
    BY DEF DiffInverts
  <2>1. /\ Authored(activeSchema) /\ Authored(plan.target)
        /\ plan.diff = SchemaDiff(activeSchema, plan.target)
    BY RevisionsAssumption DEF PlanOK, PlanOf
  <2> QED
    BY <2>1, DiffTurns, SchemaBecomes, UncomparedBothWays
<1> QED
  BY <1>1, PlanInductive, PTL

----------------------------------------------------------------------------
(* What a bump that is not major rules out.                                *)

Bumps == {1, 2, 3}

LEMMA MaxOfBumps ==
  ASSUME NEW S, S \subseteq Bumps, 1 \in S
  PROVE  Max(S) \in S /\ \A n \in S : Max(S) >= n
<1>1. \E x \in S : \A y \in S : x >= y
  <2>1. CASE 3 \in S
    BY <2>1 DEF Bumps
  <2>2. CASE 3 \notin S /\ 2 \in S
    BY <2>2 DEF Bumps
  <2>3. CASE 3 \notin S /\ 2 \notin S
    BY <2>3 DEF Bumps
  <2> QED
    BY <2>1, <2>2, <2>3
<1>2. Max(S) = CHOOSE x \in S : \A y \in S : x >= y
  BY DEF Max
<1> QED
  BY <1>1, <1>2

LEMMA ImpactsAreBumps ==
  /\ \A of, e : AddImpact(of, e) \in Bumps
  /\ \A of, e : RemoveImpact(of, e) \in Bumps
  /\ \A path, v : SetImpact(path, v) \in Bumps
<1>1. ASSUME NEW of, NEW e
      PROVE  AddImpact(of, e) \in Bumps /\ RemoveImpact(of, e) \in Bumps
  BY DEF AddImpact, RemoveImpact, Bumps
<1>2. ASSUME NEW path, NEW v
      PROVE  SetImpact(path, v) \in Bumps
  BY DEF SetImpact, Bumps
<1> QED
  BY <1>1, <1>2

RemovedImpact(change, path) ==
  IF IsNestedEntityPath(path) THEN 3 ELSE RemoveImpact(path.of, change.backward.add[path])

ImpactsOf(c) ==
  {1} \union {AddImpact(p.of, c.forward.add[p]) : p \in DOMAIN c.forward.add}
      \union {RemovedImpact(c, p) : p \in c.forward.remove}
      \union {SetImpact(p, c.forward.set[p]) : p \in DOMAIN c.forward.set}

LEMMA ChangeImpacts ==
  ASSUME NEW c
  PROVE  ChangeImpact(c) \in Bumps /\ \A n \in ImpactsOf(c) : ChangeImpact(c) >= n
<1>1. ChangeImpact(c) = Max(ImpactsOf(c))
  BY DEF ChangeImpact, ImpactsOf, RemovedImpact
<1>2. \A p : RemovedImpact(c, p) \in Bumps
  BY ImpactsAreBumps DEF RemovedImpact, Bumps
<1>3. ImpactsOf(c) \subseteq Bumps /\ 1 \in ImpactsOf(c)
  <2>1. 1 \in ImpactsOf(c)
    BY DEF ImpactsOf
  <2>2. 1 \in Bumps
    BY DEF Bumps
  <2>3. ImpactsOf(c) \subseteq Bumps
    BY <1>2, <2>2, ImpactsAreBumps DEF ImpactsOf
  <2> QED
    BY <2>1, <2>3
<1> QED
  BY <1>1, <1>3, MaxOfBumps

LEMMA MinorImpacts ==
  ASSUME NEW diff, VersionImpact(diff) < 3, NEW c \in diff, NEW n \in ImpactsOf(c)
  PROVE  n # 3
<1> DEFINE S == {1} \union {ChangeImpact(d) : d \in diff}
<1>1. \A d \in diff : ChangeImpact(d) \in Bumps
  BY ChangeImpacts
<1>2. S \subseteq Bumps /\ 1 \in S /\ ChangeImpact(c) \in S
  BY <1>1 DEF Bumps
<1>3. VersionImpact(diff) = Max(S)
  BY DEF VersionImpact
<1> HIDE DEF S
<1>4. Max(S) \in Bumps /\ Max(S) >= ChangeImpact(c)
  BY <1>2, MaxOfBumps
<1>5. ChangeImpact(c) >= n /\ ChangeImpact(c) \in Bumps
  BY ChangeImpacts
<1> QED
  BY <1>3, <1>4, <1>5 DEF Bumps

(* A change with a major operation makes the bump major.                   *)
LEMMA MinorMeans ==
  ASSUME NEW a, Authored(a), NEW b, Authored(b), VersionImpact(SchemaDiff(a, b)) < 3, NEW path, NEW v
  PROVE  /\ Means(a, b, "add", path, v) => AddImpact(path.of, v) # 3
         /\ Means(a, b, "remove", path, v) => ~IsNestedEntityPath(path) /\ path.of \notin {"fields", "schemas"}
         /\ Means(a, b, "set", path, v) => SetImpact(path, v) # 3
<1>1. ASSUME Means(a, b, "add", path, v)
      PROVE  AddImpact(path.of, v) # 3
  <2>1. PICK c \in SchemaDiff(a, b) : Says(c.forward, "add", path, v)
    BY <1>1, DiffForward
  <2>2. AddImpact(path.of, v) \in ImpactsOf(c)
    BY <2>1 DEF Says, ImpactsOf
  <2> QED
    BY <2>2, MinorImpacts
<1>2. ASSUME Means(a, b, "remove", path, v)
      PROVE  ~IsNestedEntityPath(path) /\ path.of \notin {"fields", "schemas"}
  <2>1. PICK c \in SchemaDiff(a, b) : Says(c.forward, "remove", path, v)
    BY <1>2, DiffForward
  <2>2. RemovedImpact(c, path) \in ImpactsOf(c)
    BY <2>1 DEF Says, ImpactsOf
  <2>3. RemovedImpact(c, path) # 3
    BY <2>2, MinorImpacts
  <2> QED
    BY <2>3 DEF RemovedImpact, RemoveImpact
<1>3. ASSUME Means(a, b, "set", path, v)
      PROVE  SetImpact(path, v) # 3
  <2>1. PICK c \in SchemaDiff(a, b) : Says(c.forward, "set", path, v)
    BY <1>3, DiffForward
  <2>2. SetImpact(path, v) \in ImpactsOf(c)
    BY <2>1 DEF Says, ImpactsOf
  <2> QED
    BY <2>2, MinorImpacts
<1> QED
  BY <1>1, <1>2, <1>3

(* The collection x becomes y without a major operation.                   *)
Minor(within, of, x, y) ==
  /\ \A id \in DOMAIN y \ DOMAIN x : AddImpact(of, y[id]) # 3
  /\ \A id \in DOMAIN x \intersect DOMAIN y : \A p \in Changed(of, x[id], y[id]) :
       SetImpact(EvolutionPath(within, id, of, p), PropertyOf(y[id], p)) # 3

LEMMA MinorCollections ==
  ASSUME NEW a, Authored(a), NEW b, Authored(b), VersionImpact(SchemaDiff(a, b)) < 3
  PROVE  /\ \A of \in Collections : Minor({}, of, a[of], b[of])
         /\ \A of \in {"fields", "schemas"} : DOMAIN a[of] \subseteq DOMAIN b[of]
         /\ \A id \in DOMAIN a.schemas \intersect DOMAIN b.schemas :
              Minor({id}, "fields", a.schemas[id].fields, b.schemas[id].fields)
<1>1. ASSUME NEW within, NEW of, NEW x, NEW y,
             \A kind, path, v : Step(within, of, x, y, kind, path, v) => Means(a, b, kind, path, v)
      PROVE  Minor(within, of, x, y)
  <2>1. ASSUME NEW id \in DOMAIN y \ DOMAIN x
        PROVE  AddImpact(of, y[id]) # 3
    <3> DEFINE path == EvolutionPath(within, id, of, "")
    <3>1. Step(within, of, x, y, "add", path, y[id])
      BY DEF Step
    <3>2. path.of = of
      BY DEF EvolutionPath
    <3>3. Means(a, b, "add", path, y[id])
      BY <1>1, <3>1
    <3> HIDE DEF path
    <3> QED
      BY <3>2, <3>3, MinorMeans
  <2>2. ASSUME NEW id \in DOMAIN x \intersect DOMAIN y, NEW p \in Changed(of, x[id], y[id])
        PROVE  SetImpact(EvolutionPath(within, id, of, p), PropertyOf(y[id], p)) # 3
    <3>1. Step(within, of, x, y, "set", EvolutionPath(within, id, of, p), PropertyOf(y[id], p))
      BY DEF Step
    <3>2. Means(a, b, "set", EvolutionPath(within, id, of, p), PropertyOf(y[id], p))
      BY <1>1, <3>1
    <3> QED
      BY <3>2, MinorMeans
  <2> QED
    BY <2>1, <2>2 DEF Minor
<1>2. \A of \in Collections : Minor({}, of, a[of], b[of])
  BY <1>1 DEF Means
<1>3. ASSUME NEW of \in {"fields", "schemas"}, NEW id \in DOMAIN a[of] \ DOMAIN b[of]
      PROVE  FALSE
  <2> DEFINE path == EvolutionPath({}, id, of, "")
  <2>1. Step({}, of, a[of], b[of], "remove", path, "")
    BY DEF Step
  <2>2. path.of = of
    BY DEF EvolutionPath
  <2>3. Means(a, b, "remove", path, "")
    BY <2>1 DEF Means, Collections, NestedCollections
  <2> HIDE DEF path
  <2> QED
    BY <2>2, <2>3, MinorMeans
<1>4. ASSUME NEW id \in DOMAIN a.schemas \intersect DOMAIN b.schemas
      PROVE  Minor({id}, "fields", a.schemas[id].fields, b.schemas[id].fields)
  <2>1. \A kind, path, v : Step({id}, "fields", a.schemas[id]["fields"], b.schemas[id]["fields"], kind, path, v)
                             => Means(a, b, kind, path, v)
    BY DEF Means, InnerStep, NestedCollections
  <2> QED
    BY <1>1, <2>1
<1> QED
  BY <1>2, <1>3, <1>4

LEMMA MinorFields ==
  ASSUME NEW within, NEW x, NEW y, Minor(within, "fields", x, y),
         ShapedCollection("fields", x), ShapedCollection("fields", y)
  PROVE  /\ \A id \in DOMAIN y \ DOMAIN x : ~y[id].required
         /\ \A id \in DOMAIN x \intersect DOMAIN y :
              /\ y[id].name = x[id].name /\ y[id].type = x[id].type /\ y[id].schema = x[id].schema
              /\ y[id].required => x[id].required
              /\ y[id].unique => x[id].unique
<1>1. ASSUME NEW id \in DOMAIN y \ DOMAIN x
      PROVE  ~y[id].required
  BY <1>1 DEF Minor, AddImpact
<1>2. ASSUME NEW id \in DOMAIN x \intersect DOMAIN y
      PROVE  /\ y[id].name = x[id].name /\ y[id].type = x[id].type /\ y[id].schema = x[id].schema
             /\ y[id].required => x[id].required
             /\ y[id].unique => x[id].unique
  <2>1. Shaped("fields", x[id]) /\ Shaped("fields", y[id])
    BY DEF ShapedCollection
  <2>2. /\ DOMAIN x[id] = ComparedOfField /\ DOMAIN y[id] = ComparedOfField
        /\ {x[id].required, x[id].unique, y[id].required, y[id].unique} \subseteq BOOLEAN
        /\ ComparedProperties("fields", x[id], y[id]) = ComparedOfField
    BY <2>1 DEF Shaped, IsRecord, ComparedOfField, EvolvingField, ComparedProperties
  <2>3. ASSUME NEW p \in ComparedOfField, x[id][p] # y[id][p]
        PROVE  SetImpact(EvolutionPath(within, id, "fields", p), y[id][p]) # 3
    <3>1. p \in Changed("fields", x[id], y[id]) /\ PropertyOf(y[id], p) = y[id][p]
      BY <2>2, <2>3 DEF Changed, PropertyOf
    <3> QED
      BY <3>1 DEF Minor
  <2>4. ASSUME NEW p
        PROVE  EvolutionPath(within, id, "fields", p).of = "fields" /\ EvolutionPath(within, id, "fields", p).prop = p
    BY DEF EvolutionPath
  <2>5. ASSUME NEW p \in {"name", "type", "schema"}
        PROVE  x[id][p] = y[id][p]
    <3>1. SetImpact(EvolutionPath(within, id, "fields", p), y[id][p]) = 3
      BY <2>4 DEF SetImpact
    <3> QED
      BY <2>3, <3>1 DEF ComparedOfField
  <2>6. ASSUME NEW p \in {"required", "unique"}, y[id][p] = TRUE
        PROVE  x[id][p] = y[id][p]
    <3>1. SetImpact(EvolutionPath(within, id, "fields", p), y[id][p]) = 3
      BY <2>4, <2>6 DEF SetImpact
    <3> QED
      BY <2>3, <3>1 DEF ComparedOfField
  <2> QED
    BY <2>2, <2>5, <2>6
<1> QED
  BY <1>1, <1>2

LEMMA MinorIndexes ==
  ASSUME NEW x, NEW y, Minor({}, "indexes", x, y),
         ShapedCollection("indexes", x), ShapedCollection("indexes", y)
  PROVE  /\ \A id \in DOMAIN y \ DOMAIN x : ~y[id].unique
         /\ \A id \in DOMAIN x \intersect DOMAIN y :
              y[id].fields = x[id].fields /\ (y[id].unique => x[id].unique)
<1>1. ASSUME NEW id \in DOMAIN y \ DOMAIN x
      PROVE  ~y[id].unique
  BY <1>1 DEF Minor, AddImpact
<1>2. ASSUME NEW id \in DOMAIN x \intersect DOMAIN y
      PROVE  y[id].fields = x[id].fields /\ (y[id].unique => x[id].unique)
  <2> DEFINE props == {"name", "description", "type", "order", "unique", "fields", "condition"}
  <2>1. Shaped("indexes", x[id]) /\ Shaped("indexes", y[id])
    BY DEF ShapedCollection
  <2>2. /\ DOMAIN x[id] = props /\ DOMAIN y[id] = props
        /\ x[id].unique \in BOOLEAN /\ y[id].unique \in BOOLEAN
        /\ ComparedProperties("indexes", x[id], y[id]) = props
    BY <2>1 DEF Shaped, IsRecord, EvolvingIndex, ComparedProperties
  <2>3. ASSUME NEW p \in props, x[id][p] # y[id][p]
        PROVE  SetImpact(EvolutionPath({}, id, "indexes", p), y[id][p]) # 3
    <3>1. p \in Changed("indexes", x[id], y[id]) /\ PropertyOf(y[id], p) = y[id][p]
      BY <2>2, <2>3 DEF Changed, PropertyOf
    <3> QED
      BY <3>1 DEF Minor
  <2>4. ASSUME NEW p
        PROVE  EvolutionPath({}, id, "indexes", p).of = "indexes" /\ EvolutionPath({}, id, "indexes", p).prop = p
    BY DEF EvolutionPath
  <2>5. SetImpact(EvolutionPath({}, id, "indexes", "fields"), y[id]["fields"]) = 3
    BY <2>4 DEF SetImpact
  <2>6. y[id]["unique"] = TRUE => SetImpact(EvolutionPath({}, id, "indexes", "unique"), y[id]["unique"]) = 3
    BY <2>4 DEF SetImpact
  <2> QED
    BY <2>2, <2>3, <2>5, <2>6
<1> QED
  BY <1>1, <1>2

LEMMA MinorConstraints ==
  ASSUME NEW x, NEW y, Minor({}, "constraints", x, y),
         ShapedCollection("constraints", x), ShapedCollection("constraints", y)
  PROVE  /\ DOMAIN y \subseteq DOMAIN x
         /\ \A id \in DOMAIN y :
              x[id].union.kind = y[id].union.kind /\ y[id].union.kind = "rule" =>
                /\ x[id].union.fields = y[id].union.fields
                /\ x[id].union.predicate = y[id].union.predicate
<1>1. DOMAIN y \subseteq DOMAIN x
  BY DEF Minor, AddImpact
<1>2. ASSUME NEW id \in DOMAIN y, x[id].union.kind = y[id].union.kind, y[id].union.kind = "rule",
             NEW p \in {"fields", "predicate"}
      PROVE  x[id].union[p] = y[id].union[p]
  <2>1. Shaped("constraints", x[id]) /\ Shaped("constraints", y[id])
    BY <1>1 DEF ShapedCollection
  <2>2. p \notin DOMAIN x[id] /\ p \notin DOMAIN y[id]
    <3>1. DOMAIN x[id] = {"name", "description", "union"} /\ DOMAIN y[id] = {"name", "description", "union"}
      BY <2>1, ConstraintShape
    <3> QED
      BY <3>1
  <2>3. PropertyOf(x[id], p) = x[id].union[p] /\ PropertyOf(y[id], p) = y[id].union[p]
    BY <2>2 DEF PropertyOf
  <2>4. p \in ComparedProperties("constraints", x[id], y[id])
    BY <1>2 DEF ComparedProperties
  <2>5. EvolutionPath({}, id, "constraints", p).of = "constraints" /\ EvolutionPath({}, id, "constraints", p).prop = p
    BY DEF EvolutionPath
  <2>6. SetImpact(EvolutionPath({}, id, "constraints", p), y[id].union[p]) = 3
    BY <2>5 DEF SetImpact
  <2>7. p \notin Changed("constraints", x[id], y[id])
    BY <1>1, <2>3, <2>6 DEF Minor
  <2> QED
    BY <2>3, <2>4, <2>7 DEF Changed
<1> QED
  BY <1>1, <1>2

LEMMA MinorSchemas ==
  ASSUME NEW x, NEW y, Minor({}, "schemas", x, y)
  PROVE  DOMAIN y \subseteq DOMAIN x
BY DEF Minor, AddImpact

(* b is reached from a by a migration that is not major.                   *)
MinorStep(a, b) ==
  /\ Authored(a) /\ Authored(b) /\ VersionImpact(SchemaDiff(a, b)) < 3 /\ ~Uncounted(a, b)

LEMMA MinorFacts ==
  ASSUME NEW a, NEW b, MinorStep(a, b)
  PROVE  /\ DOMAIN a.fields \subseteq DOMAIN b.fields
         /\ \A id \in DOMAIN b.fields \ DOMAIN a.fields : ~b.fields[id].required
         /\ \A id \in DOMAIN a.fields :
              /\ b.fields[id].name = a.fields[id].name /\ b.fields[id].type = a.fields[id].type
              /\ b.fields[id].schema = a.fields[id].schema
              /\ b.fields[id].required => a.fields[id].required
              /\ b.fields[id].unique => a.fields[id].unique
              /\ a.fields[id].nullable => b.fields[id].nullable
         /\ \A id \in DOMAIN b.fields \ DOMAIN a.fields, other \in DOMAIN a.fields :
              b.fields[id].name # a.fields[other].name
<1>1. Minor({}, "fields", a.fields, b.fields) /\ DOMAIN a.fields \subseteq DOMAIN b.fields
  <2>1. Minor({}, "fields", a["fields"], b["fields"]) /\ DOMAIN a["fields"] \subseteq DOMAIN b["fields"]
    BY MinorCollections DEF MinorStep, Collections, NestedCollections
  <2> QED
    BY <2>1
<1>2. ShapedCollection("fields", a.fields) /\ ShapedCollection("fields", b.fields)
  <2>1. ShapedCollection("fields", a["fields"]) /\ ShapedCollection("fields", b["fields"])
    BY AuthoredShapes DEF MinorStep, Collections, NestedCollections
  <2> QED
    BY <2>1
<1>3. /\ \A id \in DOMAIN b.fields \ DOMAIN a.fields : ~b.fields[id].required
      /\ \A id \in DOMAIN a.fields \intersect DOMAIN b.fields :
           /\ b.fields[id].name = a.fields[id].name /\ b.fields[id].type = a.fields[id].type
           /\ b.fields[id].schema = a.fields[id].schema
           /\ b.fields[id].required => a.fields[id].required
           /\ b.fields[id].unique => a.fields[id].unique
  BY <1>1, <1>2, MinorFields
<1>4. \A id \in DOMAIN a.fields : a.fields[id].nullable => b.fields[id].nullable
  BY <1>1 DEF MinorStep, Uncounted
<1>5. \A id \in DOMAIN b.fields \ DOMAIN a.fields, other \in DOMAIN a.fields :
        b.fields[id].name # a.fields[other].name
  BY DEF MinorStep, Uncounted
<1> QED
  BY <1>1, <1>3, <1>4, <1>5

(* The schema a field refers to asks no more of an object than it did.     *)
LEMMA MinorNested ==
  ASSUME NEW a, NEW b, MinorStep(a, b), NEW sid \in DOMAIN b.schemas
  PROVE  /\ sid \in DOMAIN a.schemas
         /\ \A id \in DOMAIN b.schemas[sid].fields : b.schemas[sid].fields[id].required =>
              /\ id \in DOMAIN a.schemas[sid].fields /\ a.schemas[sid].fields[id].required
              /\ a.schemas[sid].fields[id].name = b.schemas[sid].fields[id].name
<1>1. sid \in DOMAIN a.schemas
  <2>1. Minor({}, "schemas", a["schemas"], b["schemas"])
    BY MinorCollections DEF MinorStep, Collections
  <2> QED
    BY <2>1, MinorSchemas
<1>2. Minor({sid}, "fields", a.schemas[sid].fields, b.schemas[sid].fields)
  BY <1>1, MinorCollections DEF MinorStep
<1>3. ShapedCollection("fields", a.schemas[sid].fields) /\ ShapedCollection("fields", b.schemas[sid].fields)
  <2>1. ShapedCollection("fields", a.schemas[sid]["fields"]) /\ ShapedCollection("fields", b.schemas[sid]["fields"])
    BY <1>1, AuthoredShapes DEF MinorStep, NestedCollections
  <2> QED
    BY <2>1
<1> QED
  BY <1>1, <1>2, <1>3, MinorFields

LEMMA TypeStillFits ==
  ASSUME NEW a, NEW b, MinorStep(a, b), NEW f, NEW g, NEW value,
         g.type = f.type, g.schema = f.schema, f.nullable => g.nullable, TypeFits(a, f, value)
  PROVE  TypeFits(b, g, value)
<1>1. CASE value.is = "null"
  BY <1>1 DEF TypeFits
<1>2. CASE value.is = "object"
  <2>1. /\ f.type = "object"
        /\ \A sid \in {f.schema} \intersect DOMAIN a.schemas :
             \A id \in DOMAIN a.schemas[sid].fields :
               a.schemas[sid].fields[id].required => a.schemas[sid].fields[id].name \in value.keys
    BY <1>2 DEF TypeFits
  <2>2. ASSUME NEW sid \in {g.schema} \intersect DOMAIN b.schemas,
               NEW id \in DOMAIN b.schemas[sid].fields, b.schemas[sid].fields[id].required
        PROVE  b.schemas[sid].fields[id].name \in value.keys
    <3>1. /\ sid \in DOMAIN a.schemas /\ id \in DOMAIN a.schemas[sid].fields
          /\ a.schemas[sid].fields[id].required
          /\ a.schemas[sid].fields[id].name = b.schemas[sid].fields[id].name
      BY <2>2, MinorNested
    <3> QED
      BY <2>1, <3>1
  <2> QED
    BY <1>2, <2>1, <2>2 DEF TypeFits
<1>3. CASE value.is # "null" /\ value.is # "object"
  BY <1>3 DEF TypeFits
<1> QED
  BY <1>1, <1>2, <1>3

LEMMA RulesStillHold ==
  ASSUME NEW a, NEW b, MinorStep(a, b), NEW doc,
         \A id \in DOMAIN a.constraints : RuleHolds(a.constraints[id], doc)
  PROVE  \A id \in DOMAIN b.constraints : RuleHolds(b.constraints[id], doc)
<1>1. Minor({}, "constraints", a["constraints"], b["constraints"])
  BY MinorCollections DEF MinorStep, Collections, NestedCollections
<1>2. ShapedCollection("constraints", a["constraints"]) /\ ShapedCollection("constraints", b["constraints"])
  BY AuthoredShapes DEF MinorStep, Collections, NestedCollections
<1>3. /\ DOMAIN b.constraints \subseteq DOMAIN a.constraints
      /\ \A id \in DOMAIN b.constraints :
           a.constraints[id].union.kind = b.constraints[id].union.kind
           /\ b.constraints[id].union.kind = "rule" =>
             /\ a.constraints[id].union.fields = b.constraints[id].union.fields
             /\ a.constraints[id].union.predicate = b.constraints[id].union.predicate
  BY <1>1, <1>2, MinorConstraints
<1>4. \A id \in DOMAIN b.constraints : a.constraints[id].union.kind = b.constraints[id].union.kind
  BY <1>3 DEF MinorStep, Uncounted
<1>5. ASSUME NEW id \in DOMAIN b.constraints
      PROVE  RuleHolds(b.constraints[id], doc)
  <2>1. RuleHolds(a.constraints[id], doc)
    BY <1>3
  <2> QED
    BY <1>3, <1>4, <2>1 DEF RuleHolds
<1> QED
  BY <1>5

LEMMA DocumentStillFits ==
  ASSUME NEW a, NEW b, MinorStep(a, b), NEW doc, AcceptsDocument(a, doc)
  PROVE  AcceptsDocument(b, doc)
<1>1. \A n \in DOMAIN doc : \E id \in DOMAIN b.fields : b.fields[id].name = n
  BY MinorFacts DEF AcceptsDocument
<1>2. ASSUME NEW id \in DOMAIN b.fields
      PROVE  IF b.fields[id].name \in DOMAIN doc THEN TypeFits(b, b.fields[id], doc[b.fields[id].name])
             ELSE ~b.fields[id].required
  <2>1. CASE id \in DOMAIN a.fields
    <3>1. IF a.fields[id].name \in DOMAIN doc THEN TypeFits(a, a.fields[id], doc[a.fields[id].name])
          ELSE ~a.fields[id].required
      BY <2>1 DEF AcceptsDocument
    <3>2. /\ b.fields[id].name = a.fields[id].name /\ b.fields[id].type = a.fields[id].type
          /\ b.fields[id].schema = a.fields[id].schema
          /\ b.fields[id].required => a.fields[id].required
          /\ a.fields[id].nullable => b.fields[id].nullable
      BY <2>1, MinorFacts
    <3>3. CASE a.fields[id].name \in DOMAIN doc
      <4>1. TypeFits(b, b.fields[id], doc[a.fields[id].name])
        BY <3>1, <3>2, <3>3, TypeStillFits
      <4> QED
        BY <3>2, <3>3, <4>1
    <3>4. CASE a.fields[id].name \notin DOMAIN doc
      BY <3>1, <3>2, <3>4
    <3> QED
      BY <3>3, <3>4
  <2>2. CASE id \notin DOMAIN a.fields
    <3>1. ~b.fields[id].required /\ \A other \in DOMAIN a.fields : b.fields[id].name # a.fields[other].name
      BY <2>2, MinorFacts
    <3>2. b.fields[id].name \notin DOMAIN doc
      BY <3>1 DEF AcceptsDocument
    <3> QED
      BY <3>1, <3>2
  <2> QED
    BY <2>1, <2>2
<1>3. \A id \in DOMAIN b.constraints : RuleHolds(b.constraints[id], doc)
  BY RulesStillHold DEF AcceptsDocument
<1> QED
  BY <1>1, <1>2, <1>3 DEF AcceptsDocument

LEMMA TuplesStillUnique ==
  ASSUME NEW a, NEW b, MinorStep(a, b), NEW tuple \in UniqueTuples(b)
  PROVE  \/ tuple \in UniqueTuples(a)
         \/ \E id \in DOMAIN b.fields \ DOMAIN a.fields : tuple = <<b.fields[id].name>>
<1>1. ASSUME NEW id \in DOMAIN b.fields, b.fields[id].unique, tuple = <<b.fields[id].name>>
      PROVE  \/ tuple \in UniqueTuples(a)
             \/ \E i \in DOMAIN b.fields \ DOMAIN a.fields : tuple = <<b.fields[i].name>>
  BY <1>1, MinorFacts DEF UniqueTuples
<1>2. ASSUME NEW id \in DOMAIN b.indexes, IsUnique(b.indexes[id]), tuple = b.indexes[id].fields
      PROVE  tuple \in UniqueTuples(a)
  <2>1. Minor({}, "indexes", a["indexes"], b["indexes"])
    BY MinorCollections DEF MinorStep, Collections, NestedCollections
  <2>2. ShapedCollection("indexes", a["indexes"]) /\ ShapedCollection("indexes", b["indexes"])
    BY AuthoredShapes DEF MinorStep, Collections, NestedCollections
  <2>3. /\ \A i \in DOMAIN b.indexes \ DOMAIN a.indexes : ~b.indexes[i].unique
        /\ \A i \in DOMAIN a.indexes \intersect DOMAIN b.indexes :
             b.indexes[i].fields = a.indexes[i].fields /\ (b.indexes[i].unique => a.indexes[i].unique)
    BY <2>1, <2>2, MinorIndexes
  <2>4. id \in DOMAIN a.indexes /\ IsUnique(a.indexes[id])
    <3>1. CASE b.indexes[id].unique
      BY <2>3, <3>1 DEF IsUnique
    <3>2. CASE ~b.indexes[id].unique
      BY <1>2, <3>2 DEF MinorStep, Uncounted
    <3> QED
      BY <3>1, <3>2
  <2> QED
    BY <1>2, <2>3, <2>4 DEF UniqueTuples
<1> QED
  BY <1>1, <1>2 DEF UniqueTuples

LEMMA DocumentsStillFit ==
  ASSUME NEW a, NEW b, MinorStep(a, b), NEW docs, AcceptsAll(a, docs)
  PROVE  AcceptsAll(b, docs)
<1>1. \A i \in DOMAIN docs : AcceptsDocument(b, docs[i])
  BY DocumentStillFits DEF AcceptsAll
<1>2. ASSUME NEW tuple \in UniqueTuples(b), NEW i \in DOMAIN docs, NEW j \in DOMAIN docs,
             i # j, Range(tuple) \subseteq DOMAIN docs[i] \intersect DOMAIN docs[j]
      PROVE  \E n \in Range(tuple) : docs[i][n] # docs[j][n]
  <2>1. CASE tuple \in UniqueTuples(a)
    BY <1>2, <2>1 DEF AcceptsAll, HeldApart
  <2>2. ASSUME NEW id \in DOMAIN b.fields \ DOMAIN a.fields, tuple = <<b.fields[id].name>>
        PROVE  FALSE
    <3>1. b.fields[id].name \in Range(tuple)
      BY <2>2 DEF Range
    <3>2. b.fields[id].name \in DOMAIN docs[i]
      BY <1>2, <3>1
    <3>3. \E other \in DOMAIN a.fields : a.fields[other].name = b.fields[id].name
      BY <3>2 DEF AcceptsAll, AcceptsDocument
    <3> QED
      BY <3>3, MinorFacts
  <2> QED
    BY <2>1, <2>2, TuplesStillUnique
<1> QED
  BY <1>1, <1>2 DEF AcceptsAll, HeldApart

(* MinorKeepsDocuments, for every set of revisions and of documents: what  *)
(* is valid in the active schema stays valid in the target of a migration  *)
(* whose bump is not major.                                                *)
THEOREM MinorsKeepDocuments == EvolutionSpec => []MinorKeepsDocuments
<1>1. PlanOK => MinorKeepsDocuments
  <2> SUFFICES ASSUME PlanOK, plan # <<>>, plan.bump < 3, ~Uncounted(activeSchema, plan.target),
                      NEW docs \in StoredDocuments, AcceptsAll(activeSchema, docs)
               PROVE  AcceptsAll(plan.target, docs)
    BY DEF MinorKeepsDocuments
  <2>1. MinorStep(activeSchema, plan.target)
    BY RevisionsAssumption DEF PlanOK, PlanOf, MinorStep
  <2> QED
    BY <2>1, DocumentsStillFit
<1> QED
  BY <1>1, PlanInductive, PTL

----------------------------------------------------------------------------
(* What a statement does to the table of a schema on its way to another.   *)

Tabled == {"fields", "indexes"}

ChangeIn(of, a, b, id) == EntityChange(of, a[of], b[of], id)

LEMMA TabledCollections == Tabled \subseteq Collections /\ "schemas" \notin Tabled
BY DEF Tabled, Collections, NestedCollections

LEMMA ChangeParts ==
  ASSUME NEW of, NEW a, NEW b, NEW id
  PROVE  LET c == ChangeIn(of, a, b, id)
         IN /\ c.of = of
            /\ c.kind = IF id \notin DOMAIN a[of] THEN "added"
                        ELSE IF id \notin DOMAIN b[of] THEN "removed" ELSE "modified"
            /\ c.entity = EntityName(of, a[of], b[of], id)
            /\ c.forward = OpsOf(of, a[of], b[of], id)
            /\ c.backward = OpsOf(of, b[of], a[of], id)
BY DEF ChangeIn, EntityChange, ChangeOf

LEMMA DiffOnly ==
  ASSUME NEW a, NEW b, NEW c \in SchemaDiff(a, b), c.of \in Tabled
  PROVE  \E id \in DOMAIN a[c.of] \union DOMAIN b[c.of] : c = ChangeIn(c.of, a, b, id)
<1>1. c \notin RootDiff(a, b)
  BY DEF RootDiff, ChangeOf, Tabled
<1>2. PICK of \in Collections : c \in CollectionDiff(of, a[of], b[of])
  BY <1>1 DEF SchemaDiff
<1>3. PICK id \in DOMAIN a[of] \union DOMAIN b[of] : c = ChangeIn(of, a, b, id)
  BY <1>2 DEF CollectionDiff, ChangeIn
<1>4. c.of = of
  BY <1>3, ChangeParts
<1> QED
  BY <1>3, <1>4

StepOf(of, x, y, id, kind, path, v) == Step({}, of, x, y, kind, path, v) /\ path.id = id

LEMMA TabledSays ==
  ASSUME NEW of \in Tabled, NEW x, NEW y, NEW id, NEW kind, NEW path, NEW v
  PROVE  Says(OpsOf(of, x, y, id), kind, path, v) <=> StepOf(of, x, y, id, kind, path, v)
<1>1. of # "schemas"
  BY TabledCollections
<1> QED
  BY <1>1, OpsOfSay DEF OfEntity, StepOf

(* The change of an entity is in the diff as soon as there is one.         *)
LEMMA InDiff ==
  ASSUME NEW a, Authored(a), NEW b, Authored(b), NEW of \in Tabled,
         NEW id \in DOMAIN a[of] \union DOMAIN b[of],
         ~(id \in DOMAIN a[of] \intersect DOMAIN b[of] /\ a[of][id] = b[of][id])
  PROVE  ChangeIn(of, a, b, id) \in SchemaDiff(a, b)
<1>1. ASSUME NEW kind, NEW path, NEW v, Step({}, of, a[of], b[of], kind, path, v), path.id = id
      PROVE  ChangeIn(of, a, b, id) \in SchemaDiff(a, b)
  <2>1. Says(OpsOf(of, a[of], b[of], id), kind, path, v)
    BY <1>1, TabledSays DEF StepOf
  <2> QED
    BY <2>1, DiffHas, TabledCollections DEF ChangeIn
<1>2. CASE id \in DOMAIN b[of] \ DOMAIN a[of]
  <2> DEFINE path == EvolutionPath({}, id, of, "")
  <2>1. Step({}, of, a[of], b[of], "add", path, b[of][id])
    BY <1>2 DEF Step
  <2>2. path.id = id
    BY DEF EvolutionPath
  <2> HIDE DEF path
  <2> QED
    BY <1>1, <2>1, <2>2
<1>3. CASE id \in DOMAIN a[of] \ DOMAIN b[of]
  <2> DEFINE path == EvolutionPath({}, id, of, "")
  <2>1. Step({}, of, a[of], b[of], "remove", path, "")
    BY <1>3 DEF Step
  <2>2. path.id = id
    BY DEF EvolutionPath
  <2> HIDE DEF path
  <2> QED
    BY <1>1, <2>1, <2>2
<1>4. CASE id \in DOMAIN a[of] \intersect DOMAIN b[of] /\ a[of][id] # b[of][id]
  <2>1. Shaped(of, a[of][id]) /\ Shaped(of, b[of][id])
    BY <1>4, AuthoredShapes, TabledCollections DEF ShapedCollection
  <2>2. of \in PlainCollections
    BY DEF Tabled, PlainCollections
  <2>3. /\ DOMAIN a[of][id] = DOMAIN b[of][id]
        /\ DOMAIN a[of][id] = ComparedProperties(of, a[of][id], b[of][id])
        /\ b[of][id] = [p \in DOMAIN b[of][id] |-> b[of][id][p]]
        /\ a[of][id] = [p \in DOMAIN a[of][id] |-> a[of][id][p]]
    BY <2>1, <2>2, PlainShapes
  <2>4. PICK p \in DOMAIN a[of][id] : a[of][id][p] # b[of][id][p]
    BY <1>4, <2>3
  <2>5. p \in Changed(of, a[of][id], b[of][id])
    BY <2>3, <2>4 DEF Changed, PropertyOf
  <2>6. Step({}, of, a[of], b[of], "set", EvolutionPath({}, id, of, p), PropertyOf(b[of][id], p))
    BY <1>4, <2>5 DEF Step
  <2>7. EvolutionPath({}, id, of, p).id = id
    BY PathIs
  <2> QED
    BY <1>1, <2>6, <2>7
<1> QED
  BY <1>2, <1>3, <1>4

LEMMA AddedIs ==
  ASSUME NEW of \in Tabled, NEW a, NEW b, NEW id \in DOMAIN b[of] \ DOMAIN a[of]
  PROVE  Added(ChangeIn(of, a, b, id)) = {b[of][id]}
<1> DEFINE ops == OpsOf(of, a[of], b[of], id)
           path == EvolutionPath({}, id, of, "")
<1>1. ChangeIn(of, a, b, id).forward = ops
  BY ChangeParts
<1>2. path.id = id
  BY DEF EvolutionPath
<1>3. Step({}, of, a[of], b[of], "add", path, b[of][id])
  BY DEF Step
<1>4. Says(ops, "add", path, b[of][id])
  BY <1>2, <1>3, TabledSays DEF StepOf
<1>5. path \in DOMAIN ops.add /\ ops.add[path] = b[of][id]
  BY <1>4 DEF Says
<1>6. ASSUME NEW p \in DOMAIN ops.add
      PROVE  ops.add[p] = b[of][id]
  <2>1. Says(ops, "add", p, ops.add[p])
    BY DEF Says
  <2>2. Step({}, of, a[of], b[of], "add", p, ops.add[p]) /\ p.id = id
    BY <2>1, TabledSays DEF StepOf
  <2>3. PICK i : p = EvolutionPath({}, i, of, "") /\ ops.add[p] = b[of][i]
    BY <2>2 DEF Step
  <2>4. p.id = i
    BY <2>3 DEF EvolutionPath
  <2> QED
    BY <2>2, <2>3, <2>4
<1> HIDE DEF ops, path
<1> QED
  BY <1>1, <1>5, <1>6 DEF Added

LEMMA RemovedIs ==
  ASSUME NEW of \in Tabled, NEW a, NEW b, NEW id \in DOMAIN a[of] \ DOMAIN b[of]
  PROVE  Removed(ChangeIn(of, a, b, id)) = {a[of][id]}
<1>1. Added(ChangeIn(of, b, a, id)) = {a[of][id]}
  BY AddedIs
<1>2. ChangeIn(of, a, b, id).backward = ChangeIn(of, b, a, id).forward
  BY ChangeParts
<1> QED
  BY <1>1, <1>2 DEF Added, Removed

(* What a modified entity leaves as it is.                                 *)
LEMMA ModifiedLeaves ==
  ASSUME NEW t, NEW of \in Tabled, NEW a, Authored(a), NEW b, Authored(b),
         NEW id \in DOMAIN a[of] \intersect DOMAIN b[of]
  PROVE  LET c == ChangeIn(of, a, b, id)
         IN /\ a[of][id] # b[of][id] => id \in LeftAsItIs(t, c)
            /\ a[of][id].name # b[of][id].name =>
                 /\ {a[of][id].name, b[of][id].name} \subseteq LeftAsItIs(t, c)
                 /\ \E p \in DOMAIN c.forward.set : p.prop = "name"
            /\ a[of][id].type # b[of][id].type => b[of][id].name \in LeftAsItIs(t, c)
<1> DEFINE c == ChangeIn(of, a, b, id)
<1>1. /\ c.of = of /\ c.kind = "modified" /\ c.entity = b[of][id].name
      /\ c.forward = OpsOf(of, a[of], b[of], id) /\ c.backward = OpsOf(of, b[of], a[of], id)
  BY ChangeParts DEF EntityName, Tabled
<1>2. /\ \A p \in DOMAIN c.forward.set : p.id \in LeftAsItIs(t, c)
      /\ \A ops \in {c.forward, c.backward} : \A p \in DOMAIN ops.set :
           p.prop = "name" => ops.set[p] \in LeftAsItIs(t, c)
      /\ \A p \in DOMAIN c.forward.set : p.prop = "type" => c.entity \in LeftAsItIs(t, c)
  <2>1. LeftAsItIs(t, c) = {p.id : p \in DOMAIN c.forward.set} \union Renamed(c) \union Retyped(c)
    BY <1>1 DEF LeftAsItIs, Tabled
  <2> HIDE DEF c
  <2>2. \A p \in DOMAIN c.forward.set : p.prop = "type" => c.entity \in Retyped(c)
    BY DEF Retyped
  <2>3. \A ops \in {c.forward, c.backward} : \A p \in DOMAIN ops.set :
          p.prop = "name" => ops.set[p] \in Renamed(c)
    BY DEF Renamed
  <2> QED
    BY <2>1, <2>2, <2>3
<1> HIDE DEF c
<1>3. Shaped(of, a[of][id]) /\ Shaped(of, b[of][id])
  BY AuthoredShapes, TabledCollections DEF ShapedCollection
<1>4. of \in PlainCollections
  BY DEF Tabled, PlainCollections
<1>5. /\ DOMAIN a[of][id] = DOMAIN b[of][id]
      /\ DOMAIN a[of][id] = ComparedProperties(of, a[of][id], b[of][id])
      /\ DOMAIN b[of][id] = ComparedProperties(of, b[of][id], a[of][id])
      /\ b[of][id] = [p \in DOMAIN b[of][id] |-> b[of][id][p]]
      /\ a[of][id] = [p \in DOMAIN a[of][id] |-> a[of][id][p]]
  BY <1>3, <1>4, PlainShapes
<1>6. ASSUME NEW p \in DOMAIN a[of][id], a[of][id][p] # b[of][id][p]
      PROVE  /\ \E q \in DOMAIN c.forward.set : q.id = id /\ q.prop = p /\ c.forward.set[q] = b[of][id][p]
             /\ \E q \in DOMAIN c.backward.set : q.prop = p /\ c.backward.set[q] = a[of][id][p]
  <2> DEFINE path == EvolutionPath({}, id, of, p)
  <2>1. path.id = id /\ path.prop = p
    BY PathIs
  <2>2. /\ p \in Changed(of, a[of][id], b[of][id]) /\ PropertyOf(b[of][id], p) = b[of][id][p]
        /\ p \in Changed(of, b[of][id], a[of][id]) /\ PropertyOf(a[of][id], p) = a[of][id][p]
    BY <1>5, <1>6 DEF Changed, PropertyOf
  <2>3. /\ Step({}, of, a[of], b[of], "set", path, b[of][id][p])
        /\ Step({}, of, b[of], a[of], "set", path, a[of][id][p])
    BY <2>2 DEF Step
  <2>4. Says(c.forward, "set", path, b[of][id][p]) /\ Says(c.backward, "set", path, a[of][id][p])
    BY <1>1, <2>1, <2>3, TabledSays DEF StepOf
  <2>5. /\ path \in DOMAIN c.forward.set /\ c.forward.set[path] = b[of][id][p]
        /\ path \in DOMAIN c.backward.set /\ c.backward.set[path] = a[of][id][p]
    BY <2>4 DEF Says
  <2> QED
    BY <2>1, <2>5
<1>7. ASSUME a[of][id] # b[of][id]
      PROVE  id \in LeftAsItIs(t, c)
  <2>1. PICK p \in DOMAIN a[of][id] : a[of][id][p] # b[of][id][p]
    BY <1>5, <1>7
  <2>2. \E q \in DOMAIN c.forward.set : q.id = id
    BY <1>6, <2>1
  <2> QED
    BY <1>2, <2>2
<1>8. {"name", "type"} \subseteq DOMAIN a[of][id]
  <2>1. {"name", "type"} \subseteq ComparedProperties("fields", a[of][id], b[of][id])
    BY DEF ComparedProperties, ComparedOfField
  <2>2. {"name", "type"} \subseteq ComparedProperties("indexes", a[of][id], b[of][id])
    BY DEF ComparedProperties
  <2> QED
    BY <1>5, <2>1, <2>2 DEF Tabled
<1>9. ASSUME a[of][id].name # b[of][id].name
      PROVE  /\ {a[of][id].name, b[of][id].name} \subseteq LeftAsItIs(t, c)
             /\ \E p \in DOMAIN c.forward.set : p.prop = "name"
  <2>1. PICK q \in DOMAIN c.forward.set : q.prop = "name" /\ c.forward.set[q] = b[of][id].name
    BY <1>6, <1>8, <1>9
  <2>2. PICK r \in DOMAIN c.backward.set : r.prop = "name" /\ c.backward.set[r] = a[of][id].name
    BY <1>6, <1>8, <1>9
  <2> QED
    BY <1>2, <2>1, <2>2
<1>10. ASSUME a[of][id].type # b[of][id].type
       PROVE  b[of][id].name \in LeftAsItIs(t, c)
  <2>1. PICK q \in DOMAIN c.forward.set : q.prop = "type"
    BY <1>6, <1>8, <1>10
  <2> QED
    BY <1>1, <1>2, <2>1
<1> QED
  BY <1>7, <1>9, <1>10 DEF c

(* A nested schema that differs in its values has its change, and where    *)
(* the change is applied in place its id is kept.                          *)
ValuesAgree(a, b, id) ==
  id \in DOMAIN a.schemas \intersect DOMAIN b.schemas /\ a.schemas[id].values = b.schemas[id].values

LEMMA ValuesSet ==
  ASSUME NEW a, Authored(a), NEW b, Authored(b),
         NEW id \in DOMAIN a.schemas \intersect DOMAIN b.schemas, ~ValuesAgree(a, b, id)
  PROVE  Step({}, "schemas", a.schemas, b.schemas, "set",
              EvolutionPath({}, id, "schemas", "values"), b.schemas[id].values)
<1>1. Shaped("schemas", a.schemas[id]) /\ Shaped("schemas", b.schemas[id])
  BY AuthoredShapes
<1>2. "values" \in DOMAIN a.schemas[id] /\ "values" \in DOMAIN b.schemas[id]
  BY <1>1, NestedProps DEF ComparedOfSchema
<1>3. "values" \in ComparedProperties("schemas", a.schemas[id], b.schemas[id])
  BY NestedProps DEF ComparedOfSchema
<1>4. /\ "values" \in Changed("schemas", a.schemas[id], b.schemas[id])
      /\ PropertyOf(b.schemas[id], "values") = b.schemas[id].values
  BY <1>2, <1>3 DEF Changed, PropertyOf, ValuesAgree
<1> QED
  BY <1>4 DEF Step

LEMMA SchemaInDiff ==
  ASSUME NEW a, Authored(a), NEW b, Authored(b), NEW id \in DOMAIN a.schemas \union DOMAIN b.schemas,
         ~ValuesAgree(a, b, id)
  PROVE  ChangeIn("schemas", a, b, id) \in SchemaDiff(a, b)
<1>1. ASSUME NEW kind, NEW path, NEW v, Step({}, "schemas", a["schemas"], b["schemas"], kind, path, v), path.id = id
      PROVE  ChangeIn("schemas", a, b, id) \in SchemaDiff(a, b)
  <2>1. Says(OpsOf("schemas", a["schemas"], b["schemas"], id), kind, path, v)
    BY <1>1, OpsOfSay DEF OfEntity
  <2> QED
    BY <2>1, DiffHas DEF ChangeIn, Collections
<1>2. CASE id \in DOMAIN b.schemas \ DOMAIN a.schemas
  <2> DEFINE path == EvolutionPath({}, id, "schemas", "")
  <2>1. Step({}, "schemas", a["schemas"], b["schemas"], "add", path, b.schemas[id])
    BY <1>2 DEF Step
  <2>2. path.id = id
    BY DEF EvolutionPath
  <2> HIDE DEF path
  <2> QED
    BY <1>1, <2>1, <2>2
<1>3. CASE id \in DOMAIN a.schemas \ DOMAIN b.schemas
  <2> DEFINE path == EvolutionPath({}, id, "schemas", "")
  <2>1. Step({}, "schemas", a["schemas"], b["schemas"], "remove", path, "")
    BY <1>3 DEF Step
  <2>2. path.id = id
    BY DEF EvolutionPath
  <2> HIDE DEF path
  <2> QED
    BY <1>1, <2>1, <2>2
<1>4. CASE id \in DOMAIN a.schemas \intersect DOMAIN b.schemas
  <2>1. Step({}, "schemas", a["schemas"], b["schemas"], "set",
             EvolutionPath({}, id, "schemas", "values"), b.schemas[id].values)
    BY <1>4, ValuesSet
  <2>2. EvolutionPath({}, id, "schemas", "values").id = id
    BY PathIs
  <2> QED
    BY <1>1, <2>1, <2>2
<1> QED
  BY <1>2, <1>3, <1>4

LEMMA SchemaLeaves ==
  ASSUME NEW t, NEW a, Authored(a), NEW b, Authored(b), NEW id \in DOMAIN a.schemas \union DOMAIN b.schemas,
         ~ValuesAgree(a, b, id), ~StatementFails(t, ChangeIn("schemas", a, b, id))
  PROVE  id \in LeftAsItIs(t, ChangeIn("schemas", a, b, id))
<1> DEFINE c == ChangeIn("schemas", a, b, id)
<1>1. /\ c.of = "schemas"
      /\ c.kind = IF id \notin DOMAIN a["schemas"] THEN "added"
                  ELSE IF id \notin DOMAIN b["schemas"] THEN "removed" ELSE "modified"
      /\ c.forward = OpsOf("schemas", a["schemas"], b["schemas"], id)
  BY ChangeParts
<1>2. ChangeNeeds(c) \subseteq Evolves(engine)
  BY DEF StatementFails
<1>3. "a table of its own" \notin Evolves(engine)
  BY DEF Evolves
<1> HIDE DEF c
<1>4. c.kind = "modified"
  BY <1>1, <1>2, <1>3 DEF ChangeNeeds
<1>5. id \in DOMAIN a.schemas \intersect DOMAIN b.schemas
  BY <1>1, <1>4
<1> DEFINE path == EvolutionPath({}, id, "schemas", "values")
<1>6. path.id = id /\ path.prop = "values"
  BY PathIs
<1>7. Step({}, "schemas", a["schemas"], b["schemas"], "set", path, b.schemas[id].values)
  BY <1>5, ValuesSet
<1> HIDE DEF path
<1>8. Says(c.forward, "set", path, b.schemas[id].values)
  BY <1>1, <1>6, <1>7, OpsOfSay DEF OfEntity
<1>9. path \in DOMAIN c.forward.set
  BY <1>8 DEF Says
<1>10. LeftAsItIs(t, c) = {p.id : p \in {q \in DOMAIN c.forward.set : q.prop = "values"}}
  BY <1>1 DEF LeftAsItIs
<1> QED
  BY <1>6, <1>9, <1>10 DEF c

NamesApart(s) ==
  \A of \in Tabled : \A id, other \in DOMAIN s[of] : s[of][id].name = s[of][other].name => id = other

(* The entities of a that are not dropped yet, and those of b that are     *)
(* added.                                                                  *)
StillThere(of, a, b, left, id) ==
  id \in DOMAIN a[of] /\ (id \in DOMAIN b[of] \/ ChangeIn(of, a, b, id) \in left)
NowThere(of, a, b, left, id) ==
  id \in DOMAIN b[of] \ DOMAIN a[of] /\ ChangeIn(of, a, b, id) \notin left

(* A column of SQLite goes with its table only.                            *)
ColumnsAccounted(cols, a, b, left) ==
  \A n \in DOMAIN cols :
    \/ \E id : StillThere("fields", a, b, left, id) /\ a.fields[id].name = n
    \/ \E id : NowThere("fields", a, b, left, id) /\ b.fields[id].name = n

ColumnsMidway(cols, a, b, left, u) ==
  /\ \A id : StillThere("fields", a, b, left, id) =>
       /\ a.fields[id].name \in DOMAIN cols
       /\ id \notin u /\ a.fields[id].schema \notin u =>
            cols[a.fields[id].name] = ColumnDefinition(a, a.fields[id])
  /\ \A id : NowThere("fields", a, b, left, id) =>
       /\ b.fields[id].name \in DOMAIN cols
       /\ id \notin u => cols[b.fields[id].name] = ColumnDefinition(b, b.fields[id])
  /\ \A id \in DOMAIN a.fields \intersect DOMAIN b.fields :
       /\ a.fields[id] # b.fields[id] => ChangeIn("fields", a, b, id) \in left \/ id \in u
       /\ a.fields[id].name # b.fields[id].name => ChangeIn("fields", a, b, id) \in left
  /\ u = {} => ColumnsAccounted(cols, a, b, left)

ValuesMidway(a, b, left, u) ==
  \A id \in DOMAIN a.schemas \union DOMAIN b.schemas :
    ValuesAgree(a, b, id) \/ ChangeIn("schemas", a, b, id) \in left \/ id \in u

IndexesAccounted(kind, idxs, a, b, left) ==
  \A n \in DOMAIN idxs :
    \/ \E id : /\ StillThere("indexes", a, b, left, id) /\ IsIndexed(kind, a.indexes[id])
               /\ a.indexes[id].name = n
    \/ \E id : /\ NowThere("indexes", a, b, left, id) /\ IsIndexed(kind, b.indexes[id])
               /\ b.indexes[id].name = n

(* What an index of both schemas differs in is to be changed, or kept.      *)
ModifiedLater(a, b, left, u, id) ==
  /\ a.indexes[id] # b.indexes[id] => ChangeIn("indexes", a, b, id) \in left \/ id \in u
  /\ a.indexes[id].name # b.indexes[id].name =>
       ChangeIn("indexes", a, b, id) \in left \/ {a.indexes[id].name, b.indexes[id].name} \subseteq u
  /\ a.indexes[id].type # b.indexes[id].type =>
       ChangeIn("indexes", a, b, id) \in left \/ b.indexes[id].name \in u

IndexesMidway(kind, idxs, a, b, left, u) ==
  /\ \A id : StillThere("indexes", a, b, left, id) /\ IsIndexed(kind, a.indexes[id])
             /\ a.indexes[id].name \notin u =>
       /\ a.indexes[id].name \in DOMAIN idxs
       /\ id \notin u => idxs[a.indexes[id].name] = IndexDefinition(a.indexes[id])
  /\ \A id : NowThere("indexes", a, b, left, id) /\ IsIndexed(kind, b.indexes[id])
             /\ b.indexes[id].name \notin u =>
       StandsAs(idxs, b.indexes[id], IndexDefinition(b.indexes[id]))
  /\ \A id, other : /\ NowThere("indexes", a, b, left, id) /\ StillThere("indexes", a, b, left, other)
                    /\ IsIndexed(kind, a.indexes[other])
                    /\ b.indexes[id].name = a.indexes[other].name
                    => b.indexes[id].name \in u
  /\ \A id \in DOMAIN a.indexes \intersect DOMAIN b.indexes : ModifiedLater(a, b, left, u, id)
  /\ u = {} => IndexesAccounted(kind, idxs, a, b, left)

KeyMidway(key, a, b, left, u) ==
  u = {} =>
    /\ key \in PrimaryKeys("sqlite", a)
    /\ \A id \in DOMAIN a.indexes \ DOMAIN b.indexes :
         ~IsIndexed("sqlite", a.indexes[id]) => ChangeIn("indexes", a, b, id) \in left

ColumnsFit(cols, s, u) ==
  /\ \A id \in DOMAIN s.fields :
       /\ s.fields[id].name \in DOMAIN cols
       /\ id \notin u /\ s.fields[id].schema \notin u =>
            cols[s.fields[id].name] = ColumnDefinition(s, s.fields[id])
  /\ u = {} => \A n \in DOMAIN cols : \E id \in DOMAIN s.fields : s.fields[id].name = n

IndexesFit(kind, idxs, s, u) ==
  /\ \A id \in DOMAIN s.indexes : IsIndexed(kind, s.indexes[id]) /\ s.indexes[id].name \notin u =>
       /\ s.indexes[id].name \in DOMAIN idxs
       /\ id \notin u => idxs[s.indexes[id].name] = IndexDefinition(s.indexes[id])
  /\ u = {} => \A n \in DOMAIN idxs :
       \E id \in DOMAIN s.indexes : IsIndexed(kind, s.indexes[id]) /\ s.indexes[id].name = n

KeyFits(key, s, u) == u = {} => key \in PrimaryKeys("sqlite", s)

LEMMA ThereAtFirst ==
  ASSUME NEW a, Authored(a), NEW b, Authored(b), NEW of \in Tabled, NEW id
  PROVE  /\ StillThere(of, a, b, SchemaDiff(a, b), id) <=> id \in DOMAIN a[of]
         /\ ~NowThere(of, a, b, SchemaDiff(a, b), id)
BY InDiff DEF StillThere, NowThere

LEMMA ColumnsAtFirst ==
  ASSUME NEW a, Authored(a), NEW b, Authored(b), NEW cols, NEW u
  PROVE  ColumnsMidway(cols, a, b, SchemaDiff(a, b), u) <=> ColumnsFit(cols, a, u)
<1> DEFINE left == SchemaDiff(a, b)
<1>1. "fields" \in Tabled
  BY DEF Tabled
<1>2. \A id : /\ StillThere("fields", a, b, left, id) <=> id \in DOMAIN a["fields"]
              /\ ~NowThere("fields", a, b, left, id)
  BY <1>1, ThereAtFirst
<1>3. \A id \in DOMAIN a["fields"] \intersect DOMAIN b["fields"] :
        a["fields"][id] # b["fields"][id] => ChangeIn("fields", a, b, id) \in left
  BY <1>1, InDiff
<1> HIDE DEF left
<1>4. ColumnsMidway(cols, a, b, left, u) <=> ColumnsFit(cols, a, u)
  BY <1>2, <1>3 DEF ColumnsMidway, ColumnsFit, ColumnsAccounted
<1> QED
  BY <1>4 DEF left

LEMMA ValuesAtFirst ==
  ASSUME NEW a, Authored(a), NEW b, Authored(b), NEW u
  PROVE  ValuesMidway(a, b, SchemaDiff(a, b), u)
BY SchemaInDiff DEF ValuesMidway

LEMMA IndexesAtFirst ==
  ASSUME NEW a, Authored(a), NEW b, Authored(b), NEW kind, NEW idxs, NEW u
  PROVE  IndexesMidway(kind, idxs, a, b, SchemaDiff(a, b), u) <=> IndexesFit(kind, idxs, a, u)
<1> DEFINE left == SchemaDiff(a, b)
<1>1. "indexes" \in Tabled
  BY DEF Tabled
<1>2. \A id : /\ StillThere("indexes", a, b, left, id) <=> id \in DOMAIN a["indexes"]
              /\ ~NowThere("indexes", a, b, left, id)
  BY <1>1, ThereAtFirst
<1>3. \A id \in DOMAIN a["indexes"] \intersect DOMAIN b["indexes"] :
        a["indexes"][id] # b["indexes"][id] => ChangeIn("indexes", a, b, id) \in left
  BY <1>1, InDiff
<1> HIDE DEF left
<1>4. IndexesMidway(kind, idxs, a, b, left, u) <=> IndexesFit(kind, idxs, a, u)
  BY <1>2, <1>3 DEF IndexesMidway, IndexesFit, IndexesAccounted, ModifiedLater
<1> QED
  BY <1>4 DEF left

LEMMA KeyAtFirst ==
  ASSUME NEW a, Authored(a), NEW b, Authored(b), NEW key, NEW u
  PROVE  KeyMidway(key, a, b, SchemaDiff(a, b), u) <=> KeyFits(key, a, u)
<1>1. \A id \in DOMAIN a["indexes"] \ DOMAIN b["indexes"] : ChangeIn("indexes", a, b, id) \in SchemaDiff(a, b)
  BY InDiff DEF Tabled
<1> QED
  BY <1>1 DEF KeyMidway, KeyFits

LEMMA ColumnsAtLast ==
  ASSUME NEW a, NEW b, NEW cols, NEW u, ColumnsMidway(cols, a, b, {}, u), ValuesMidway(a, b, {}, u)
  PROVE  ColumnsFit(cols, b, u)
<1>1. ASSUME NEW id \in DOMAIN b.fields
      PROVE  /\ b.fields[id].name \in DOMAIN cols
             /\ id \notin u /\ b.fields[id].schema \notin u =>
                  cols[b.fields[id].name] = ColumnDefinition(b, b.fields[id])
  <2>1. CASE id \in DOMAIN a.fields
    <3>1. StillThere("fields", a, b, {}, id)
      BY <2>1 DEF StillThere
    <3>2. a.fields[id].name = b.fields[id].name /\ (id \notin u => a.fields[id] = b.fields[id])
      BY <2>1 DEF ColumnsMidway
    <3>3. ASSUME NEW f, f.schema \notin u
          PROVE  ColumnDefinition(a, f) = ColumnDefinition(b, f)
      <4>1. ValuesAgree(a, b, f.schema) \/ f.schema \notin DOMAIN a.schemas \union DOMAIN b.schemas
        BY <3>3 DEF ValuesMidway
      <4>2. CheckedValues(a, f) = CheckedValues(b, f)
        BY <4>1 DEF CheckedValues, ValuesAgree
      <4> QED
        BY <4>2 DEF ColumnDefinition
    <3> QED
      BY <3>1, <3>2, <3>3 DEF ColumnsMidway
  <2>2. CASE id \notin DOMAIN a.fields
    <3>1. NowThere("fields", a, b, {}, id)
      BY <2>2 DEF NowThere
    <3> QED
      BY <3>1 DEF ColumnsMidway
  <2> QED
    BY <2>1, <2>2
<1>2. ASSUME u = {}, NEW n \in DOMAIN cols
      PROVE  \E id \in DOMAIN b.fields : b.fields[id].name = n
  <2>1. ColumnsAccounted(cols, a, b, {})
    BY <1>2 DEF ColumnsMidway
  <2>2. ASSUME NEW id, StillThere("fields", a, b, {}, id), a.fields[id].name = n
        PROVE  id \in DOMAIN b.fields /\ b.fields[id].name = n
    BY <2>2 DEF StillThere, ColumnsMidway
  <2>3. ASSUME NEW id, NowThere("fields", a, b, {}, id)
        PROVE  id \in DOMAIN b.fields
    BY <2>3 DEF NowThere
  <2> QED
    BY <2>1, <2>2, <2>3 DEF ColumnsAccounted
<1> QED
  BY <1>1, <1>2 DEF ColumnsFit

LEMMA IndexesAtLast ==
  ASSUME NEW a, NEW b, NEW kind, NEW idxs, NEW u, IndexesMidway(kind, idxs, a, b, {}, u)
  PROVE  IndexesFit(kind, idxs, b, u)
<1>1. ASSUME NEW id \in DOMAIN b.indexes, IsIndexed(kind, b.indexes[id]), b.indexes[id].name \notin u
      PROVE  /\ b.indexes[id].name \in DOMAIN idxs
             /\ id \notin u => idxs[b.indexes[id].name] = IndexDefinition(b.indexes[id])
  <2>1. CASE id \in DOMAIN a.indexes
    <3>1. StillThere("indexes", a, b, {}, id)
      BY <2>1 DEF StillThere
    <3>2. /\ a.indexes[id].name = b.indexes[id].name /\ a.indexes[id].type = b.indexes[id].type
          /\ id \notin u => a.indexes[id] = b.indexes[id]
      BY <1>1, <2>1 DEF IndexesMidway, ModifiedLater
    <3>3. IsIndexed(kind, a.indexes[id])
      BY <1>1, <3>2 DEF IsIndexed
    <3> QED
      BY <1>1, <3>1, <3>2, <3>3 DEF IndexesMidway
  <2>2. CASE id \notin DOMAIN a.indexes
    <3>1. NowThere("indexes", a, b, {}, id)
      BY <2>2 DEF NowThere
    <3> QED
      BY <1>1, <3>1 DEF IndexesMidway, StandsAs
  <2> QED
    BY <2>1, <2>2
<1>2. ASSUME u = {}, NEW n \in DOMAIN idxs
      PROVE  \E id \in DOMAIN b.indexes : IsIndexed(kind, b.indexes[id]) /\ b.indexes[id].name = n
  <2>1. IndexesAccounted(kind, idxs, a, b, {})
    BY <1>2 DEF IndexesMidway
  <2>2. ASSUME NEW id, StillThere("indexes", a, b, {}, id)
        PROVE  id \in DOMAIN b.indexes /\ b.indexes[id] = a.indexes[id]
    BY <1>2, <2>2 DEF StillThere, IndexesMidway, ModifiedLater
  <2>3. ASSUME NEW id, NowThere("indexes", a, b, {}, id)
        PROVE  id \in DOMAIN b.indexes
    BY <2>3 DEF NowThere
  <2> QED
    BY <2>1, <2>2, <2>3 DEF IndexesAccounted
<1> QED
  BY <1>1, <1>2 DEF IndexesFit

LEMMA KeyAtLast ==
  ASSUME NEW a, NEW b, NEW kind, NEW idxs, NEW u, NEW key,
         IndexesMidway(kind, idxs, a, b, {}, u), KeyMidway(key, a, b, {}, u)
  PROVE  KeyFits(key, b, u)
<1> SUFFICES ASSUME u = {}
             PROVE  key \in PrimaryKeys("sqlite", b)
  BY DEF KeyFits
<1>1. key \in PrimaryKeys("sqlite", a)
  BY DEF KeyMidway
<1>2. ASSUME NEW id \in DOMAIN a.indexes, ~IsIndexed("sqlite", a.indexes[id])
      PROVE  id \in DOMAIN b.indexes /\ b.indexes[id] = a.indexes[id]
  BY <1>2 DEF KeyMidway, IndexesMidway, ModifiedLater
<1> QED
  BY <1>1, <1>2 DEF PrimaryKeys

(* A table made for a schema fits it.                                      *)
TableShape(t) ==
  /\ t = [columns |-> t.columns, indexes |-> t.indexes, key |-> t.key]
  /\ t.columns = [n \in DOMAIN t.columns |-> t.columns[n]]
  /\ t.indexes = [n \in DOMAIN t.indexes |-> t.indexes[n]]

LEMMA ColumnsOfFit ==
  ASSUME NEW s, NamesApart(s)
  PROVE  ColumnsFit(TableColumns(s), s, {})
<1>1. \A id, other \in DOMAIN s["fields"] : s["fields"][id].name = s["fields"][other].name => id = other
  BY DEF NamesApart, Tabled
<1>2. ASSUME NEW id \in DOMAIN s.fields
      PROVE  /\ s.fields[id].name \in DOMAIN TableColumns(s)
             /\ TableColumns(s)[s.fields[id].name] = ColumnDefinition(s, s.fields[id])
  <2>1. (CHOOSE i \in DOMAIN s.fields : s.fields[i].name = s.fields[id].name) = id
    BY <1>1
  <2>2. s.fields[id].name \in {s.fields[i].name : i \in DOMAIN s.fields}
    OBVIOUS
  <2>3. TableColumns(s)[s.fields[id].name]
          = ColumnDefinition(s, s.fields[CHOOSE i \in DOMAIN s.fields : s.fields[i].name = s.fields[id].name])
    BY <2>2 DEF TableColumns
  <2> QED
    BY <2>1, <2>2, <2>3 DEF TableColumns
<1>3. \A n \in DOMAIN TableColumns(s) : \E id \in DOMAIN s.fields : s.fields[id].name = n
  BY DEF TableColumns
<1> QED
  BY <1>2, <1>3 DEF ColumnsFit

LEMMA IndexesOfFit ==
  ASSUME NEW kind, NEW s, NamesApart(s)
  PROVE  IndexesFit(kind, IndexesOf(kind, s), s, {})
<1> DEFINE made == {id \in DOMAIN s.indexes : IsIndexed(kind, s.indexes[id])}
<1>1. \A id, other \in DOMAIN s["indexes"] : s["indexes"][id].name = s["indexes"][other].name => id = other
  BY DEF NamesApart, Tabled
<1>2. IndexesOf(kind, s) = [n \in {s.indexes[id].name : id \in made} |->
                              IndexDefinition(s.indexes[CHOOSE id \in made : s.indexes[id].name = n])]
  BY DEF IndexesOf
<1>3. \A id : id \in made <=> id \in DOMAIN s.indexes /\ IsIndexed(kind, s.indexes[id])
  OBVIOUS
<1> HIDE DEF made
<1>4. ASSUME NEW id \in made
      PROVE  /\ s.indexes[id].name \in DOMAIN IndexesOf(kind, s)
             /\ IndexesOf(kind, s)[s.indexes[id].name] = IndexDefinition(s.indexes[id])
  <2>1. (CHOOSE i \in made : s.indexes[i].name = s.indexes[id].name) = id
    BY <1>1, <1>3
  <2>2. s.indexes[id].name \in {s.indexes[i].name : i \in made}
    OBVIOUS
  <2> QED
    BY <1>2, <2>1, <2>2
<1>5. \A n \in DOMAIN IndexesOf(kind, s) : \E id \in made : s.indexes[id].name = n
  BY <1>2
<1> QED
  BY <1>3, <1>4, <1>5 DEF IndexesFit

LEMMA CreatedFits ==
  ASSUME NEW kind, NEW s, NamesApart(s), NEW t \in CreatedTables(kind, s)
  PROVE  /\ TableShape(t)
         /\ IndexesFit(kind, t.indexes, s, {})
         /\ ColumnsFit(t.columns, s, {})
         /\ kind = "sqlite" => KeyFits(t.key, s, {})
<1>1. PICK key \in PrimaryKeys(kind, s) :
        t = [columns |-> TableColumns(s), indexes |-> IndexesOf(kind, s), key |-> key]
  BY DEF CreatedTables
<1>2. t.columns = TableColumns(s) /\ t.indexes = IndexesOf(kind, s) /\ t.key = key
  BY <1>1
<1>3. TableColumns(s) = [n \in DOMAIN TableColumns(s) |-> TableColumns(s)[n]]
  BY DEF TableColumns
<1>4. IndexesOf(kind, s) = [n \in DOMAIN IndexesOf(kind, s) |-> IndexesOf(kind, s)[n]]
  BY DEF IndexesOf
<1>5. TableShape(t)
  BY <1>1, <1>2, <1>3, <1>4 DEF TableShape
<1> QED
  BY <1>2, <1>5, ColumnsOfFit, IndexesOfFit DEF KeyFits

(* Two schemas on the way of one to the other, and a statement between.    *)
Between(a, b, left, change) ==
  /\ Authored(a) /\ Authored(b) /\ NamesApart(a) /\ NamesApart(b)
  /\ left \subseteq SchemaDiff(a, b) /\ change \in left

(* A change is that of one entity of its kind.                             *)
LEMMA AddedOnce ==
  ASSUME NEW of \in Tabled, NEW a, NEW b, NamesApart(b),
         NEW id \in DOMAIN b[of] \ DOMAIN a[of], NEW other,
         ChangeIn(of, a, b, other) = ChangeIn(of, a, b, id), other \in DOMAIN a[of] \union DOMAIN b[of]
  PROVE  other = id
<1>1. ChangeIn(of, a, b, id).kind = "added"
  BY ChangeParts
<1>2. other \in DOMAIN b[of] \ DOMAIN a[of]
  BY <1>1, ChangeParts
<1>3. Added(ChangeIn(of, a, b, id)) = {b[of][id]} /\ Added(ChangeIn(of, a, b, other)) = {b[of][other]}
  BY <1>2, AddedIs
<1>4. b[of][id] = b[of][other]
  BY <1>3
<1> QED
  BY <1>2, <1>4 DEF NamesApart

LEMMA RemovedOnce ==
  ASSUME NEW of \in Tabled, NEW a, NEW b,
         NEW id \in DOMAIN a[of] \ DOMAIN b[of], NEW other,
         ChangeIn(of, a, b, other) = ChangeIn(of, a, b, id), other \in DOMAIN a[of] \union DOMAIN b[of]
  PROVE  /\ other \in DOMAIN a[of] \ DOMAIN b[of]
         /\ a[of][other].name = a[of][id].name
         /\ ChangeIn(of, a, b, id).entity = a[of][id].name
<1>1. \A i \in DOMAIN a[of] \ DOMAIN b[of] :
        ChangeIn(of, a, b, i).kind = "removed" /\ ChangeIn(of, a, b, i).entity = a[of][i].name
  BY ChangeParts DEF EntityName, Tabled
<1>2. other \in DOMAIN a[of] \ DOMAIN b[of]
  BY <1>1, ChangeParts
<1> QED
  BY <1>1, <1>2

(* What a statement makes of a table, change by change.                    *)
LEMMA StatementMakes ==
  ASSUME NEW t, TableShape(t), NEW change
  PROVE  LET r == StatementResult(t, change)
         IN /\ \A f : change.of = "fields" /\ change.kind = "added" /\ Added(change) = {f}
                        => r = [t EXCEPT !.columns = WithColumn(t.columns, f)]
            /\ change.of = "fields" /\ change.kind = "modified" => r = t
            /\ \A i : change.of = "indexes" /\ change.kind = "added" /\ Added(change) = {i}
                        => r = [t EXCEPT !.indexes = WithIndex(t.indexes, i)]
            /\ change.of = "indexes" /\ change.kind = "removed"
                 => r = [t EXCEPT !.indexes = Drop(t.indexes, change.entity)]
            /\ change.of = "indexes" /\ change.kind = "modified" => r = t
            /\ change.of \notin Tabled => r = t
<1>1. ASSUME NEW f, change.of = "fields", change.kind = "added", Added(change) = {f}
      PROVE  StatementResult(t, change) = [t EXCEPT !.columns = WithColumn(t.columns, f)]
  <2>1. (CHOOSE e \in Added(change) : TRUE) = f
    BY <1>1
  <2> QED
    BY <1>1, <2>1 DEF StatementResult
<1>2. ASSUME NEW i, change.of = "indexes", change.kind = "added", Added(change) = {i}
      PROVE  StatementResult(t, change) = [t EXCEPT !.indexes = WithIndex(t.indexes, i)]
  <2>1. (CHOOSE e \in Added(change) : TRUE) = i
    BY <1>2
  <2> QED
    BY <1>2, <2>1 DEF StatementResult
<1>3. change.of = "indexes" /\ change.kind = "removed"
        => StatementResult(t, change) = [t EXCEPT !.indexes = Drop(t.indexes, change.entity)]
  BY DEF StatementResult
<1>4. /\ change.of = "fields" /\ change.kind = "modified" => StatementResult(t, change) = t
      /\ change.of = "indexes" /\ change.kind = "modified" => StatementResult(t, change) = t
      /\ change.of \notin Tabled => StatementResult(t, change) = t
  BY DEF StatementResult, Tabled
<1> QED
  BY <1>1, <1>2, <1>3, <1>4

(* A statement that does not change the columns, or the indexes, of a      *)
(* table leaves them; none changes its key.                                *)
LEMMA StatementLeaves ==
  ASSUME NEW t, TableShape(t), NEW change
  PROVE  /\ change.of # "fields" => StatementResult(t, change).columns = t.columns
         /\ change.of # "indexes" => StatementResult(t, change).indexes = t.indexes
         /\ StatementResult(t, change).key = t.key
         /\ TableShape(StatementResult(t, change))
<1>1. /\ change.of # "fields" => StatementResult(t, change).columns = t.columns
      /\ change.of # "indexes" => StatementResult(t, change).indexes = t.indexes
  BY DEF StatementResult, TableShape
<1>2. \A f : /\ WithColumn(t.columns, f) = [n \in DOMAIN WithColumn(t.columns, f) |-> WithColumn(t.columns, f)[n]]
             /\ WithIndex(t.indexes, f) = [n \in DOMAIN WithIndex(t.indexes, f) |-> WithIndex(t.indexes, f)[n]]
  BY DEF WithColumn, WithIndex
<1>3. \A name : /\ Drop(t.columns, name) = [n \in DOMAIN Drop(t.columns, name) |-> Drop(t.columns, name)[n]]
                /\ Drop(t.indexes, name) = [n \in DOMAIN Drop(t.indexes, name) |-> Drop(t.indexes, name)[n]]
  BY DEF Drop
<1>4. PICK e : e = CHOOSE x \in Added(change) : TRUE
  OBVIOUS
<1>5. \/ StatementResult(t, change) = t
      \/ StatementResult(t, change) = [t EXCEPT !.columns = WithColumn(t.columns, e)]
      \/ StatementResult(t, change) = [t EXCEPT !.columns = Drop(t.columns, change.entity)]
      \/ StatementResult(t, change) = [t EXCEPT !.indexes = WithIndex(t.indexes, e)]
      \/ StatementResult(t, change) = [t EXCEPT !.indexes = Drop(t.indexes, change.entity)]
  BY <1>4 DEF StatementResult
<1>6. TableShape(StatementResult(t, change)) /\ StatementResult(t, change).key = t.key
  BY <1>2, <1>3, <1>5 DEF TableShape
<1> QED
  BY <1>1, <1>6

(* The names an index added, or a primary one removed, leaves in use; the  *)
(* id of an enum added.                                                    *)
LEMMA IndexLeaves ==
  ASSUME NEW t, NEW a, NEW b, NEW id \in DOMAIN a.indexes \union DOMAIN b.indexes
  PROVE  LET c == ChangeIn("indexes", a, b, id)
         IN /\ id \notin DOMAIN a.indexes =>
                 LET name == b.indexes[id].name
                 IN /\ name \in DOMAIN t.indexes => name \in LeftAsItIs(t, c)
                    /\ ~IsIndexed(engine, b.indexes[id]) => name \in LeftAsItIs(t, c)
            /\ id \notin DOMAIN b.indexes =>
                 (~IsIndexed(engine, a.indexes[id]) => a.indexes[id].name \in LeftAsItIs(t, c))
<1> DEFINE c == ChangeIn("indexes", a, b, id)
<1>1. /\ c.of = "indexes"
      /\ c.kind = IF id \notin DOMAIN a["indexes"] THEN "added"
                  ELSE IF id \notin DOMAIN b["indexes"] THEN "removed" ELSE "modified"
  BY ChangeParts
<1>2. ASSUME NEW i, ~IsIndexed(engine, i)
      PROVE  i.name \in KeyNames({i})
  <2>1. i \in {k \in {i} : ~IsIndexed(engine, k)}
    BY <1>2
  <2> QED
    BY <2>1 DEF KeyNames
<1>3. CASE id \notin DOMAIN a.indexes
  <2>1. Added(c) = {b["indexes"][id]}
    BY <1>3, AddedIs DEF Tabled
  <2>2. c.kind = "added"
    BY <1>1, <1>3
  <2> HIDE DEF c
  <2>3. LeftAsItIs(t, c) = ({i.name : i \in Added(c)} \intersect DOMAIN t.indexes) \union KeyNames(Added(c))
    BY <1>1, <2>2 DEF LeftAsItIs
  <2>4. b.indexes[id].name \in {i.name : i \in Added(c)}
    BY <2>1
  <2> QED
    BY <1>2, <1>3, <2>1, <2>3, <2>4 DEF c
<1>4. CASE id \in DOMAIN a.indexes /\ id \notin DOMAIN b.indexes
  <2>1. Removed(c) = {a["indexes"][id]}
    BY <1>4, RemovedIs DEF Tabled
  <2>2. c.kind = "removed"
    BY <1>1, <1>4
  <2> HIDE DEF c
  <2>3. LeftAsItIs(t, c) = KeyNames(Removed(c))
    BY <1>1, <2>2 DEF LeftAsItIs
  <2> QED
    BY <1>2, <1>4, <2>1, <2>3 DEF c
<1> QED
  BY <1>3, <1>4

LEMMA EnumLeaves ==
  ASSUME NEW t, NEW a, NEW b, NEW id \in DOMAIN b.fields \ DOMAIN a.fields, b.fields[id].type = "enum"
  PROVE  id \in LeftAsItIs(t, ChangeIn("fields", a, b, id))
<1> DEFINE c == ChangeIn("fields", a, b, id)
           path == EvolutionPath({}, id, "fields", "")
<1>1. c.of = "fields" /\ c.kind = "added" /\ c.forward = OpsOf("fields", a["fields"], b["fields"], id)
  BY ChangeParts
<1>2. path.id = id
  BY DEF EvolutionPath
<1>3. Step({}, "fields", a["fields"], b["fields"], "add", path, b["fields"][id])
  BY DEF Step
<1> HIDE DEF c, path
<1>4. Says(c.forward, "add", path, b["fields"][id])
  BY <1>1, <1>2, <1>3, TabledSays DEF StepOf, Tabled
<1>5. path \in DOMAIN c.forward.add /\ c.forward.add[path] = b.fields[id]
  BY <1>4 DEF Says
<1>6. LeftAsItIs(t, c) = {p.id : p \in {q \in DOMAIN c.forward.add : c.forward.add[q].type = "enum"}}
  BY <1>1 DEF LeftAsItIs
<1>7. path \in {q \in DOMAIN c.forward.add : c.forward.add[q].type = "enum"}
  BY <1>5
<1> QED
  BY <1>2, <1>6, <1>7 DEF c

LEMMA ColumnsKept ==
  ASSUME NEW cols, NEW a, NEW b, NEW left, NEW change, NEW u, NEW more,
         ColumnsMidway(cols, a, b, left, u),
         \A id \in DOMAIN a.fields \ DOMAIN b.fields : ChangeIn("fields", a, b, id) # change,
         \A id \in DOMAIN b.fields \ DOMAIN a.fields : ChangeIn("fields", a, b, id) # change,
         \A id \in DOMAIN a.fields \intersect DOMAIN b.fields : ChangeIn("fields", a, b, id) = change =>
           a.fields[id].name = b.fields[id].name /\ (a.fields[id] # b.fields[id] => id \in more)
  PROVE  ColumnsMidway(cols, a, b, left \ {change}, u \union more)
<1>1. \A id : /\ StillThere("fields", a, b, left \ {change}, id) <=> StillThere("fields", a, b, left, id)
              /\ NowThere("fields", a, b, left \ {change}, id) <=> NowThere("fields", a, b, left, id)
  BY DEF StillThere, NowThere
<1>2. \A id \in DOMAIN a.fields \intersect DOMAIN b.fields :
       /\ a.fields[id] # b.fields[id] =>
            ChangeIn("fields", a, b, id) \in left \ {change} \/ id \in u \union more
       /\ a.fields[id].name # b.fields[id].name => ChangeIn("fields", a, b, id) \in left \ {change}
  BY DEF ColumnsMidway
<1>3. u \union more = {} => ColumnsAccounted(cols, a, b, left \ {change})
  BY <1>1 DEF ColumnsMidway, ColumnsAccounted
<1> QED
  BY <1>1, <1>2, <1>3 DEF ColumnsMidway

LEMMA ColumnAdded ==
  ASSUME NEW cols, NEW a, NEW b, NEW left, NEW u, NEW after, NEW id \in DOMAIN b.fields \ DOMAIN a.fields,
         NamesApart(b), ColumnsMidway(cols, a, b, left, u), b.fields[id].name \notin DOMAIN cols,
         u \subseteq after, b.fields[id].type = "enum" => id \in after
  PROVE  ColumnsMidway(WithColumn(cols, b.fields[id]), a, b, left \ {ChangeIn("fields", a, b, id)}, after)
<1> DEFINE change == ChangeIn("fields", a, b, id)
           f == b.fields[id]
           now == WithColumn(cols, f)
<1>1. /\ DOMAIN now = DOMAIN cols \union {f.name} /\ now[f.name] = ColumnDefinition(EmptySchema, f)
      /\ \A n \in DOMAIN cols : now[n] = cols[n]
  BY DEF WithColumn
<1>2. \A other \in DOMAIN a.fields \union DOMAIN b.fields : ChangeIn("fields", a, b, other) = change => other = id
  <2>1. ASSUME NEW other \in DOMAIN a["fields"] \union DOMAIN b["fields"],
               ChangeIn("fields", a, b, other) = ChangeIn("fields", a, b, id)
        PROVE  other = id
    BY <2>1, AddedOnce DEF Tabled
  <2> QED
    BY <2>1
<1>3. id \notin after => ColumnDefinition(EmptySchema, f) = ColumnDefinition(b, f)
  BY DEF ColumnDefinition, CheckedValues
<1> HIDE DEF change, f, now
<1>4. \A other : /\ StillThere("fields", a, b, left \ {change}, other) <=> StillThere("fields", a, b, left, other)
                 /\ NowThere("fields", a, b, left \ {change}, other)
                      <=> NowThere("fields", a, b, left, other) \/ other = id
  BY <1>2 DEF StillThere, NowThere, change
<1>5. ASSUME NEW other, StillThere("fields", a, b, left, other)
      PROVE  /\ a.fields[other].name \in DOMAIN now
             /\ other \notin after /\ a.fields[other].schema \notin after =>
                  now[a.fields[other].name] = ColumnDefinition(a, a.fields[other])
  BY <1>1, <1>5 DEF ColumnsMidway, f
<1>6. ASSUME NEW other, NowThere("fields", a, b, left, other) \/ other = id
      PROVE  /\ b.fields[other].name \in DOMAIN now
             /\ other \notin after => now[b.fields[other].name] = ColumnDefinition(b, b.fields[other])
  BY <1>1, <1>3, <1>6 DEF ColumnsMidway, f
<1>7. \A other \in DOMAIN a.fields \intersect DOMAIN b.fields :
        ChangeIn("fields", a, b, other) \in left => ChangeIn("fields", a, b, other) \in left \ {change}
  BY <1>2
<1>8. \A other \in DOMAIN a.fields \intersect DOMAIN b.fields :
       /\ a.fields[other] # b.fields[other] => ChangeIn("fields", a, b, other) \in left \ {change} \/ other \in after
       /\ a.fields[other].name # b.fields[other].name => ChangeIn("fields", a, b, other) \in left \ {change}
  BY <1>7 DEF ColumnsMidway
<1>9. after = {} => ColumnsAccounted(now, a, b, left \ {change})
  BY <1>1, <1>4 DEF ColumnsMidway, ColumnsAccounted, f
<1>10. ColumnsMidway(now, a, b, left \ {change}, after)
  BY <1>4, <1>5, <1>6, <1>8, <1>9 DEF ColumnsMidway
<1> QED
  BY <1>10 DEF change, now, f

LEMMA IndexesKept ==
  ASSUME NEW kind, NEW idxs, NEW a, NEW b, NEW left, NEW change, NEW u, NEW more,
         IndexesMidway(kind, idxs, a, b, left, u),
         \A id \in DOMAIN a.indexes \ DOMAIN b.indexes : ChangeIn("indexes", a, b, id) # change,
         \A id \in DOMAIN b.indexes \ DOMAIN a.indexes : ChangeIn("indexes", a, b, id) # change,
         \A id \in DOMAIN a.indexes \intersect DOMAIN b.indexes : ChangeIn("indexes", a, b, id) = change =>
           /\ a.indexes[id] # b.indexes[id] => id \in more
           /\ a.indexes[id].name # b.indexes[id].name => {a.indexes[id].name, b.indexes[id].name} \subseteq more
           /\ a.indexes[id].type # b.indexes[id].type => b.indexes[id].name \in more
  PROVE  IndexesMidway(kind, idxs, a, b, left \ {change}, u \union more)
<1>1. \A id : /\ StillThere("indexes", a, b, left \ {change}, id) <=> StillThere("indexes", a, b, left, id)
              /\ NowThere("indexes", a, b, left \ {change}, id) <=> NowThere("indexes", a, b, left, id)
  BY DEF StillThere, NowThere
<1>2. \A id \in DOMAIN a.indexes \intersect DOMAIN b.indexes :
        ModifiedLater(a, b, left \ {change}, u \union more, id)
  BY DEF IndexesMidway, ModifiedLater
<1>3. u \union more = {} => IndexesAccounted(kind, idxs, a, b, left \ {change})
  BY <1>1 DEF IndexesMidway, IndexesAccounted
<1> QED
  BY <1>1, <1>2, <1>3 DEF IndexesMidway

(* A change of one index leaves what is said of those in both schemas.     *)
LEMMA OthersModified ==
  ASSUME NEW a, NEW b, NEW left, NEW u, NEW after, NEW change, NEW id,
         ModifiedLater(a, b, left, u, id), u \subseteq after, ChangeIn("indexes", a, b, id) # change
  PROVE  ModifiedLater(a, b, left \ {change}, after, id)
BY DEF ModifiedLater

LEMMA IndexAdded ==
  ASSUME NEW kind, NEW idxs, NEW a, NEW b, NEW left, NEW u, NEW after,
         NEW id \in DOMAIN b.indexes \ DOMAIN a.indexes,
         NamesApart(b), IndexesMidway(kind, idxs, a, b, left, u),
         u \subseteq after, b.indexes[id].name \in DOMAIN idxs => b.indexes[id].name \in after,
         ~IsIndexed(kind, b.indexes[id]) => b.indexes[id].name \in after
  PROVE  IndexesMidway(kind, WithIndex(idxs, b.indexes[id]), a, b,
                       left \ {ChangeIn("indexes", a, b, id)}, after)
<1> DEFINE change == ChangeIn("indexes", a, b, id)
           i == b.indexes[id]
           now == WithIndex(idxs, i)
<1>1. /\ DOMAIN now = DOMAIN idxs \union {i.name}
      /\ \A n \in DOMAIN idxs : now[n] = idxs[n]
      /\ i.name \notin DOMAIN idxs => now[i.name] = IndexDefinition(i)
  BY DEF WithIndex
<1>2. \A other \in DOMAIN a.indexes \union DOMAIN b.indexes : ChangeIn("indexes", a, b, other) = change => other = id
  <2>1. ASSUME NEW other \in DOMAIN a["indexes"] \union DOMAIN b["indexes"],
               ChangeIn("indexes", a, b, other) = ChangeIn("indexes", a, b, id)
        PROVE  other = id
    BY <2>1, AddedOnce DEF Tabled
  <2> QED
    BY <2>1
<1>3. i.name \notin after => i.name \notin DOMAIN idxs /\ IsIndexed(kind, i)
  OBVIOUS
<1> HIDE DEF change, i, now
<1>4. \A other : /\ StillThere("indexes", a, b, left \ {change}, other) <=> StillThere("indexes", a, b, left, other)
                 /\ NowThere("indexes", a, b, left \ {change}, other)
                      => NowThere("indexes", a, b, left, other) \/ other = id
                 /\ NowThere("indexes", a, b, left, other) => NowThere("indexes", a, b, left \ {change}, other)
                 /\ NowThere("indexes", a, b, left \ {change}, id)
  BY <1>2 DEF StillThere, NowThere, change
<1>5. ASSUME NEW other, StillThere("indexes", a, b, left, other), IsIndexed(kind, a.indexes[other]),
             a.indexes[other].name \notin after
      PROVE  /\ a.indexes[other].name \in DOMAIN now
             /\ other \notin after => now[a.indexes[other].name] = IndexDefinition(a.indexes[other])
             /\ a.indexes[other].name # i.name
  BY <1>1, <1>3, <1>5 DEF IndexesMidway
<1>6. ASSUME NEW other, NowThere("indexes", a, b, left, other) \/ other = id,
             IsIndexed(kind, b.indexes[other]), b.indexes[other].name \notin after
      PROVE  StandsAs(now, b.indexes[other], IndexDefinition(b.indexes[other]))
  BY <1>1, <1>3, <1>6 DEF IndexesMidway, StandsAs, i
<1>7. ASSUME NEW x, NEW other, NowThere("indexes", a, b, left, x) \/ x = id,
             StillThere("indexes", a, b, left, other), IsIndexed(kind, a.indexes[other]),
             b.indexes[x].name = a.indexes[other].name
      PROVE  b.indexes[x].name \in after
  <2>1. CASE NowThere("indexes", a, b, left, x)
    BY <1>7, <2>1 DEF IndexesMidway
  <2>2. CASE x = id
    BY <1>5, <1>7, <2>2 DEF i
  <2> QED
    BY <1>7, <2>1, <2>2
<1>8. \A other \in DOMAIN a.indexes \intersect DOMAIN b.indexes : ChangeIn("indexes", a, b, other) # change
  BY <1>2
<1>9. \A other \in DOMAIN a.indexes \intersect DOMAIN b.indexes : ModifiedLater(a, b, left \ {change}, after, other)
  <2>1. ASSUME NEW other \in DOMAIN a.indexes \intersect DOMAIN b.indexes
        PROVE  ModifiedLater(a, b, left \ {change}, after, other)
    <3>1. ModifiedLater(a, b, left, u, other)
      BY DEF IndexesMidway
    <3> QED
      BY <1>8, <3>1, OthersModified
  <2> QED
    BY <2>1
<1>10. after = {} => IndexesAccounted(kind, now, a, b, left \ {change})
  <2>1. ASSUME after = {}, NEW n \in DOMAIN now
        PROVE  \/ \E o : /\ StillThere("indexes", a, b, left \ {change}, o) /\ IsIndexed(kind, a.indexes[o])
                         /\ a.indexes[o].name = n
               \/ \E o : /\ NowThere("indexes", a, b, left \ {change}, o) /\ IsIndexed(kind, b.indexes[o])
                         /\ b.indexes[o].name = n
    <3>1. CASE n \in DOMAIN idxs
      <4>1. IndexesAccounted(kind, idxs, a, b, left)
        BY <2>1 DEF IndexesMidway
      <4> QED
        BY <1>4, <3>1, <4>1 DEF IndexesAccounted
    <3>2. CASE n = i.name
      <4>1. IsIndexed(kind, b.indexes[id])
        BY <1>3, <2>1 DEF i
      <4> QED
        BY <1>4, <3>2, <4>1 DEF i
    <3> QED
      BY <1>1, <2>1, <3>1, <3>2
  <2> QED
    BY <2>1 DEF IndexesAccounted
<1>11. IndexesMidway(kind, now, a, b, left \ {change}, after)
  BY <1>4, <1>5, <1>6, <1>7, <1>9, <1>10 DEF IndexesMidway
<1> QED
  BY <1>11 DEF change, now, i

LEMMA IndexRemoved ==
  ASSUME NEW kind, NEW idxs, NEW a, NEW b, NEW left, NEW u, NEW after,
         NEW id \in DOMAIN a.indexes \ DOMAIN b.indexes,
         NamesApart(a), IndexesMidway(kind, idxs, a, b, left, u), ChangeIn("indexes", a, b, id) \in left,
         u \subseteq after, ~IsIndexed(kind, a.indexes[id]) => a.indexes[id].name \in after
  PROVE  IndexesMidway(kind, Drop(idxs, a.indexes[id].name), a, b,
                       left \ {ChangeIn("indexes", a, b, id)}, after)
<1> DEFINE change == ChangeIn("indexes", a, b, id)
           name == a.indexes[id].name
           now == Drop(idxs, name)
<1>1. DOMAIN now = DOMAIN idxs \ {name} /\ \A n \in DOMAIN now : now[n] = idxs[n]
  BY DEF Drop
<1>2. \A other, j \in DOMAIN a.indexes : a.indexes[other].name = a.indexes[j].name => other = j
  <2>1. \A other, j \in DOMAIN a["indexes"] : a["indexes"][other].name = a["indexes"][j].name => other = j
    BY DEF NamesApart, Tabled
  <2> QED
    BY <2>1
<1>3. \A other \in DOMAIN a.indexes \union DOMAIN b.indexes : ChangeIn("indexes", a, b, other) = change => other = id
  <2>1. ASSUME NEW other \in DOMAIN a["indexes"] \union DOMAIN b["indexes"],
               ChangeIn("indexes", a, b, other) = ChangeIn("indexes", a, b, id)
        PROVE  other \in DOMAIN a["indexes"] /\ a["indexes"][other].name = a["indexes"][id].name
    BY <2>1, RemovedOnce DEF Tabled
  <2> QED
    BY <1>2, <2>1
<1>4. StillThere("indexes", a, b, left, id)
  BY DEF StillThere
<1> HIDE DEF change, name, now
<1>5. \A other : /\ StillThere("indexes", a, b, left \ {change}, other)
                      <=> StillThere("indexes", a, b, left, other) /\ other # id
                 /\ NowThere("indexes", a, b, left \ {change}, other) <=> NowThere("indexes", a, b, left, other)
  BY <1>3 DEF StillThere, NowThere, change
<1>6. ASSUME NEW other, StillThere("indexes", a, b, left, other), other # id,
             IsIndexed(kind, a.indexes[other]), a.indexes[other].name \notin after
      PROVE  /\ a.indexes[other].name \in DOMAIN now
             /\ other \notin after => now[a.indexes[other].name] = IndexDefinition(a.indexes[other])
  <2>1. a.indexes[other].name # name
    BY <1>2, <1>6 DEF StillThere, name
  <2> QED
    BY <1>1, <1>6, <2>1 DEF IndexesMidway
<1>7. ASSUME NEW other, NowThere("indexes", a, b, left, other),
             IsIndexed(kind, b.indexes[other]), b.indexes[other].name \notin after
      PROVE  StandsAs(now, b.indexes[other], IndexDefinition(b.indexes[other]))
  <2>1. b.indexes[other].name # name
    BY <1>4, <1>7 DEF IndexesMidway, name
  <2> QED
    BY <1>1, <1>7, <2>1 DEF IndexesMidway, StandsAs
<1>8. \A other \in DOMAIN a.indexes \intersect DOMAIN b.indexes : ChangeIn("indexes", a, b, other) # change
  BY <1>3
<1>9. \A other \in DOMAIN a.indexes \intersect DOMAIN b.indexes : ModifiedLater(a, b, left \ {change}, after, other)
  <2>1. ASSUME NEW other \in DOMAIN a.indexes \intersect DOMAIN b.indexes
        PROVE  ModifiedLater(a, b, left \ {change}, after, other)
    <3>1. ModifiedLater(a, b, left, u, other)
      BY DEF IndexesMidway
    <3> QED
      BY <1>8, <3>1, OthersModified
  <2> QED
    BY <2>1
<1>10. after = {} => IndexesAccounted(kind, now, a, b, left \ {change})
  BY <1>1, <1>5 DEF IndexesMidway, IndexesAccounted, name
<1>11. \A x, other : /\ NowThere("indexes", a, b, left, x) /\ StillThere("indexes", a, b, left, other)
                     /\ IsIndexed(kind, a.indexes[other]) /\ b.indexes[x].name = a.indexes[other].name
                     => b.indexes[x].name \in after
  BY DEF IndexesMidway
<1>12. IndexesMidway(kind, now, a, b, left \ {change}, after)
  BY <1>5, <1>6, <1>7, <1>9, <1>10, <1>11 DEF IndexesMidway
<1> QED
  BY <1>12 DEF change, now, name

(* What a statement does to the columns, the values, the indexes and the   *)
(* key.                                                                    *)
LEMMA ColumnsStep ==
  ASSUME NEW t, TableShape(t), NEW a, NEW b, NEW left, NEW change, Between(a, b, left, change), NEW u,
         engine = "sqlite", ~StatementFails(t, change), ColumnsMidway(t.columns, a, b, left, u)
  PROVE  ColumnsMidway(StatementResult(t, change).columns, a, b, left \ {change},
                       u \union LeftAsItIs(t, change))
<1>1. change \in SchemaDiff(a, b)
  BY DEF Between
<1>2. CASE change.of # "fields"
  <2>1. \A id : ChangeIn("fields", a, b, id) # change
    BY <1>2, ChangeParts
  <2>2. ColumnsMidway(t.columns, a, b, left \ {change}, u \union LeftAsItIs(t, change))
    BY <2>1, ColumnsKept
  <2> QED
    BY <1>2, <2>2, StatementLeaves
<1>3. CASE change.of = "fields"
  <2>1. PICK id \in DOMAIN a["fields"] \union DOMAIN b["fields"] : change = ChangeIn("fields", a, b, id)
    BY <1>1, <1>3, DiffOnly DEF Tabled
  <2>2. change.kind = IF id \notin DOMAIN a["fields"] THEN "added"
                      ELSE IF id \notin DOMAIN b["fields"] THEN "removed" ELSE "modified"
    BY <2>1, ChangeParts
  <2>3. CASE id \notin DOMAIN a["fields"]
    <3>1. change.kind = "added" /\ Added(change) = {b["fields"][id]}
      BY <2>1, <2>2, <2>3, AddedIs DEF Tabled
    <3>2. ~AddColumnFails(t, b["fields"][id])
      BY <1>3, <3>1 DEF StatementFails
    <3>3. b.fields[id].name \notin DOMAIN t.columns
      BY <3>2 DEF AddColumnFails
    <3>4. b.fields[id].type = "enum" => id \in LeftAsItIs(t, change)
      BY <2>1, <2>3, EnumLeaves
    <3>5. ColumnsMidway(WithColumn(t.columns, b.fields[id]), a, b, left \ {change},
                        u \union LeftAsItIs(t, change))
      BY <2>1, <2>3, <3>3, <3>4, ColumnAdded DEF Between
    <3>6. StatementResult(t, change) = [t EXCEPT !.columns = WithColumn(t.columns, b.fields[id])]
      BY <1>3, <3>1, StatementMakes
    <3>7. StatementResult(t, change).columns = WithColumn(t.columns, b.fields[id])
      BY <3>6 DEF TableShape
    <3> QED
      BY <3>5, <3>7
  <2>4. CASE id \in DOMAIN a["fields"] \ DOMAIN b["fields"]
    <3>1. change.kind = "removed"
      BY <2>2, <2>4
    <3> QED
      BY <1>3, <3>1 DEF StatementFails, DropColumnFails
  <2>5. CASE id \in DOMAIN a["fields"] \intersect DOMAIN b["fields"]
    <3>1. change.kind = "modified"
      BY <2>2, <2>5
    <3>2. "rename column" \notin Evolves(engine)
      BY DEF Evolves
    <3>3. "rename column" \notin ChangeNeeds(change)
      BY <3>2 DEF StatementFails
    <3>4. \A p \in DOMAIN change.forward.set : p.prop # "name"
      BY <1>3, <3>1, <3>3 DEF ChangeNeeds
    <3>5. ASSUME NEW o \in DOMAIN a["fields"] \intersect DOMAIN b["fields"], ChangeIn("fields", a, b, o) = change
          PROVE  /\ a["fields"][o].name = b["fields"][o].name
                 /\ a["fields"][o] # b["fields"][o] => o \in LeftAsItIs(t, change)
      BY <3>4, <3>5, ModifiedLeaves DEF Between, Tabled
    <3>6. /\ \A o \in DOMAIN a["fields"] \ DOMAIN b["fields"] : ChangeIn("fields", a, b, o) # change
          /\ \A o \in DOMAIN b["fields"] \ DOMAIN a["fields"] : ChangeIn("fields", a, b, o) # change
      BY <3>1, ChangeParts
    <3>7. ColumnsMidway(t.columns, a, b, left \ {change}, u \union LeftAsItIs(t, change))
      BY <3>5, <3>6, ColumnsKept
    <3> QED
      BY <1>3, <3>1, <3>7, StatementMakes
  <2> QED
    BY <2>1, <2>3, <2>4, <2>5
<1> QED
  BY <1>2, <1>3

LEMMA ValuesStep ==
  ASSUME NEW t, NEW a, NEW b, NEW left, NEW change, Between(a, b, left, change), NEW u,
         ~StatementFails(t, change), ValuesMidway(a, b, left, u)
  PROVE  ValuesMidway(a, b, left \ {change}, u \union LeftAsItIs(t, change))
<1> SUFFICES ASSUME NEW id \in DOMAIN a.schemas \union DOMAIN b.schemas,
                    ~ValuesAgree(a, b, id), ChangeIn("schemas", a, b, id) = change
             PROVE  id \in LeftAsItIs(t, change)
  BY DEF ValuesMidway
<1> QED
  BY SchemaLeaves DEF Between

LEMMA IndexesStep ==
  ASSUME NEW t, TableShape(t), NEW a, NEW b, NEW left, NEW change, Between(a, b, left, change), NEW u,
         IndexesMidway(engine, t.indexes, a, b, left, u)
  PROVE  IndexesMidway(engine, StatementResult(t, change).indexes, a, b, left \ {change},
                       u \union LeftAsItIs(t, change))
<1>1. change \in SchemaDiff(a, b)
  BY DEF Between
<1>2. CASE change.of # "indexes"
  <2>1. \A id : ChangeIn("indexes", a, b, id) # change
    BY <1>2, ChangeParts
  <2>2. IndexesMidway(engine, t.indexes, a, b, left \ {change}, u \union LeftAsItIs(t, change))
    BY <2>1, IndexesKept
  <2> QED
    BY <1>2, <2>2, StatementLeaves
<1>3. CASE change.of = "indexes"
  <2>1. PICK id \in DOMAIN a["indexes"] \union DOMAIN b["indexes"] : change = ChangeIn("indexes", a, b, id)
    BY <1>1, <1>3, DiffOnly DEF Tabled
  <2>2. change.kind = IF id \notin DOMAIN a["indexes"] THEN "added"
                      ELSE IF id \notin DOMAIN b["indexes"] THEN "removed" ELSE "modified"
    BY <2>1, ChangeParts
  <2>3. CASE id \notin DOMAIN a["indexes"]
    <3>1. change.kind = "added" /\ Added(change) = {b["indexes"][id]}
      BY <2>1, <2>2, <2>3, AddedIs DEF Tabled
    <3>2. /\ b.indexes[id].name \in DOMAIN t.indexes => b.indexes[id].name \in LeftAsItIs(t, change)
          /\ ~IsIndexed(engine, b.indexes[id]) => b.indexes[id].name \in LeftAsItIs(t, change)
      BY <2>1, <2>3, IndexLeaves
    <3>3. IndexesMidway(engine, WithIndex(t.indexes, b.indexes[id]), a, b, left \ {change},
                        u \union LeftAsItIs(t, change))
      BY <2>1, <2>3, <3>2, IndexAdded DEF Between
    <3>4. StatementResult(t, change) = [t EXCEPT !.indexes = WithIndex(t.indexes, b.indexes[id])]
      <4>1. \A i : Added(change) = {i} =>
                 StatementResult(t, change) = [t EXCEPT !.indexes = WithIndex(t.indexes, i)]
        BY <1>3, <3>1, StatementMakes
      <4> QED
        BY <3>1, <4>1
    <3>5. StatementResult(t, change).indexes = WithIndex(t.indexes, b.indexes[id])
      BY <3>4 DEF TableShape
    <3> QED
      BY <3>3, <3>5
  <2>4. CASE id \in DOMAIN a["indexes"] \ DOMAIN b["indexes"]
    <3>1. change.kind = "removed" /\ change.entity = a["indexes"][id].name
      BY <2>1, <2>2, <2>4, RemovedOnce DEF Tabled
    <3>2. ~IsIndexed(engine, a.indexes[id]) => a.indexes[id].name \in LeftAsItIs(t, change)
      BY <2>1, <2>4, IndexLeaves
    <3>3. IndexesMidway(engine, Drop(t.indexes, a.indexes[id].name), a, b, left \ {change},
                        u \union LeftAsItIs(t, change))
      BY <2>1, <2>4, <3>2, IndexRemoved DEF Between
    <3>4. StatementResult(t, change) = [t EXCEPT !.indexes = Drop(t.indexes, a.indexes[id].name)]
      BY <1>3, <3>1, StatementMakes
    <3>5. StatementResult(t, change).indexes = Drop(t.indexes, a.indexes[id].name)
      BY <3>4 DEF TableShape
    <3> QED
      BY <3>3, <3>5
  <2>5. CASE id \in DOMAIN a["indexes"] \intersect DOMAIN b["indexes"]
    <3>1. change.kind = "modified"
      BY <2>2, <2>5
    <3>2. ASSUME NEW o \in DOMAIN a["indexes"] \intersect DOMAIN b["indexes"], ChangeIn("indexes", a, b, o) = change
          PROVE  /\ a["indexes"][o] # b["indexes"][o] => o \in LeftAsItIs(t, change)
                 /\ a["indexes"][o].name # b["indexes"][o].name =>
                      {a["indexes"][o].name, b["indexes"][o].name} \subseteq LeftAsItIs(t, change)
                 /\ a["indexes"][o].type # b["indexes"][o].type =>
                      b["indexes"][o].name \in LeftAsItIs(t, change)
      BY <3>2, ModifiedLeaves DEF Between, Tabled
    <3>3. /\ \A o \in DOMAIN a["indexes"] \ DOMAIN b["indexes"] : ChangeIn("indexes", a, b, o) # change
          /\ \A o \in DOMAIN b["indexes"] \ DOMAIN a["indexes"] : ChangeIn("indexes", a, b, o) # change
      BY <3>1, ChangeParts
    <3>4. IndexesMidway(engine, t.indexes, a, b, left \ {change}, u \union LeftAsItIs(t, change))
      BY <3>2, <3>3, IndexesKept
    <3> QED
      BY <1>3, <3>1, <3>4, StatementMakes
  <2> QED
    BY <2>1, <2>3, <2>4, <2>5
<1> QED
  BY <1>2, <1>3

(* A primary index that goes keeps its name in use, so that a key no       *)
(* primary index makes is kept only where something is.                    *)
LEMMA KeyStep ==
  ASSUME NEW t, NEW a, NEW b, NEW left, NEW change, NEW u, NEW key,
         engine = "sqlite", KeyMidway(key, a, b, left, u)
  PROVE  KeyMidway(key, a, b, left \ {change}, u \union LeftAsItIs(t, change))
<1> SUFFICES ASSUME u \union LeftAsItIs(t, change) = {},
                    NEW id \in DOMAIN a.indexes \ DOMAIN b.indexes, ~IsIndexed("sqlite", a.indexes[id]),
                    ChangeIn("indexes", a, b, id) = change
             PROVE  FALSE
  BY DEF KeyMidway
<1>1. a.indexes[id].name \in LeftAsItIs(t, change)
  BY IndexLeaves
<1> QED
  BY <1>1

(* The table at every moment of a migration, on a backend that applies     *)
(* columns in place.                                                       *)
TableFits(s) ==
  /\ IndexesFit(engine, table.indexes, s, untouched)
  /\ engine = "sqlite" => ColumnsFit(table.columns, s, untouched) /\ KeyFits(table.key, s, untouched)

TableMidway(a, b, left) ==
  /\ IndexesMidway(engine, table.indexes, a, b, left, untouched)
  /\ engine = "sqlite" =>
       /\ ColumnsMidway(table.columns, a, b, left, untouched)
       /\ ValuesMidway(a, b, left, untouched)
       /\ KeyMidway(table.key, a, b, left, untouched)

TableInv ==
  IF partial THEN plan = <<>>
  ELSE /\ TableShape(table)
       /\ plan = <<>> => TableFits(activeSchema)
       /\ InPlace => TableMidway(activeSchema, plan.target, plan.left)

EvolvesApart == \A s \in SchemaRevisions : NamesApart(s)

LEMMA FitsAtFirst ==
  ASSUME NEW a, Authored(a), NEW b, Authored(b)
  PROVE  TableFits(a) <=> TableMidway(a, b, SchemaDiff(a, b))
BY ColumnsAtFirst, IndexesAtFirst, ValuesAtFirst, KeyAtFirst DEF TableFits, TableMidway

LEMMA FitsAtLast ==
  ASSUME NEW a, NEW b, TableMidway(a, b, {})
  PROVE  TableFits(b)
BY ColumnsAtLast, IndexesAtLast, KeyAtLast DEF TableFits, TableMidway

LEMMA TableInductive == ASSUME EvolvesApart PROVE EvolutionSpec => []TableInv
<1>1. EvolutionInit => TableInv
  BY CreatedFits DEF EvolutionInit, EvolvingFrom, TableInv, TableFits, EvolvesApart, InPlace
<1>2. TableInv /\ PlanOK /\ [EvolutionNext]_evolutionVars => TableInv'
  <2> SUFFICES ASSUME TableInv, PlanOK, [EvolutionNext]_evolutionVars
               PROVE  TableInv'
    OBVIOUS
  <2> DEFINE a == activeSchema
             b == plan.target
  <2>1. /\ Authored(a) /\ NamesApart(a)
        /\ plan # <<>> =>
             /\ PlanOf(plan, a) /\ Authored(b) /\ NamesApart(b) /\ plan.left \subseteq SchemaDiff(a, b)
    BY RevisionsAssumption DEF PlanOK, PlanOf, EvolvesApart
  <2>2. ASSUME NEW target \in SchemaRevisions, NEW asked, StartMigration(target, asked)
        PROVE  TableInv'
    <3> DEFINE diff == SchemaDiff(a, target)
               phase == IF asked = "" THEN IF AllInPlace(diff) THEN "schema_only" ELSE "ddl" ELSE asked
    <3>a. /\ plan' = [target |-> target, diff |-> diff, left |-> diff, bump |-> VersionImpact(diff),
                      phase |-> phase]
          /\ plan = <<>> /\ ~partial
          /\ UNCHANGED <<engine, activeSchema, table, untouched, partial>>
      BY <2>2 DEF StartMigration
    <3> HIDE DEF diff, phase
    <3>b. plan'.target = target /\ plan'.left = diff /\ plan' # <<>>
      BY <3>a
    <3>1. /\ plan'.target = target /\ plan'.left = SchemaDiff(a, target) /\ plan' # <<>>
          /\ plan = <<>> /\ ~partial
          /\ UNCHANGED <<engine, activeSchema, table, untouched, partial>>
      BY <3>a, <3>b DEF diff
    <3>2. Authored(target)
      BY RevisionsAssumption
    <3>3. TableMidway(a, target, SchemaDiff(a, target)) /\ TableShape(table)
      BY <2>1, <3>1, <3>2, FitsAtFirst DEF TableInv
    <3>4. TableMidway(a, target, SchemaDiff(a, target))'
      BY <3>1, <3>3 DEF TableMidway
    <3> QED
      BY <3>1, <3>3, <3>4 DEF TableInv
  <2>3. ASSUME NEW change \in plan.left, InPlace, RunStatement(change)
        PROVE  TableInv'
    <3>1. /\ ~partial
          /\ table' = StatementResult(table, change) /\ ~StatementFails(table, change)
          /\ untouched' = untouched \union LeftAsItIs(table, change)
          /\ plan' = [plan EXCEPT !.left = @ \ {change}]
          /\ UNCHANGED <<engine, activeSchema, partial>>
      BY <2>3 DEF RunStatement, TableInv, InPlace
    <3>2. plan # <<>> /\ PlanOf(plan, a) /\ Between(a, b, plan.left, change)
      BY <2>1, <2>3 DEF InPlace, Between
    <3>3. plan'.target = b /\ plan'.left = plan.left \ {change} /\ plan' # <<>>
      BY <3>1, <3>2 DEF PlanOf
    <3>4. TableMidway(a, b, plan.left) /\ TableShape(table)
      BY <2>3, <3>1 DEF TableInv
    <3>5. IndexesMidway(engine, table'.indexes, a, b, plan.left \ {change}, untouched')
      BY <3>1, <3>2, <3>4, IndexesStep DEF TableMidway
    <3>6. ASSUME engine = "sqlite"
          PROVE  /\ ColumnsMidway(table'.columns, a, b, plan.left \ {change}, untouched')
                 /\ ValuesMidway(a, b, plan.left \ {change}, untouched')
                 /\ KeyMidway(table'.key, a, b, plan.left \ {change}, untouched')
      <4>1. ColumnsMidway(table'.columns, a, b, plan.left \ {change}, untouched')
        BY <3>1, <3>2, <3>4, <3>6, ColumnsStep DEF TableMidway
      <4>2. ValuesMidway(a, b, plan.left \ {change}, untouched')
        BY <3>1, <3>2, <3>4, <3>6, ValuesStep DEF TableMidway
      <4>3. table'.key = table.key
        BY <3>1, <3>4, StatementLeaves
      <4>4. KeyMidway(table.key, a, b, plan.left \ {change}, untouched')
        BY <3>1, <3>4, <3>6, KeyStep DEF TableMidway
      <4> QED
        BY <4>1, <4>2, <4>3, <4>4
    <3>7. TableShape(table')
      BY <3>1, <3>4, StatementLeaves
    <3>8. TableMidway(a, b, plan.left \ {change})'
      BY <3>1, <3>3, <3>5, <3>6 DEF TableMidway
    <3> QED
      BY <3>1, <3>3, <3>5, <3>6, <3>7 DEF TableInv, TableMidway
  <2>4. ASSUME NEW change \in plan.left, InPlace, StatementStops(change)
        PROVE  TableInv'
    <3>1. ~partial /\ UNCHANGED <<engine, activeSchema, table, untouched>>
      BY <2>4 DEF StatementStops, TableInv, InPlace
    <3>2. CASE plan.phase = "schema_only"
      <4>1. plan' = <<>> /\ partial' = (plan.left # plan.diff)
        BY <2>4, <3>2 DEF StatementStops
      <4> SUFFICES ASSUME plan.left = plan.diff
                   PROVE  TableInv'
        BY <4>1 DEF TableInv
      <4>2. TableMidway(a, b, SchemaDiff(a, b)) /\ TableShape(table)
        BY <2>1, <2>4, <3>1 DEF TableInv, InPlace, PlanOf
      <4>3. TableFits(a)
        BY <2>1, <2>4, <4>2, FitsAtFirst DEF InPlace
      <4>4. TableFits(a)'
        BY <3>1, <4>3 DEF TableFits
      <4> QED
        BY <3>1, <4>1, <4>2, <4>4 DEF TableInv, InPlace
    <3>3. CASE plan.phase # "schema_only"
      <4>1. plan' = [plan EXCEPT !.phase = "full"] /\ partial' = partial
        BY <2>4, <3>3 DEF StatementStops
      <4>2. PlanOf(plan, a)
        BY <2>1, <2>4 DEF InPlace
      <4>3. plan' # <<>> /\ plan'.phase = "full"
        BY <4>1, <4>2 DEF PlanOf
      <4>4. TableShape(table)
        BY <3>1 DEF TableInv
      <4> QED
        BY <3>1, <4>1, <4>3, <4>4 DEF TableInv, InPlace
    <3> QED
      BY <3>2, <3>3
  <2>5. ASSUME FinishInPlace
        PROVE  TableInv'
    <3>1. /\ InPlace /\ plan.left = {} /\ plan' = <<>> /\ activeSchema' = b
          /\ UNCHANGED <<engine, table, untouched, partial>>
      BY <2>5 DEF FinishInPlace, Activate
    <3>2. ~partial /\ TableShape(table) /\ TableFits(b)
      BY <3>1, FitsAtLast DEF TableInv, InPlace
    <3>3. TableFits(activeSchema)'
      BY <3>1, <3>2 DEF TableFits
    <3> QED
      BY <3>1, <3>2, <3>3 DEF TableInv, InPlace
  <2>6. ASSUME MigrateWithCopy
        PROVE  TableInv'
    <3>1. /\ plan # <<>> /\ plan' = <<>> /\ activeSchema' = b
          /\ table' \in CreatedTables(engine, b) /\ untouched' = {}
          /\ UNCHANGED <<engine, partial>>
      BY <2>6 DEF MigrateWithCopy, Activate
    <3>2. /\ TableShape(table')
          /\ IndexesFit(engine, table'.indexes, b, {})
          /\ ColumnsFit(table'.columns, b, {})
          /\ engine = "sqlite" => KeyFits(table'.key, b, {})
      BY <2>1, <3>1, CreatedFits
    <3>3. TableFits(activeSchema)'
      BY <3>1, <3>2 DEF TableFits
    <3> QED
      BY <3>1, <3>2, <3>3 DEF TableInv, InPlace
  <2>7. CASE UNCHANGED evolutionVars
    BY <2>7 DEF TableInv, TableFits, TableMidway, InPlace, evolutionVars
  <2> QED
    BY <2>2, <2>3, <2>4, <2>5, <2>6, <2>7 DEF EvolutionNext
<1> QED
  BY <1>1, <1>2, PlanInductive, PTL DEF EvolutionSpec

(* A table that fits a schema and keeps nothing as it was is one CREATE    *)
(* TABLE makes.                                                            *)
LEMMA FitIsCreated ==
  ASSUME NEW t, TableShape(t), NEW s, IndexesFit("sqlite", t.indexes, s, {}), ColumnsFit(t.columns, s, {}),
         KeyFits(t.key, s, {})
  PROVE  t \in CreatedTables("sqlite", s)
<1>1. t.columns = TableColumns(s)
  <2>1. DOMAIN t.columns = {s.fields[id].name : id \in DOMAIN s.fields}
    BY DEF ColumnsFit
  <2>2. ASSUME NEW n \in DOMAIN t.columns
        PROVE  t.columns[n] = ColumnDefinition(s, s.fields[CHOOSE id \in DOMAIN s.fields : s.fields[id].name = n])
    <3>1. \E id \in DOMAIN s.fields : s.fields[id].name = n
      BY <2>1
    <3>2. PICK id \in DOMAIN s.fields : id = (CHOOSE i \in DOMAIN s.fields : s.fields[i].name = n)
                                         /\ s.fields[id].name = n
      BY <3>1
    <3> QED
      BY <3>2 DEF ColumnsFit
  <2> QED
    BY <2>1, <2>2 DEF TableShape, TableColumns
<1>2. t.indexes = IndexesOf("sqlite", s)
  <2> DEFINE made == {id \in DOMAIN s.indexes : IsIndexed("sqlite", s.indexes[id])}
  <2>1. IndexesOf("sqlite", s) = [n \in {s.indexes[id].name : id \in made} |->
                                   IndexDefinition(s.indexes[CHOOSE id \in made : s.indexes[id].name = n])]
    BY DEF IndexesOf
  <2>2. \A id : id \in made <=> id \in DOMAIN s.indexes /\ IsIndexed("sqlite", s.indexes[id])
    OBVIOUS
  <2> HIDE DEF made
  <2>3. DOMAIN t.indexes = {s.indexes[id].name : id \in made}
    BY <2>2 DEF IndexesFit
  <2>4. ASSUME NEW n \in DOMAIN t.indexes
        PROVE  t.indexes[n] = IndexDefinition(s.indexes[CHOOSE id \in made : s.indexes[id].name = n])
    <3>1. \E id \in made : s.indexes[id].name = n
      BY <2>3
    <3>2. PICK id \in made : id = (CHOOSE i \in made : s.indexes[i].name = n) /\ s.indexes[id].name = n
      BY <3>1
    <3> QED
      BY <2>2, <3>2 DEF IndexesFit
  <2> QED
    BY <2>1, <2>3, <2>4 DEF TableShape
<1>3. t.key \in PrimaryKeys("sqlite", s)
  BY DEF KeyFits
<1> QED
  BY <1>1, <1>2, <1>3 DEF TableShape, CreatedTables

(* TableFitsVersion, for every set of revisions none of which gives two of *)
(* its fields, or two of its indexes, one name.                            *)
THEOREM TablesFitVersions == ASSUME EvolvesApart PROVE EvolutionSpec => []TableFitsVersion
<1>1. TableInv => TableFitsVersion
  <2> SUFFICES ASSUME TableInv, plan = <<>>, ~partial
               PROVE  TableFitsVersion
    BY DEF TableFitsVersion
  <2>1. TableShape(table) /\ TableFits(activeSchema)
    BY DEF TableInv
  <2>2. \A id \in DOMAIN activeSchema.indexes \ untouched :
          IsIndexed(engine, activeSchema.indexes[id]) /\ activeSchema.indexes[id].name \notin untouched =>
            StandsAs(table.indexes, activeSchema.indexes[id], IndexDefinition(activeSchema.indexes[id]))
    BY <2>1 DEF TableFits, IndexesFit, StandsAs
  <2>3. engine = "sqlite" =>
          \A id \in DOMAIN activeSchema.fields \ untouched :
            activeSchema.fields[id].schema \notin untouched =>
              StandsAs(table.columns, activeSchema.fields[id],
                       ColumnDefinition(activeSchema, activeSchema.fields[id]))
    BY <2>1 DEF TableFits, ColumnsFit, StandsAs
  <2>4. engine = "sqlite" /\ untouched = {} => table \in CreatedTables("sqlite", activeSchema)
    BY <2>1, FitIsCreated DEF TableFits
  <2> QED
    BY <2>2, <2>3, <2>4 DEF TableFitsVersion
<1> QED
  BY <1>1, TableInductive, PTL

=============================================================================
