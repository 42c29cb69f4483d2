--------------------------- MODULE RegistryProofs ---------------------------
(***************************************************************************)
(* Proofs about Registry, for any number of clients: what holds when they  *)
(* call at once, and what holds as long as no two calls overlap.           *)
(***************************************************************************)
EXTENDS Registry, SequenceTheorems, TLAPS

(* An entry the registry may store: its active version is one of its own.  *)
Sound(e) == e \in Entries /\ e.active \in Listed(e)

RowsInv == \A i \in DOMAIN rows : Sound(rows[i])
CacheInv == cache.status = "positive" => Sound(cache.entry)

(* A copy may be old, but it is sound, and in the transaction it still is  *)
(* the copy the operation's checks were made on.                           *)
CopyInv ==
  \A c \in Clients :
    /\ pc[c] \in {"fill", "publish"} => Sound(copy[c])
    /\ pc[c] = "transaction" =>
         /\ MayProceed(call[c], copy[c])
         /\ copy[c] # NoEntry => Sound(copy[c])

RegistryInv == TypeOK /\ RowsInv /\ CacheInv /\ CopyInv

(* What the operations do to an entry.                                     *)
LEMMA EntryShape ==
  ASSUME NEW e \in Entries
  PROVE  /\ Listed(e) \subseteq Versions
         /\ e.physical \in [Listed(e) -> Versions]
         /\ e.active \in Versions
         /\ e = [active |-> e.active, physical |-> e.physical]
         /\ e # NoEntry
  BY NoVersionAssumption DEF Entries, Listed, NoEntry

LEMMA FreshIsSound ==
  ASSUME NEW v \in Versions
  PROVE  Sound([active |-> v, physical |-> [w \in {v} |-> v]])
<1> DEFINE p == [w \in {v} |-> v]
<1>1. p \in [{v} -> Versions] /\ DOMAIN p = {v}
  OBVIOUS
<1> HIDE DEF p
<1>2. p \in UNION {[V -> Versions] : V \in SUBSET Versions}
  BY <1>1
<1>3. Sound([active |-> v, physical |-> p])
  BY <1>1, <1>2 DEF Sound, Entries, Listed
<1> QED
  BY <1>3 DEF p

LEMMA WithIsSound ==
  ASSUME NEW e, Sound(e), NEW v \in Versions, NEW t \in Versions
  PROVE  Sound(With(e, v, t))
<1> DEFINE p == [w \in Listed(e) \union {v} |-> IF w = v THEN t ELSE e.physical[w]]
<1>1. /\ Listed(e) \subseteq Versions
      /\ e.physical \in [Listed(e) -> Versions]
      /\ e.active \in Versions
      /\ e = [active |-> e.active, physical |-> e.physical]
  BY EntryShape DEF Sound
<1>2. With(e, v, t) = [active |-> e.active, physical |-> p]
  BY <1>1 DEF With
<1>3. p \in [Listed(e) \union {v} -> Versions]
  BY <1>1
<1> HIDE DEF p
<1>4. DOMAIN p = Listed(e) \union {v} /\ Listed(e) \union {v} \in SUBSET Versions
  BY <1>1, <1>3
<1> QED
  BY <1>1, <1>2, <1>3, <1>4 DEF Sound, Entries, Listed

LEMMA WithoutIsSound ==
  ASSUME NEW e, Sound(e), NEW v, v # e.active
  PROVE  Sound(Without(e, v))
<1> DEFINE p == [w \in Listed(e) \ {v} |-> e.physical[w]]
<1>1. /\ Listed(e) \subseteq Versions
      /\ e.physical \in [Listed(e) -> Versions]
      /\ e.active \in Versions
      /\ e = [active |-> e.active, physical |-> e.physical]
  BY EntryShape DEF Sound
<1>2. Without(e, v) = [active |-> e.active, physical |-> p]
  BY <1>1 DEF Without
<1>3. p \in [Listed(e) \ {v} -> Versions]
  BY <1>1
<1> HIDE DEF p
<1>4. DOMAIN p = Listed(e) \ {v} /\ Listed(e) \ {v} \in SUBSET Versions
  BY <1>1, <1>3
<1> QED
  BY <1>1, <1>2, <1>3, <1>4 DEF Sound, Entries, Listed

LEMMA ActivatedIsSound ==
  ASSUME NEW e, Sound(e), NEW v \in Listed(e)
  PROVE  Sound([e EXCEPT !.active = v])
<1>1. /\ Listed(e) \subseteq Versions
      /\ e.physical \in UNION {[V -> Versions] : V \in SUBSET Versions}
      /\ e = [active |-> e.active, physical |-> e.physical]
  BY EntryShape DEF Sound, Entries
<1>2. [e EXCEPT !.active = v] = [active |-> v, physical |-> e.physical]
  BY <1>1
<1> QED
  BY <1>1, <1>2 DEF Sound, Entries, Listed

(* NoEntry satisfies the checks of create only, an entry those of the      *)
(* others only.                                                            *)
LEMMA ChecksTellApart ==
  ASSUME NEW a, NEW e, MayProceed(a, e)
  PROVE  /\ e = NoEntry => a.kind = "create"
         /\ a.kind = "create" => e = NoEntry
  BY DEF MayProceed, NoEntry, Listed

----------------------------------------------------------------------------
LEMMA IdleTypes == "idle" \in PCs /\ NoCall \in CallRecords
  BY DEF PCs, NoCall, CallRecords

LEMMA RegistryInit == Init => RegistryInv
<1> SUFFICES ASSUME Init PROVE RegistryInv
  OBVIOUS
<1>1. pc \in [Clients -> PCs] /\ call \in [Clients -> CallRecords]
  BY IdleTypes DEF Init
<1>2. rows \in Seq(Entries) /\ tables \subseteq Versions /\ past = {}
  BY DEF Init
<1>3. copy \in [Clients -> Entries \union {NoEntry}]
  BY DEF Init
<1>4. cache = Miss /\ cache.status = "miss"
  BY DEF Init, Miss
<1>5. TypeOK
  BY <1>1, <1>2, <1>3, <1>4 DEF TypeOK
<1>6. RowsInv /\ CacheInv
  BY <1>4 DEF Init, RowsInv, CacheInv
<1>7. CopyInv
  BY DEF Init, CopyInv
<1> QED
  BY <1>5, <1>6, <1>7 DEF RegistryInv

(* A step of a client gives it a program counter, a call and a copy, and   *)
(* leaves those of the others.                                             *)
ClientTypes ==
  /\ pc \in [Clients -> PCs]
  /\ call \in [Clients -> CallRecords]
  /\ copy \in [Clients -> Entries \union {NoEntry}]

LEMMA OneClientSteps ==
  ASSUME RegistryInv, NEW c \in Clients,
         NEW p \in PCs, NEW a \in CallRecords, NEW e \in Entries \union {NoEntry},
         pc' = [pc EXCEPT ![c] = p],
         call' = [call EXCEPT ![c] = a],
         copy' = [copy EXCEPT ![c] = e],
         p \in {"fill", "publish"} => Sound(e),
         p = "transaction" => MayProceed(a, e) /\ (e # NoEntry => Sound(e))
  PROVE  ClientTypes' /\ CopyInv'
<1>1. ClientTypes'
  BY DEF RegistryInv, TypeOK, ClientTypes
<1>2. pc'[c] = p /\ call'[c] = a /\ copy'[c] = e
  BY DEF RegistryInv, TypeOK
<1>3. ASSUME NEW d \in Clients, d # c
      PROVE  pc'[d] = pc[d] /\ call'[d] = call[d] /\ copy'[d] = copy[d]
  BY <1>3 DEF RegistryInv, TypeOK
<1>4. ASSUME NEW d \in Clients
      PROVE  /\ pc'[d] \in {"fill", "publish"} => Sound(copy'[d])
             /\ pc'[d] = "transaction" =>
                  /\ MayProceed(call'[d], copy'[d])
                  /\ copy'[d] # NoEntry => Sound(copy'[d])
  <2>1. CASE d = c
    BY <2>1, <1>2
  <2>2. CASE d # c
    BY <2>2, <1>3 DEF RegistryInv, CopyInv
  <2> QED
    BY <2>1, <2>2
<1>5. CopyInv'
  BY <1>4 DEF CopyInv, Sound, MayProceed, Listed
<1> QED
  BY <1>1, <1>5

LEMMA ReturnKeeps ==
  ASSUME RegistryInv, NEW c \in Clients, Return(c)
  PROVE  ClientTypes' /\ CopyInv'
  BY OneClientSteps, IdleTypes DEF Return

(* A client that goes on with an entry the cache or the database gave it.  *)
LEMMA ContinueKeeps ==
  ASSUME RegistryInv, NEW c \in Clients, NEW e, Sound(e) \/ e = NoEntry,
         Continue(c, e)
  PROVE  ClientTypes' /\ CopyInv'
<1>1. CASE MayProceed(call[c], e)
  <2>1. /\ pc' = [pc EXCEPT ![c] = "transaction"]
        /\ copy' = [copy EXCEPT ![c] = e]
        /\ call' = [call EXCEPT ![c] = call[c]]
    BY <1>1 DEF Continue, RegistryInv, TypeOK
  <2>2. "transaction" \in PCs /\ call[c] \in CallRecords /\ e \in Entries \union {NoEntry}
    BY DEF PCs, RegistryInv, TypeOK, Sound
  <2> QED
    BY <1>1, <2>1, <2>2, OneClientSteps
<1>2. CASE ~MayProceed(call[c], e)
  BY <1>2, ReturnKeeps DEF Continue
<1> QED
  BY <1>1, <1>2

----------------------------------------------------------------------------
(* What the steps leave in the database and the cache.                     *)
Untouched == UNCHANGED <<rows, tables, cache, past>>

DataOk ==
  /\ rows \in Seq(Entries)
  /\ tables \subseteq Versions
  /\ cache \in {Miss, Negative} \union {Positive(e) : e \in Entries}
  /\ past \subseteq {"overlapped", "in place"}
  /\ RowsInv
  /\ CacheInv

LEMMA Assemble == DataOk /\ ClientTypes /\ CopyInv <=> RegistryInv
  BY DEF DataOk, ClientTypes, RegistryInv, TypeOK

LEMMA UntouchedKeeps ==
  ASSUME RegistryInv, Untouched
  PROVE  DataOk'
  BY DEF Untouched, DataOk, RegistryInv, TypeOK, RowsInv, CacheInv, Sound, Listed

CacheValues == {Miss, Negative} \union {Positive(e) : e \in Entries}

LEMMA CacheValuesSound ==
  /\ Miss \in CacheValues /\ Miss.status # "positive"
  /\ Negative \in CacheValues /\ Negative.status # "positive"
  /\ \A e \in Entries : Positive(e) \in CacheValues /\ Positive(e).entry = e
  BY DEF CacheValues, Miss, Negative, Positive

LEMMA CacheSet ==
  ASSUME RegistryInv, UNCHANGED <<rows, tables, past>>,
         \/ cache' \in {Miss, Negative}
         \/ \E e \in Entries : Sound(e) /\ cache' = Positive(e)
  PROVE  DataOk'
<1>1. rows' \in Seq(Entries) /\ tables' \subseteq Versions
      /\ past' \subseteq {"overlapped", "in place"}
  BY DEF RegistryInv, TypeOK
<1>2. RowsInv'
  BY DEF RegistryInv, RowsInv, Sound, Listed
<1>3. cache' \in CacheValues /\ (cache'.status = "positive" => Sound(cache'.entry))
  BY CacheValuesSound
<1>4. CacheInv'
  BY <1>3 DEF CacheInv, Sound, Listed
<1> QED
  BY <1>1, <1>2, <1>3, <1>4 DEF DataOk, CacheValues, Miss, Negative, Positive

(* The transaction writes a sound entry into every row.                    *)
LEMMA RowsUpdated ==
  ASSUME RegistryInv, NEW e \in Entries, Sound(e),
         rows' = [i \in DOMAIN rows |-> e], UNCHANGED cache,
         tables' \subseteq Versions, past' \subseteq {"overlapped", "in place"}
  PROVE  DataOk'
<1>0. rows \in Seq(Entries)
  BY DEF RegistryInv, TypeOK
<1>1. rows' \in Seq(Entries)
  <2>1. PICK n \in Nat : rows \in [1 .. n -> Entries]
    <3>1. Len(rows) \in Nat /\ rows \in [1 .. Len(rows) -> Entries]
      BY <1>0, LenProperties
    <3> QED
      BY <3>1
  <2>2. rows' \in [1 .. n -> Entries]
    BY <2>1
  <2>3. rows' \in UNION {[1 .. m -> Entries] : m \in Nat}
    BY <2>2
  <2> QED
    BY <2>3, SeqDef, Zenon
<1>2. RowsInv'
  BY DEF RowsInv, Sound, Listed
<1>3. CacheInv' /\ cache' \in {Miss, Negative} \union {Positive(f) : f \in Entries}
  BY DEF RegistryInv, TypeOK, CacheInv, Sound, Listed
<1> QED
  BY <1>1, <1>2, <1>3 DEF DataOk

LEMMA Committed ==
  ASSUME RegistryInv, NEW c \in Clients, NEW k, Committing(c, k),
         NEW e \in Entries, Sound(e), copy' = [copy EXCEPT ![c] = e]
  PROVE  ClientTypes' /\ CopyInv'
<1>1. "publish" \in PCs /\ call[c] \in CallRecords
  BY DEF PCs, RegistryInv, TypeOK
<1>2. call' = [call EXCEPT ![c] = call[c]]
  BY DEF Committing, RegistryInv, TypeOK
<1> QED
  BY <1>1, <1>2, OneClientSteps DEF Committing

----------------------------------------------------------------------------
(* One step, by what it does.                                              *)
LEMMA StartKeeps ==
  ASSUME RegistryInv, NEW c \in Clients, NEW a \in Calls, Start(c, a)
  PROVE  DataOk' /\ ClientTypes' /\ CopyInv'
<1>1. DataOk'
  <2>1. past' \subseteq {"overlapped", "in place"}
    BY DEF Start, RegistryInv, TypeOK
  <2> QED
    BY <2>1 DEF Start, DataOk, RegistryInv, TypeOK, RowsInv, CacheInv, Sound, Listed
<1>2. a \in CallRecords
  <2>1. \A i \in DOMAIN rows : rows[i].physical[rows[i].active] \in Versions
    BY EntryShape DEF RegistryInv, RowsInv, Sound
  <2> QED
    BY <2>1 DEF Calls, CallRecords
<1>3. \E p \in {"load", "lookup"} : pc' = [pc EXCEPT ![c] = p]
  BY DEF Start
<1>4. copy' = [copy EXCEPT ![c] = copy[c]] /\ copy[c] \in Entries \union {NoEntry}
  BY DEF Start, RegistryInv, TypeOK
<1>5. ClientTypes' /\ CopyInv'
  <2>1. PICK p \in {"load", "lookup"} : pc' = [pc EXCEPT ![c] = p]
    BY <1>3
  <2>2. p \in PCs
    BY DEF PCs
  <2> QED
    BY <1>2, <1>4, <2>1, <2>2, OneClientSteps DEF Start
<1> QED
  BY <1>1, <1>5

LEMMA LookupKeeps ==
  ASSUME RegistryInv, NEW c \in Clients, Lookup(c)
  PROVE  ClientTypes' /\ CopyInv'
<1>1. CASE cache = Miss
  <2>1. "load" \in PCs /\ call[c] \in CallRecords /\ copy[c] \in Entries \union {NoEntry}
    BY DEF PCs, RegistryInv, TypeOK
  <2>2. /\ pc' = [pc EXCEPT ![c] = "load"]
        /\ call' = [call EXCEPT ![c] = call[c]]
        /\ copy' = [copy EXCEPT ![c] = copy[c]]
    BY <1>1 DEF Lookup, RegistryInv, TypeOK
  <2> QED
    BY <2>1, <2>2, OneClientSteps
<1>2. CASE cache # Miss
  <2>1. CASE cache = Negative
    <3>1. cache.entry = NoEntry
      BY <2>1 DEF Negative
    <3> QED
      BY <1>2, <3>1, ContinueKeeps DEF Lookup
  <2>2. CASE cache # Negative
    <3>1. PICK e \in Entries : cache = Positive(e)
      BY <1>2, <2>2 DEF RegistryInv, TypeOK
    <3>2. Sound(cache.entry)
      BY <3>1 DEF RegistryInv, CacheInv, Positive
    <3> QED
      BY <1>2, <3>2, ContinueKeeps DEF Lookup
  <2> QED
    BY <2>1, <2>2
<1> QED
  BY <1>1, <1>2

LEMMA LoadKeeps ==
  ASSUME RegistryInv, NEW c \in Clients, Load(c)
  PROVE  ClientTypes' /\ CopyInv'
<1>0. /\ "nullify" \in PCs /\ "fill" \in PCs
      /\ call[c] \in CallRecords
      /\ copy[c] \in Entries \union {NoEntry}
  BY DEF PCs, RegistryInv, TypeOK
<1>1. CASE /\ pc' = [pc EXCEPT ![c] = "nullify"]
           /\ UNCHANGED <<call, copy>>
  <2>1. /\ call' = [call EXCEPT ![c] = call[c]]
        /\ copy' = [copy EXCEPT ![c] = copy[c]]
    BY <1>1 DEF RegistryInv, TypeOK
  <2> QED
    BY <1>0, <1>1, <2>1, OneClientSteps
<1>2. CASE /\ rows # <<>>
           /\ pc' = [pc EXCEPT ![c] = "fill"]
           /\ copy' = [copy EXCEPT ![c] = rows[Len(rows)]]
           /\ UNCHANGED call
  <2>1. Len(rows) \in DOMAIN rows
    <3>1. rows \in Seq(Entries) /\ rows # <<>>
      BY <1>2 DEF RegistryInv, TypeOK
    <3>2. Len(rows) \in Nat \ {0} /\ DOMAIN rows = 1 .. Len(rows)
      BY <3>1, EmptySeq, LenProperties
    <3> QED
      BY <3>2
  <2>2. Sound(rows[Len(rows)]) /\ rows[Len(rows)] \in Entries
    BY <2>1 DEF RegistryInv, RowsInv, Sound
  <2>3. call' = [call EXCEPT ![c] = call[c]]
    BY <1>2 DEF RegistryInv, TypeOK
  <2> QED
    BY <1>0, <1>2, <2>2, <2>3, OneClientSteps
<1>3. CASE Return(c)
  BY <1>3, ReturnKeeps
<1> QED
  BY <1>1, <1>2, <1>3 DEF Load

LEMMA NullifyMissingKeeps ==
  ASSUME RegistryInv, NEW c \in Clients, NullifyMissing(c)
  PROVE  DataOk' /\ ClientTypes' /\ CopyInv'
<1>1. DataOk'
  BY CacheSet DEF NullifyMissing
<1> QED
  BY <1>1, ContinueKeeps DEF NullifyMissing

LEMMA FillKeeps ==
  ASSUME RegistryInv, NEW c \in Clients, Fill(c)
  PROVE  DataOk' /\ ClientTypes' /\ CopyInv'
<1>1. Sound(copy[c]) /\ copy[c] \in Entries
  BY DEF Fill, RegistryInv, CopyInv, Sound
<1>2. DataOk'
  BY <1>1, CacheSet DEF Fill
<1> QED
  BY <1>1, <1>2, ContinueKeeps DEF Fill

(* What a client that commits has checked.                                 *)
LEMMA CheckedBefore ==
  ASSUME RegistryInv, NEW c \in Clients, NEW k, Committing(c, k)
  PROVE  /\ MayProceed(call[c], copy[c])
         /\ call[c].kind = k
         /\ k # "create" => Sound(copy[c]) /\ copy[c] \in Entries
<1>1. MayProceed(call[c], copy[c]) /\ (copy[c] # NoEntry => Sound(copy[c]))
  BY DEF Committing, RegistryInv, CopyInv
<1>2. call[c].kind = k
  BY DEF Committing
<1> QED
  BY <1>1, <1>2, ChecksTellApart DEF Sound

LEMMA VersionArgument ==
  ASSUME RegistryInv, NEW c \in Clients,
         call[c].kind \in {"create", "add", "activate", "prune"}
  PROVE  /\ call[c].version \in Versions
         /\ call[c].physical \in Versions \union {NoVersion}
  BY DEF RegistryInv, TypeOK, CallRecords

LEMMA CreateCollectionsKeeps ==
  ASSUME RegistryInv, NEW c \in Clients, CreateCollections(c)
  PROVE  DataOk' /\ ClientTypes' /\ CopyInv'
<1> DEFINE v == call[c].version
           e == [active |-> v, physical |-> [w \in {v} |-> v]]
<1>1. /\ Committing(c, "create")
      /\ rows' = Append(rows, e)
      /\ copy' = [copy EXCEPT ![c] = e]
      /\ tables' = tables \union {v}
      /\ UNCHANGED past
  BY DEF CreateCollections
<1>2. v \in Versions
  BY <1>1, CheckedBefore, VersionArgument
<1>3. Sound(e) /\ e \in Entries
  BY <1>2, FreshIsSound DEF Sound
<1> HIDE DEF e, v
<1>4. ClientTypes' /\ CopyInv'
  BY <1>1, <1>3, Committed
<1>5. rows' \in Seq(Entries) /\ RowsInv'
  <2>0. rows \in Seq(Entries)
    BY DEF RegistryInv, TypeOK
  <2>1. /\ rows' \in Seq(Entries)
        /\ Len(rows') = Len(rows) + 1
        /\ \A i \in 1 .. Len(rows) : rows'[i] = rows[i]
        /\ rows'[Len(rows) + 1] = e
    BY <1>1, <1>3, <2>0, AppendProperties
  <2>2. /\ Len(rows) \in Nat /\ DOMAIN rows = 1 .. Len(rows)
        /\ DOMAIN rows' = 1 .. Len(rows')
    BY <2>0, <2>1, LenProperties
  <2>3. \A i \in DOMAIN rows' : i = Len(rows) + 1 \/ i \in DOMAIN rows
    BY <2>1, <2>2
  <2>4. ASSUME NEW i \in DOMAIN rows' PROVE Sound(rows'[i])
    BY <1>3, <2>1, <2>2, <2>3 DEF RegistryInv, RowsInv
  <2> QED
    BY <2>1, <2>4 DEF RowsInv, Sound, Listed
<1>6. CacheInv' /\ cache' \in CacheValues
  BY <1>1 DEF Committing, RegistryInv, TypeOK, CacheInv, CacheValues, Sound, Listed
<1>7. tables' \subseteq Versions /\ past' \subseteq {"overlapped", "in place"}
  BY <1>1, <1>2 DEF RegistryInv, TypeOK
<1> QED
  BY <1>4, <1>5, <1>6, <1>7 DEF DataOk, CacheValues, Miss, Negative, Positive

(* The other transactions write their copy, changed, into every row.       *)
LEMMA UpdateKeeps ==
  ASSUME RegistryInv, NEW c \in Clients, NEW k, Committing(c, k),
         NEW e, Sound(e), UpdateRegistryEntry(c, e),
         tables' \subseteq Versions, past' \subseteq {"overlapped", "in place"}
  PROVE  DataOk' /\ ClientTypes' /\ CopyInv'
<1>1. e \in Entries
  BY DEF Sound
<1>2. UNCHANGED cache
  BY DEF Committing
<1> QED
  BY <1>1, <1>2, RowsUpdated, Committed DEF UpdateRegistryEntry

LEMMA AddSchemaVersionKeeps ==
  ASSUME RegistryInv, NEW c \in Clients, AddSchemaVersion(c)
  PROVE  DataOk' /\ ClientTypes' /\ CopyInv'
<1> DEFINE t == IF call[c].physical = NoVersion THEN call[c].version ELSE call[c].physical
<1>1. Committing(c, "add") /\ UpdateRegistryEntry(c, With(copy[c], call[c].version, t))
  BY DEF AddSchemaVersion
<1>2. Sound(copy[c])
  BY <1>1, CheckedBefore
<1>3. call[c].version \in Versions /\ t \in Versions
  BY <1>1, CheckedBefore, VersionArgument
<1>4. Sound(With(copy[c], call[c].version, t))
  BY <1>2, <1>3, WithIsSound
<1>5. tables' \subseteq Versions /\ past' \subseteq {"overlapped", "in place"}
  BY <1>3 DEF AddSchemaVersion, RegistryInv, TypeOK
<1> QED
  BY <1>1, <1>4, <1>5, UpdateKeeps

LEMMA SetActiveVersionKeeps ==
  ASSUME RegistryInv, NEW c \in Clients, SetActiveVersion(c)
  PROVE  DataOk' /\ ClientTypes' /\ CopyInv'
<1>1. /\ Committing(c, "activate")
      /\ UpdateRegistryEntry(c, [copy[c] EXCEPT !.active = call[c].version])
  BY DEF SetActiveVersion
<1>2. Sound(copy[c]) /\ call[c].version \in Listed(copy[c])
  BY <1>1, CheckedBefore DEF MayProceed
<1>3. Sound([copy[c] EXCEPT !.active = call[c].version])
  BY <1>2, ActivatedIsSound
<1>4. tables' \subseteq Versions /\ past' \subseteq {"overlapped", "in place"}
  BY DEF SetActiveVersion, RegistryInv, TypeOK
<1> QED
  BY <1>1, <1>3, <1>4, UpdateKeeps

LEMMA PruneVersionKeeps ==
  ASSUME RegistryInv, NEW c \in Clients, PruneVersion(c)
  PROVE  DataOk' /\ ClientTypes' /\ CopyInv'
<1>1. /\ Committing(c, "prune")
      /\ UpdateRegistryEntry(c, Without(copy[c], call[c].version))
  BY DEF PruneVersion
<1>2. Sound(copy[c]) /\ call[c].version # copy[c].active
  BY <1>1, CheckedBefore DEF MayProceed
<1>3. Sound(Without(copy[c], call[c].version))
  BY <1>2, WithoutIsSound
<1>4. tables' \subseteq Versions /\ past' \subseteq {"overlapped", "in place"}
  BY DEF PruneVersion, RegistryInv, TypeOK
<1> QED
  BY <1>1, <1>3, <1>4, UpdateKeeps

LEMMA DropCollectionKeeps ==
  ASSUME RegistryInv, NEW c \in Clients, DropCollection(c)
  PROVE  DataOk' /\ ClientTypes' /\ CopyInv'
<1>1. PICK k \in {"drop", "forget"} : Committing(c, k)
  BY DEF DropCollection
<1>2. Sound(copy[c]) /\ copy[c] \in Entries
  BY <1>1, CheckedBefore
<1>3. copy' = [copy EXCEPT ![c] = copy[c]]
  BY DEF DropCollection, RegistryInv, TypeOK
<1>4. ClientTypes' /\ CopyInv'
  BY <1>1, <1>2, <1>3, Committed
<1>5. rows' = <<>> /\ rows' \in Seq(Entries) /\ RowsInv'
  <2>1. rows' = <<>> /\ DOMAIN rows' = {}
    BY DEF DropCollection
  <2> QED
    BY <2>1, EmptySeq DEF RowsInv
<1>6. CacheInv' /\ cache' \in CacheValues
  BY <1>1 DEF Committing, RegistryInv, TypeOK, CacheInv, CacheValues, Sound, Listed
<1>7. tables' \subseteq Versions /\ past' \subseteq {"overlapped", "in place"}
  BY DEF DropCollection, RegistryInv, TypeOK
<1> QED
  BY <1>4, <1>5, <1>6, <1>7 DEF DataOk, CacheValues, Miss, Negative, Positive

LEMMA PublishKeeps ==
  ASSUME RegistryInv, NEW c \in Clients, Publish(c)
  PROVE  DataOk' /\ ClientTypes' /\ CopyInv'
<1>1. Sound(copy[c]) /\ copy[c] \in Entries
  BY DEF Publish, RegistryInv, CopyInv, Sound
<1>2. DataOk'
  BY <1>1, CacheSet DEF Publish
<1> QED
  BY <1>2, ReturnKeeps DEF Publish

----------------------------------------------------------------------------
LEMMA ClientsUntouched ==
  ASSUME RegistryInv, UNCHANGED clientVars
  PROVE  ClientTypes' /\ CopyInv'
  BY DEF clientVars, RegistryInv, TypeOK, ClientTypes, CopyInv, Sound, Listed,
         MayProceed

(* RegistryInv is inductive.                                               *)
LEMMA RegistryStep == RegistryInv /\ [Next]_vars => RegistryInv'
<1> SUFFICES ASSUME RegistryInv, [Next]_vars
             PROVE  DataOk' /\ ClientTypes' /\ CopyInv'
  BY Assemble DEF DataOk, ClientTypes, RegistryInv, TypeOK
<1>1. CASE UNCHANGED vars
  BY <1>1, UntouchedKeeps, ClientsUntouched DEF vars, Untouched
<1>2. CASE CacheForgets
  BY <1>2, CacheSet, ClientsUntouched DEF CacheForgets
<1>3. ASSUME NEW c \in Clients, NEW a \in Calls, Start(c, a)
      PROVE  DataOk' /\ ClientTypes' /\ CopyInv'
  BY <1>3, StartKeeps
<1>4. ASSUME NEW c \in Clients, Step(c)
      PROVE  DataOk' /\ ClientTypes' /\ CopyInv'
  <2>1. CASE Lookup(c)
    BY <2>1, LookupKeeps, UntouchedKeeps DEF Lookup, Untouched
  <2>2. CASE Load(c)
    BY <2>2, LoadKeeps, UntouchedKeeps DEF Load, Untouched
  <2>3. CASE NullifyMissing(c)
    BY <2>3, NullifyMissingKeeps
  <2>4. CASE Fill(c)
    BY <2>4, FillKeeps
  <2>5. CASE CreateCollections(c)
    BY <2>5, CreateCollectionsKeeps
  <2>6. CASE AddSchemaVersion(c)
    BY <2>6, AddSchemaVersionKeeps
  <2>7. CASE SetActiveVersion(c)
    BY <2>7, SetActiveVersionKeeps
  <2>8. CASE PruneVersion(c)
    BY <2>8, PruneVersionKeeps
  <2>9. CASE DropCollection(c)
    BY <2>9, DropCollectionKeeps
  <2>10. CASE TransactionFails(c)
    BY <2>10, ReturnKeeps, UntouchedKeeps DEF TransactionFails, Untouched
  <2>11. CASE Publish(c)
    BY <2>11, PublishKeeps
  <2> QED
    BY <1>4, <2>1, <2>2, <2>3, <2>4, <2>5, <2>6, <2>7, <2>8, <2>9, <2>10, <2>11
       DEF Step
<1> QED
  BY <1>1, <1>2, <1>3, <1>4 DEF Next

(* Whatever operations run at once, on however many clients, every stored  *)
(* entry and the one in the cache has its active version among its own:    *)
(* each write is a whole entry that its own operation checked.             *)
THEOREM ActiveVersionTheorem == Spec => [](TypeOK /\ ActiveIsListed)
<1>1. RegistryInv => TypeOK /\ ActiveIsListed
  BY DEF RegistryInv, RowsInv, CacheInv, Sound, ActiveIsListed
<1> QED
  BY <1>1, RegistryInit, RegistryStep, PTL DEF Spec

----------------------------------------------------------------------------
(* As long as no two calls overlap, what a call has read is still true     *)
(* when it is used, its cache included, and every change is a step of the  *)
(* catalog.                                                                *)

(* The entry the database has.                                             *)
Stored == IF rows = <<>> THEN NoEntry ELSE rows[1]

(* One call at a time.                                                     *)
Alone ==
  \A c, d \in Clients : pc[c] # "idle" /\ pc[d] # "idle" => c = d

Coherent ==
  \/ cache = Miss
  \/ rows = <<>> /\ cache = Negative
  \/ Len(rows) = 1 /\ cache = Positive(rows[1])

Removes(c) == call[c].kind \in {"drop", "forget"}

(* What a call has read is still what the database has, what it has        *)
(* written too; and the table it was given is that of a listed version.    *)
UpToDate(c) ==
  /\ pc[c] = "nullify" => rows = <<>>
  /\ pc[c] = "fill" => rows # <<>> /\ copy[c] = Stored
  /\ pc[c] = "transaction" => copy[c] = Stored
  /\ pc[c] = "publish" =>
       IF Removes(c) THEN rows = <<>> ELSE rows # <<>> /\ copy[c] = Stored
  /\ pc[c] \notin {"idle", "publish"} /\ call[c].physical # NoVersion =>
       \E w \in Listed(Stored) : call[c].physical = Stored.physical[w]

(* Without a version in place each version has the table of its name, so   *)
(* that no two share one.                                                  *)
OwnTables ==
  \A v \in Listed(Stored) : Stored.physical[v] = v /\ v \in tables

SequentialInv ==
  "overlapped" \notin past =>
    /\ Alone
    /\ Len(rows) <= 1
    /\ (\A c \in Clients : pc[c] # "publish") => Coherent
    /\ \A c \in Clients : UpToDate(c)
    /\ past = {} => OwnTables

(* Nothing is claimed once two calls have run at once.                     *)
Apart == "overlapped" \notin past

----------------------------------------------------------------------------
(* The stored entry.                                                       *)

LEMMA StoredIs ==
  ASSUME RegistryInv, Len(rows) <= 1
  PROVE  /\ rows = <<>> => Stored = NoEntry
         /\ rows # <<>> =>
              /\ Len(rows) = 1 /\ DOMAIN rows = {1}
              /\ Stored = rows[1] /\ Sound(Stored) /\ Stored # NoEntry
<1>1. rows \in Seq(Entries) /\ Len(rows) \in Nat /\ DOMAIN rows = 1 .. Len(rows)
  BY LenProperties DEF RegistryInv, TypeOK
<1>2. ASSUME rows # <<>>
      PROVE  /\ Len(rows) = 1 /\ DOMAIN rows = {1}
             /\ Stored = rows[1] /\ Sound(Stored) /\ Stored # NoEntry
  <2>1. Len(rows) # 0
    BY <1>1, <1>2, EmptySeq
  <2>2. Len(rows) = 1 /\ DOMAIN rows = {1}
    BY <1>1, <2>1
  <2>3. Stored = rows[1] /\ Sound(rows[1])
    BY <1>2, <2>2 DEF Stored, RegistryInv, RowsInv
  <2> QED
    BY <2>2, <2>3, EntryShape DEF Sound
<1> QED
  BY <1>2 DEF Stored

LEMMA WithShape ==
  ASSUME NEW e \in Entries, NEW v \in Versions, NEW t \in Versions
  PROVE  /\ Listed(With(e, v, t)) = Listed(e) \union {v}
         /\ With(e, v, t).physical[v] = t
         /\ \A w \in Listed(e) \ {v} : With(e, v, t).physical[w] = e.physical[w]
<1>1. With(e, v, t) =
        [active |-> e.active,
         physical |-> [w \in Listed(e) \union {v} |->
                         IF w = v THEN t ELSE e.physical[w]]]
  BY EntryShape DEF With
<1> QED
  BY <1>1 DEF Listed

LEMMA WithoutShape ==
  ASSUME NEW e \in Entries, NEW v \in Versions
  PROVE  /\ Listed(Without(e, v)) = Listed(e) \ {v}
         /\ \A w \in Listed(e) \ {v} : Without(e, v).physical[w] = e.physical[w]
<1>1. Without(e, v) =
        [active |-> e.active, physical |-> [w \in Listed(e) \ {v} |-> e.physical[w]]]
  BY EntryShape DEF Without
<1> QED
  BY <1>1 DEF Listed

LEMMA NothingListed == Listed(NoEntry) = {}
BY DEF Listed, NoEntry

LEMMA SequentialInitially == Init => SequentialInv
<1> SUFFICES ASSUME Init PROVE SequentialInv
  OBVIOUS
<1>1. rows = <<>> /\ Len(rows) = 0 /\ cache = Miss /\ \A c \in Clients : pc[c] = "idle"
  BY EmptySeq DEF Init
<1>2. Stored = NoEntry
  BY <1>1 DEF Stored
<1> QED
  BY <1>1, <1>2, NothingListed DEF SequentialInv, Alone, Coherent, UpToDate, OwnTables

----------------------------------------------------------------------------
(* One client acts while the others are idle.                              *)

LEMMA OthersIdle ==
  ASSUME SequentialInv, Apart, NEW c \in Clients, pc[c] # "idle"
  PROVE  \A d \in Clients : d # c => pc[d] = "idle"
BY DEF SequentialInv, Apart, Alone

LEMMA OneActs ==
  ASSUME RegistryInv, NEW c \in Clients, \A d \in Clients : d # c => pc[d] = "idle",
         NEW p \in PCs, pc' = [pc EXCEPT ![c] = p],
         UpToDate(c)', Len(rows') <= 1,
         p # "publish" => Coherent',
         past' = {} => OwnTables'
  PROVE  SequentialInv'
<1>1. pc \in [Clients -> PCs]
  BY DEF RegistryInv, TypeOK
<1>2. pc'[c] = p /\ \A d \in Clients : d # c => pc'[d] = "idle"
  BY <1>1
<1>3. Alone'
  BY <1>2 DEF Alone
<1>4. ASSUME NEW d \in Clients PROVE UpToDate(d)'
  <2>1. CASE d = c
    BY <2>1
  <2>2. CASE d # c
    BY <1>2, <2>2 DEF UpToDate
  <2> QED
    BY <2>1, <2>2
<1>5. (\A d \in Clients : pc'[d] # "publish") => Coherent'
  BY <1>2
<1> QED
  BY <1>3, <1>4, <1>5 DEF SequentialInv

LEMMA ReturnsApart ==
  ASSUME RegistryInv, SequentialInv, Apart, NEW c \in Clients, pc[c] # "idle", Return(c),
         UNCHANGED <<rows, tables, past>>, Coherent'
  PROVE  SequentialInv'
<1>1. pc' = [pc EXCEPT ![c] = "idle"] /\ "idle" \in PCs
  BY IdleTypes DEF Return
<1>2. pc'[c] = "idle"
  BY <1>1 DEF RegistryInv, TypeOK
<1>3. UpToDate(c)'
  BY <1>2 DEF UpToDate
<1>4. Len(rows') <= 1 /\ (past' = {} => OwnTables')
  BY DEF SequentialInv, Apart, OwnTables, Stored, Listed
<1> QED
  BY <1>1, <1>3, <1>4, OthersIdle, OneActs

(* A call goes on to a step that has nothing to do with what it has read.  *)
LEMMA GoesOnApart ==
  ASSUME RegistryInv, SequentialInv, Apart, NEW c \in Clients,
         pc[c] \in {"lookup", "load", "nullify", "fill"},
         NEW p \in {"load", "nullify", "fill", "transaction"},
         pc' = [pc EXCEPT ![c] = p], UNCHANGED <<rows, tables, past, call>>,
         p = "nullify" => rows = <<>>,
         p = "fill" => rows # <<>>,
         p \in {"fill", "transaction"} => copy'[c] = Stored,
         Coherent'
  PROVE  SequentialInv'
<1>1. p \in PCs /\ pc'[c] = p
  BY DEF PCs, RegistryInv, TypeOK
<1>2. call'[c] = call[c] /\ Stored' = Stored
  BY DEF Stored
<1>3. UpToDate(c)
  BY DEF SequentialInv, Apart
<1>4. UpToDate(c)'
  BY <1>1, <1>2, <1>3 DEF UpToDate, Listed
<1>5. Len(rows') <= 1 /\ (past' = {} => OwnTables')
  BY DEF SequentialInv, Apart, OwnTables, Stored, Listed
<1> QED
  BY <1>1, <1>4, <1>5, OthersIdle, OneActs

LEMMA ContinuesApart ==
  ASSUME RegistryInv, SequentialInv, Apart, NEW c \in Clients,
         pc[c] \in {"lookup", "nullify", "fill"},
         Continue(c, Stored), UNCHANGED <<rows, tables, past>>, Coherent'
  PROVE  SequentialInv'
<1>1. CASE Return(c)
  BY <1>1, ReturnsApart
<1>2. CASE /\ pc' = [pc EXCEPT ![c] = "transaction"]
           /\ copy' = [copy EXCEPT ![c] = Stored]
           /\ UNCHANGED call
  <2>1. copy'[c] = Stored
    BY <1>2 DEF RegistryInv, TypeOK
  <2> QED
    BY <1>2, <2>1, GoesOnApart
<1> QED
  BY <1>1, <1>2 DEF Continue

----------------------------------------------------------------------------
(* The steps that change neither the rows nor the tables.                  *)

LEMMA CoherentRemains ==
  ASSUME Coherent, UNCHANGED <<rows, cache>>
  PROVE  Coherent'
BY DEF Coherent

LEMMA CoherentNow ==
  ASSUME SequentialInv, Apart, NEW c \in Clients, pc[c] \notin {"idle", "publish"}
  PROVE  Coherent
BY OthersIdle DEF SequentialInv, Apart

LEMMA StartsApart ==
  ASSUME RegistryInv, SequentialInv, Apart', NEW c \in Clients, NEW a \in Calls, Start(c, a)
  PROVE  SequentialInv'
<1>1. /\ Apart /\ UNCHANGED <<rows, tables, cache, copy>> /\ past' = past
      /\ call' = [call EXCEPT ![c] = a]
      /\ \A d \in Clients : pc[d] = "idle"
  BY DEF Start, Apart
<1>2. PICK p \in {"load", "lookup"} : pc' = [pc EXCEPT ![c] = p]
  BY DEF Start
<1>3. p \in PCs /\ pc'[c] = p /\ call'[c] = a
  BY <1>1, <1>2 DEF PCs, RegistryInv, TypeOK
<1>4. Coherent'
  BY <1>1, CoherentRemains DEF SequentialInv, Apart
<1>5. ASSUME a.physical # NoVersion
      PROVE  \E w \in Listed(Stored) : a.physical = Stored.physical[w]
  <2>1. PICK i \in DOMAIN rows : a.physical = rows[i].physical[rows[i].active]
    BY <1>5 DEF Calls
  <2>2. rows # <<>>
    BY <2>1
  <2>3. rows[i] = Stored /\ Sound(Stored)
    BY <1>1, <2>1, <2>2, StoredIs DEF SequentialInv, Apart
  <2> QED
    BY <2>1, <2>3 DEF Sound
<1>6. Stored' = Stored
  BY <1>1 DEF Stored
<1>7. UpToDate(c)'
  BY <1>3, <1>5, <1>6 DEF UpToDate, Listed
<1>8. Len(rows') <= 1 /\ (past' = {} => OwnTables')
  BY <1>1 DEF SequentialInv, Apart, OwnTables, Stored, Listed
<1> QED
  BY <1>1, <1>2, <1>3, <1>4, <1>7, <1>8, OneActs

LEMMA LookupApart ==
  ASSUME RegistryInv, SequentialInv, Apart, NEW c \in Clients, Lookup(c)
  PROVE  SequentialInv'
<1>1. pc[c] = "lookup" /\ UNCHANGED <<rows, tables, cache, past>>
  BY DEF Lookup
<1>2. Coherent /\ Coherent'
  BY <1>1, CoherentNow, CoherentRemains
<1>3. CASE cache = Miss
  <2>1. pc' = [pc EXCEPT ![c] = "load"] /\ UNCHANGED <<call, copy>>
    BY <1>3 DEF Lookup
  <2> QED
    BY <1>1, <1>2, <2>1, GoesOnApart
<1>4. CASE cache # Miss
  <2>1. cache.entry = Stored
    <3>1. CASE rows = <<>> /\ cache = Negative
      BY <3>1 DEF Negative, Stored
    <3>2. CASE Len(rows) = 1 /\ cache = Positive(rows[1])
      BY <3>2, EmptySeq DEF Positive, Stored
    <3> QED
      BY <1>2, <1>4, <3>1, <3>2 DEF Coherent
  <2>2. Continue(c, Stored)
    BY <1>4, <2>1 DEF Lookup
  <2> QED
    BY <1>1, <1>2, <2>2, ContinuesApart
<1> QED
  BY <1>3, <1>4

LEMMA LoadApart ==
  ASSUME RegistryInv, SequentialInv, Apart, NEW c \in Clients, Load(c)
  PROVE  SequentialInv'
<1>1. pc[c] = "load" /\ UNCHANGED <<rows, tables, cache, past>>
  BY DEF Load
<1>2. Coherent /\ Coherent'
  BY <1>1, CoherentNow, CoherentRemains
<1>3. CASE /\ rows = <<>>
           /\ pc' = [pc EXCEPT ![c] = "nullify"]
           /\ UNCHANGED <<call, copy>>
  BY <1>1, <1>2, <1>3, GoesOnApart
<1>4. CASE /\ rows # <<>>
           /\ pc' = [pc EXCEPT ![c] = "fill"]
           /\ copy' = [copy EXCEPT ![c] = rows[Len(rows)]]
           /\ UNCHANGED call
  <2>1. Len(rows) = 1 /\ Stored = rows[1]
    BY <1>4, StoredIs DEF SequentialInv, Apart
  <2>2. copy'[c] = Stored
    BY <1>4, <2>1 DEF RegistryInv, TypeOK
  <2> QED
    BY <1>1, <1>2, <1>4, <2>2, GoesOnApart
<1>5. CASE Return(c)
  BY <1>1, <1>2, <1>5, ReturnsApart
<1> QED
  BY <1>3, <1>4, <1>5 DEF Load

LEMMA NullifyApart ==
  ASSUME RegistryInv, SequentialInv, Apart, NEW c \in Clients, NullifyMissing(c)
  PROVE  SequentialInv'
<1>1. /\ pc[c] = "nullify" /\ UNCHANGED <<rows, tables, past>> /\ cache' = Negative
      /\ Continue(c, NoEntry)
  BY DEF NullifyMissing
<1>2. rows = <<>> /\ Stored = NoEntry
  BY <1>1 DEF SequentialInv, Apart, UpToDate, Stored
<1> QED
  BY <1>1, <1>2, ContinuesApart DEF Coherent

LEMMA FillApart ==
  ASSUME RegistryInv, SequentialInv, Apart, NEW c \in Clients, Fill(c)
  PROVE  SequentialInv'
<1>1. /\ pc[c] = "fill" /\ UNCHANGED <<rows, tables, past>> /\ cache' = Positive(copy[c])
      /\ Continue(c, copy[c])
  BY DEF Fill
<1>2. rows # <<>> /\ copy[c] = Stored /\ Len(rows) = 1 /\ Stored = rows[1]
  BY <1>1, StoredIs DEF SequentialInv, Apart, UpToDate
<1>3. Coherent'
  BY <1>1, <1>2 DEF Coherent
<1> QED
  BY <1>1, <1>2, <1>3, ContinuesApart

LEMMA FailsApart ==
  ASSUME RegistryInv, SequentialInv, Apart, NEW c \in Clients, TransactionFails(c)
  PROVE  SequentialInv'
<1>1. pc[c] = "transaction" /\ UNCHANGED <<rows, tables, cache, past>> /\ Return(c)
  BY DEF TransactionFails
<1> QED
  BY <1>1, CoherentNow, CoherentRemains, ReturnsApart

LEMMA PublishApart ==
  ASSUME RegistryInv, SequentialInv, Apart, NEW c \in Clients, Publish(c)
  PROVE  SequentialInv'
<1>1. /\ pc[c] = "publish" /\ UNCHANGED <<rows, tables, past>> /\ Return(c)
      /\ cache' = IF Removes(c) THEN Miss ELSE Positive(copy[c])
  BY DEF Publish, Removes
<1>2. ~Removes(c) => rows # <<>> /\ copy[c] = Stored
  BY <1>1 DEF SequentialInv, Apart, UpToDate
<1>3. ~Removes(c) => Len(rows) = 1 /\ copy[c] = rows[1]
  BY <1>2, StoredIs DEF SequentialInv, Apart
<1>4. Coherent'
  BY <1>1, <1>3 DEF Coherent
<1> QED
  BY <1>1, <1>4, ReturnsApart

LEMMA ForgetsApart ==
  ASSUME SequentialInv, CacheForgets
  PROVE  SequentialInv'
<1>1. UNCHANGED <<rows, tables, pc, call, copy, past>> /\ cache' = Miss
  BY DEF CacheForgets, clientVars
<1> QED
  BY <1>1
  DEF SequentialInv, Alone, Coherent, UpToDate, OwnTables, Stored, Listed, Removes

----------------------------------------------------------------------------
(* The steps that do: each is one of the catalog.                          *)

(* A call commits what it makes of the entry that is stored.               *)
LEMMA CommitsApart ==
  ASSUME RegistryInv, SequentialInv, Apart, NEW c \in Clients,
         NEW k \in {"create", "add", "activate", "prune"}, Committing(c, k),
         NEW e \in Entries, copy' = [copy EXCEPT ![c] = e],
         rows' # <<>>, Len(rows') = 1, Stored' = e,
         past' = {} => OwnTables'
  PROVE  SequentialInv'
<1>1. /\ pc[c] = "transaction" /\ call[c].kind = k
      /\ pc' = [pc EXCEPT ![c] = "publish"] /\ UNCHANGED <<cache, call>>
  BY DEF Committing
<1>2. "publish" \in PCs /\ pc'[c] = "publish" /\ copy'[c] = e
  BY <1>1 DEF PCs, RegistryInv, TypeOK
<1>3. UpToDate(c)'
  BY <1>1, <1>2 DEF UpToDate, Removes
<1>4. \A d \in Clients : d # c => pc[d] = "idle"
  BY <1>1, OthersIdle
<1>5. Len(rows') <= 1
  OBVIOUS
<1> QED
  BY <1>1, <1>2, <1>3, <1>4, <1>5, OneActs

LEMMA CreatesApart ==
  ASSUME RegistryInv, SequentialInv, Apart, NEW c \in Clients, CreateCollections(c)
  PROVE  SequentialInv' /\ C!Create(call[c].version)
<1> DEFINE v == call[c].version
           e == [active |-> v, physical |-> [w \in {v} |-> v]]
<1>1. /\ Committing(c, "create")
      /\ rows' = Append(rows, e)
      /\ copy' = [copy EXCEPT ![c] = e]
      /\ tables' = tables \union {v}
      /\ past' = past
  BY DEF CreateCollections
<1>2. copy[c] = NoEntry /\ copy[c] = Stored
  BY <1>1, CheckedBefore, ChecksTellApart DEF Committing, SequentialInv, Apart, UpToDate
<1>3. rows = <<>>
  BY <1>2, StoredIs DEF SequentialInv, Apart
<1>4. v \in Versions
  BY <1>1, CheckedBefore, VersionArgument
<1>5. Sound(e) /\ e \in Entries
  BY <1>4, FreshIsSound DEF Sound
<1>6. e.active = v /\ Listed(e) = {v} /\ e.physical[v] = v
  BY DEF Listed
<1>7. C!Create(v)
  <2>1. rows' # <<>> /\ rows'[1] = e
    BY <1>1, <1>3, <1>5
  <2> QED
    BY <1>1, <1>3, <2>1 DEF C!Create, C!Exists, e
<1> HIDE DEF e
<1>8. rows' # <<>> /\ Len(rows') = 1 /\ rows'[1] = e
  BY <1>1, <1>3, <1>5
<1>9. Stored' = e
  BY <1>8 DEF Stored
<1>10. OwnTables'
  BY <1>1, <1>6, <1>9 DEF OwnTables, Listed
<1>11. SequentialInv'
  BY <1>1, <1>5, <1>8, <1>9, <1>10, CommitsApart
<1> QED
  BY <1>7, <1>11

LEMMA UpdatesApart ==
  ASSUME RegistryInv, SequentialInv, Apart, NEW c \in Clients,
         NEW k \in {"add", "activate", "prune"}, Committing(c, k)
  PROVE  /\ copy[c] = Stored /\ Sound(Stored) /\ Stored \in Entries
         /\ rows # <<>> /\ DOMAIN rows = {1}
         /\ call[c].version \in Versions
         /\ call[c].physical \in Versions \union {NoVersion}
         /\ call[c].physical # NoVersion =>
              \E w \in Listed(Stored) : call[c].physical = Stored.physical[w]
<1>1. pc[c] = "transaction"
  BY DEF Committing
<1>2. copy[c] = Stored /\ Sound(copy[c]) /\ Stored \in Entries
  BY <1>1, CheckedBefore DEF SequentialInv, Apart, UpToDate
<1>3. rows # <<>>
  BY <1>2, EntryShape DEF Stored
<1> QED
  BY <1>1, <1>2, <1>3, CheckedBefore, VersionArgument, StoredIs
  DEF SequentialInv, Apart, UpToDate

LEMMA RowReplaced ==
  ASSUME RegistryInv, DOMAIN rows = {1}, NEW e \in Entries,
         rows' = [i \in DOMAIN rows |-> e]
  PROVE  rows' # <<>> /\ Len(rows') = 1 /\ rows'[1] = e /\ Stored' = e
<1>1. rows' = [i \in 1 .. 1 |-> e]
  OBVIOUS
<1>2. rows' \in Seq(Entries)
  <2>1. rows' \in [1 .. 1 -> Entries]
    BY <1>1
  <2>2. rows' \in UNION {[1 .. n -> Entries] : n \in Nat}
    BY <2>1
  <2> QED
    BY <2>2, SeqDef, Zenon
<1>3. Len(rows') \in Nat /\ DOMAIN rows' = 1 .. Len(rows') /\ DOMAIN rows' = 1 .. 1
  BY <1>1, <1>2, LenProperties
<1>4. Len(rows') = 1
  BY <1>3
<1>5. rows' # <<>> /\ rows'[1] = e
  BY <1>1, <1>4, EmptySeq
<1> QED
  BY <1>4, <1>5 DEF Stored

LEMMA AddsApart ==
  ASSUME RegistryInv, SequentialInv, Apart', NEW c \in Clients, AddSchemaVersion(c)
  PROVE  SequentialInv' /\ \E t \in Versions : C!Add(call[c].version, t)
<1> DEFINE v == call[c].version
           t == IF call[c].physical = NoVersion THEN v ELSE call[c].physical
           e == With(Stored, v, t)
<1>1. /\ Committing(c, "add") /\ Apart
      /\ UpdateRegistryEntry(c, With(copy[c], v, t))
      /\ \/ /\ call[c].physical = NoVersion
            /\ tables' = tables \union {v} /\ past' = past
         \/ /\ call[c].physical # NoVersion
            /\ tables' = tables /\ past' = past \union {"in place"}
  BY DEF AddSchemaVersion, Apart
<1>2. /\ copy[c] = Stored /\ Sound(Stored) /\ Stored \in Entries
      /\ rows # <<>> /\ DOMAIN rows = {1} /\ v \in Versions /\ t \in Versions
      /\ call[c].physical # NoVersion =>
           \E w \in Listed(Stored) : t = Stored.physical[w]
  BY <1>1, UpdatesApart
<1>3. Sound(e) /\ e \in Entries /\ v \notin Listed(Stored)
  <2>1. v \notin Listed(Stored)
    <3>1. MayProceed(call[c], Stored) /\ call[c].kind = "add"
      BY <1>1, <1>2, CheckedBefore
    <3> QED
      BY <3>1 DEF MayProceed
  <2> HIDE DEF t
  <2>2. Sound(e)
    BY <1>2, WithIsSound
  <2> HIDE DEF e
  <2> QED
    BY <2>1, <2>2 DEF Sound
<1>4. rows' = [i \in DOMAIN rows |-> e] /\ copy' = [copy EXCEPT ![c] = e]
  BY <1>1, <1>2 DEF UpdateRegistryEntry
<1>5. rows' # <<>> /\ Len(rows') = 1 /\ rows'[1] = e /\ Stored' = e
  <2> HIDE DEF e
  <2> QED
    BY <1>2, <1>3, <1>4, RowReplaced
<1>6. /\ Listed(e) = Listed(Stored) \union {v}
      /\ e.physical[v] = t
      /\ \A w \in Listed(Stored) \ {v} : e.physical[w] = Stored.physical[w]
  BY <1>2, WithShape
<1>7. ASSUME past' = {} PROVE OwnTables'
  <2>1. past = {} /\ t = v /\ tables' = tables \union {v} /\ OwnTables
    BY <1>1, <1>7 DEF SequentialInv, Apart
  <2> HIDE DEF e, t
  <2> QED
    BY <1>5, <1>6, <2>1 DEF OwnTables, Listed
<1>8. C!Add(v, t)
  <2>1. Stored # NoEntry
    BY <1>2, EntryShape
  <2>2. \/ t = v /\ tables' = tables \union {v}
        \/ (\E w \in Listed(Stored) : t = Stored.physical[w]) /\ tables' = tables
    BY <1>1, <1>2
  <2> HIDE DEF t
  <2> QED
    BY <1>3, <1>5, <2>1, <2>2 DEF C!Add, C!Exists, C!Listed, Stored, Listed, With, e
<1>9. SequentialInv'
  <2> HIDE DEF e, t
  <2> QED
    BY <1>1, <1>3, <1>4, <1>5, <1>7, CommitsApart
<1> QED
  BY <1>2, <1>8, <1>9

LEMMA ActivatesApart ==
  ASSUME RegistryInv, SequentialInv, Apart, NEW c \in Clients, SetActiveVersion(c)
  PROVE  SequentialInv' /\ C!Activate(call[c].version)
<1> DEFINE v == call[c].version
           e == [Stored EXCEPT !.active = v]
<1>1. /\ Committing(c, "activate")
      /\ UpdateRegistryEntry(c, [copy[c] EXCEPT !.active = v])
      /\ UNCHANGED <<tables, past>>
  BY DEF SetActiveVersion
<1>2. /\ copy[c] = Stored /\ Sound(Stored) /\ Stored \in Entries
      /\ rows # <<>> /\ DOMAIN rows = {1} /\ v \in Versions
  BY <1>1, UpdatesApart
<1>3. v \in Listed(Stored) /\ v # Stored.active
  BY <1>1, <1>2, CheckedBefore DEF MayProceed
<1>4. /\ Sound(e) /\ e \in Entries /\ e.physical = Stored.physical
  BY <1>2, <1>3, ActivatedIsSound DEF Sound, Entries
<1>5. rows' = [i \in DOMAIN rows |-> e] /\ copy' = [copy EXCEPT ![c] = e]
  BY <1>1, <1>2 DEF UpdateRegistryEntry
<1>6. rows' # <<>> /\ Len(rows') = 1 /\ rows'[1] = e /\ Stored' = e
  <2> HIDE DEF e
  <2> QED
    BY <1>2, <1>4, <1>5, RowReplaced
<1>7. past' = {} => OwnTables'
  <2> HIDE DEF e
  <2> QED
    BY <1>1, <1>4, <1>6 DEF SequentialInv, Apart, OwnTables, Listed
<1>8. C!Activate(v)
  <2>1. Stored # NoEntry
    BY <1>2, EntryShape
  <2> QED
    BY <1>1, <1>3, <1>6, <2>1 DEF C!Activate, C!Exists, C!Listed, Stored, Listed, e
<1>9. SequentialInv'
  <2> HIDE DEF e
  <2> QED
    BY <1>1, <1>4, <1>5, <1>6, <1>7, CommitsApart
<1> QED
  BY <1>8, <1>9

LEMMA PrunesApart ==
  ASSUME RegistryInv, SequentialInv, Apart, NEW c \in Clients, PruneVersion(c)
  PROVE  SequentialInv' /\ C!Prune(call[c].version)
<1> DEFINE v == call[c].version
           e == Without(Stored, v)
<1>1. /\ Committing(c, "prune")
      /\ UpdateRegistryEntry(c, Without(copy[c], v))
      /\ tables' = tables \ {copy[c].physical[v]} /\ past' = past
  BY DEF PruneVersion
<1>2. /\ copy[c] = Stored /\ Sound(Stored) /\ Stored \in Entries
      /\ rows # <<>> /\ DOMAIN rows = {1} /\ v \in Versions
  BY <1>1, UpdatesApart
<1>3. v \in Listed(Stored) /\ v # Stored.active
  BY <1>1, <1>2, CheckedBefore DEF MayProceed
<1>4. Sound(e) /\ e \in Entries
  BY <1>2, <1>3, WithoutIsSound DEF Sound
<1>5. rows' = [i \in DOMAIN rows |-> e] /\ copy' = [copy EXCEPT ![c] = e]
  BY <1>1, <1>2 DEF UpdateRegistryEntry
<1>6. rows' # <<>> /\ Len(rows') = 1 /\ rows'[1] = e /\ Stored' = e
  <2> HIDE DEF e
  <2> QED
    BY <1>2, <1>4, <1>5, RowReplaced
<1>7. /\ Listed(e) = Listed(Stored) \ {v}
      /\ \A w \in Listed(Stored) \ {v} : e.physical[w] = Stored.physical[w]
  BY <1>2, WithoutShape
<1>8. ASSUME past' = {} PROVE OwnTables'
  <2>1. OwnTables /\ tables' = tables \ {v}
    BY <1>1, <1>2, <1>3, <1>8 DEF SequentialInv, Apart, OwnTables
  <2> HIDE DEF e
  <2> QED
    BY <1>6, <1>7, <2>1 DEF OwnTables, Listed
<1>9. C!Prune(v)
  <2>1. Stored # NoEntry
    BY <1>2, EntryShape
  <2> QED
    BY <1>1, <1>2, <1>3, <1>6, <2>1
    DEF C!Prune, C!Exists, C!Listed, Stored, Listed, Without, e
<1>10. SequentialInv'
  <2> HIDE DEF e
  <2> QED
    BY <1>1, <1>4, <1>5, <1>6, <1>8, CommitsApart
<1> QED
  BY <1>9, <1>10

LEMMA DropsApart ==
  ASSUME RegistryInv, SequentialInv, Apart, NEW c \in Clients, DropCollection(c)
  PROVE  SequentialInv' /\ C!Drop
<1>1. PICK k \in {"drop", "forget"} : Committing(c, k)
  BY DEF DropCollection
<1>2. /\ pc[c] = "transaction" /\ call[c].kind = k
      /\ pc' = [pc EXCEPT ![c] = "publish"] /\ UNCHANGED <<cache, call>>
  BY <1>1 DEF Committing
<1>3. /\ rows' = <<>> /\ past' = past
      /\ \/ tables' = tables \ {copy[c].physical[v] : v \in Listed(copy[c])}
         \/ tables' = tables
  BY DEF DropCollection
<1>4. copy[c] = Stored /\ Stored # NoEntry
  <2>1. copy[c] = Stored /\ Sound(copy[c])
    BY <1>1, <1>2, CheckedBefore DEF SequentialInv, Apart, UpToDate
  <2> QED
    BY <2>1, EntryShape DEF Sound
<1>5. Stored' = NoEntry /\ Len(rows') <= 1
  BY <1>3, EmptySeq DEF Stored
<1>6. "publish" \in PCs /\ pc'[c] = "publish"
  BY <1>2 DEF PCs, RegistryInv, TypeOK
<1>7. UpToDate(c)'
  BY <1>1, <1>2, <1>3, <1>6 DEF UpToDate, Removes
<1>8. OwnTables'
  BY <1>5, NothingListed DEF OwnTables, Listed
<1>9. \A d \in Clients : d # c => pc[d] = "idle"
  BY <1>2, OthersIdle
<1>10. SequentialInv'
  BY <1>2, <1>5, <1>6, <1>7, <1>8, <1>9, OneActs
<1>11. C!Drop
  BY <1>3, <1>4, <1>5 DEF C!Drop, C!Exists, C!Listed, Stored, Listed
<1> QED
  BY <1>10, <1>11

----------------------------------------------------------------------------
(* Every step keeps the invariant, and is a step of the catalog or changes *)
(* nothing the catalog knows.                                              *)

Unstored == UNCHANGED <<rows, tables>>

LEMMA UnstoredStutters == Unstored => UNCHANGED C!cvars
BY DEF Unstored, C!cvars

LEMMA ClientApart ==
  ASSUME RegistryInv, SequentialInv, Apart', NEW c \in Clients, Step(c)
  PROVE  SequentialInv' /\ (C!Next \/ Unstored)
<1> USE DEF Unstored
<1>1. Apart
  BY DEF Apart, Step, Lookup, Load, NullifyMissing, Fill, CreateCollections,
         AddSchemaVersion, SetActiveVersion, PruneVersion, DropCollection,
         TransactionFails, Publish
<1>2. CASE \/ Lookup(c) \/ Load(c) \/ NullifyMissing(c) \/ Fill(c)
           \/ TransactionFails(c) \/ Publish(c)
  <2>1. Unstored
    BY <1>2 DEF Lookup, Load, NullifyMissing, Fill, TransactionFails, Publish
  <2> QED
    BY <1>1, <1>2, <2>1, LookupApart, LoadApart, NullifyApart, FillApart, FailsApart,
       PublishApart
<1>3. CASE CreateCollections(c)
  <2>1. call[c].version \in Versions
    BY <1>3, CheckedBefore, VersionArgument DEF CreateCollections
  <2> QED
    BY <1>1, <1>3, <2>1, CreatesApart DEF C!Next
<1>4. CASE AddSchemaVersion(c)
  <2>1. call[c].version \in Versions
    BY <1>4, CheckedBefore, VersionArgument DEF AddSchemaVersion
  <2> QED
    BY <1>4, <2>1, AddsApart DEF C!Next
<1>5. CASE SetActiveVersion(c)
  <2>1. call[c].version \in Versions
    BY <1>5, CheckedBefore, VersionArgument DEF SetActiveVersion
  <2> QED
    BY <1>1, <1>5, <2>1, ActivatesApart DEF C!Next
<1>6. CASE PruneVersion(c)
  <2>1. call[c].version \in Versions
    BY <1>6, CheckedBefore, VersionArgument DEF PruneVersion
  <2> QED
    BY <1>1, <1>6, <2>1, PrunesApart DEF C!Next
<1>7. CASE DropCollection(c)
  BY <1>1, <1>7, DropsApart DEF C!Next
<1> QED
  BY <1>2, <1>3, <1>4, <1>5, <1>6, <1>7 DEF Step

LEMMA StepApart ==
  ASSUME RegistryInv, SequentialInv, Apart', [Next]_vars
  PROVE  SequentialInv' /\ (C!Next \/ Unstored)
<1>1. CASE UNCHANGED vars
  <2>1. Unstored
    BY <1>1 DEF vars, Unstored
  <2>2. SequentialInv'
    BY <1>1
    DEF vars, clientVars, SequentialInv, Alone, Coherent, UpToDate, OwnTables, Stored,
        Listed, Removes
  <2> QED
    BY <2>1, <2>2
<1>2. CASE CacheForgets
  BY <1>2, ForgetsApart DEF CacheForgets, Unstored
<1>3. ASSUME NEW c \in Clients, NEW a \in Calls, Start(c, a)
      PROVE  SequentialInv' /\ Unstored
  BY <1>3, StartsApart DEF Start, Unstored
<1>4. ASSUME NEW c \in Clients, Step(c)
      PROVE  SequentialInv' /\ (C!Next \/ Unstored)
  BY <1>4, ClientApart
<1> QED
  BY <1>1, <1>2, <1>3, <1>4 DEF Next

LEMMA SequentialStep ==
  RegistryInv /\ SequentialInv /\ [Next]_vars => SequentialInv'
<1> SUFFICES ASSUME RegistryInv, SequentialInv, [Next]_vars, Apart'
             PROVE  SequentialInv'
  BY DEF SequentialInv, Apart
<1> QED
  BY StepApart

LEMMA SequentialInvariant == Spec => [](RegistryInv /\ SequentialInv)
BY RegistryInit, RegistryStep, SequentialInitially, SequentialStep, PTL DEF Spec

(* Between two calls of the registry, and within one until it has changed  *)
(* something, the cache has a miss, a marker of what is not there, or the  *)
(* entry that is stored: through evictions and transactions that fail.     *)
THEOREM CacheTheorem == Spec => []CacheCoherent
<1>1. SequentialInv => CacheCoherent
  BY DEF SequentialInv, CacheCoherent, Coherent
<1> QED
  BY <1>1, SequentialInvariant, PTL

(* Call after call, each listed version keeps the table it was given.      *)
THEOREM TablesTheorem == Spec => []TablesExist
<1>1. RegistryInv /\ SequentialInv => TablesExist
  <2> SUFFICES ASSUME RegistryInv, SequentialInv, past = {},
                      NEW i \in DOMAIN rows, NEW v \in Listed(rows[i])
               PROVE  rows[i].physical[v] \in tables
    BY DEF TablesExist
  <2>1. OwnTables /\ Len(rows) <= 1
    BY DEF SequentialInv
  <2>2. rows # <<>>
    OBVIOUS
  <2>3. rows[i] = Stored
    BY <2>1, <2>2, StoredIs
  <2> QED
    BY <2>1, <2>3 DEF OwnTables
<1> QED
  BY <1>1, SequentialInvariant, PTL

(* Call after call, the registry is the catalog: the copies, the cache and *)
(* the failures never make a change of another entry than the stored one.  *)
THEOREM CatalogTheorem == Spec => SequentiallyAtomic
<1>1. Init => C!Init
  BY DEF Init, C!Init
<1>2. RegistryInv /\ SequentialInv /\ [Next]_vars
        => [("overlapped" \notin past' /\ "overlapped" \notin past) => C!Next]_<<C!cvars>>
  <2> SUFFICES ASSUME RegistryInv, SequentialInv, [Next]_vars, Apart'
               PROVE  C!Next \/ UNCHANGED <<C!cvars>>
    BY DEF Apart
  <2> QED
    BY StepApart, UnstoredStutters
<1> QED
  BY <1>1, <1>2, SequentialInvariant, PTL DEF Spec, SequentiallyAtomic
=============================================================================
