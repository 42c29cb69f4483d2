---------------------------- MODULE ManagedCache ----------------------------
(***************************************************************************)
(* managedCache: shards behind one lock each, an entry counter shared by   *)
(* all of them, and two background goroutines.  The janitor sweeps the     *)
(* expired entries on every tick.  The watermark evictor is started by the *)
(* write that finds the counter at the high watermark and no evictor       *)
(* running, and returns once the counter is down to the low watermark.     *)
(*                                                                         *)
(* Every shard operation is atomic under the shard's lock; what happens    *)
(* between two of them is not: a writer looks at the counter after its     *)
(* write has released the lock, and the evictor decides to return some     *)
(* time before it clears evictorRunning.                                   *)
(***************************************************************************)
EXTENDS CacheShard

CONSTANTS
  NumShards,      \* len(c.shards)
  ShardOf,        \* ShardOf[k]: the index of the shard of key k
  Writers,        \* goroutines that write
  WriteTtls,      \* what the callers' ttl arguments resolve to
  High, Low,      \* highCount and lowCount of the watermarks
  EvictionBatch,  \* cfg.EvictionBatchSize
  JanitorBatch    \* cfg.JanitorBatchSize

Shards == 0 .. NumShards - 1

ASSUME ShardsAssumption ==
  /\ NumShards \in Nat \ {0}
  /\ ShardOf \in [Keys -> Shards]
ASSUME WriteTtlsAssumption == WriteTtls \subseteq {"never", "live"}
ASSUME WatermarksAssumption == /\ High \in Nat
                               /\ Low \in Nat
                               /\ Low <= High
ASSUME BatchesAssumption == /\ EvictionBatch \in Nat \ {0}
                            /\ JanitorBatch \in Nat \ {0}

VARIABLES
  shard,      \* shard[i]
  writer,     \* writer[w]: "idle", "load" (written, about to read the
              \* counter), "cas" (found it high, about to try evictorRunning)
  evictor,    \* the evictor goroutine; "none": evictorRunning is false
  evicted,    \* evictedThisTick
  noProgress, \* shards in a row with nothing to evict
  nextShard,  \* shardIdx, modulo the number of shards
  janitor,    \* Waiting, Exited, or the shard it sweeps next
  clearing,   \* Waiting, or the shard a running Clear empties next
  closing     \* Close: "no", "cancelled" (waiting for the goroutines), "done"

evictorVars == <<evictor, evicted, noProgress, nextShard>>
vars == <<shard, writer, evictorVars, janitor, clearing, closing>>

(* c.size: the sum of what the shards added.                               *)
Size == SumFunction([i \in Shards |-> shard[i].added])

Waiting == NumShards        \* the janitor or Clear is at no shard
Exited == NumShards + 1     \* the janitor has returned

TypeOK ==
  /\ \A i \in Shards :
       /\ Cached(shard[i]) \subseteq {k \in Keys : ShardOf[k] = i}
       /\ \A k \in Cached(shard[i]) : shard[i].items[k] \in Entries
       /\ shard[i].order \in Seq(Keys)
       /\ shard[i].hand \in Keys \union {NoHand}
       /\ shard[i].added \in Nat
       /\ shard[i].held \in [Keys -> Nat]
  /\ writer \in [Writers -> {"idle", "load", "cas"}]
  /\ evictor \in {"none", "waiting", "looking", "locking", "stopping"}
  /\ evicted \in 0 .. EvictionBatch
  /\ noProgress \in 0 .. NumShards
  /\ nextShard \in Shards
  /\ janitor \in Shards \union {Waiting, Exited}
  /\ clearing \in Shards \union {Waiting}
  /\ closing \in {"no", "cancelled", "done"}

Init ==
  /\ shard = [i \in Shards |-> EmptyShard]
  /\ writer = [w \in Writers |-> "idle"]
  /\ evictor = "none"
  /\ evicted = 0
  /\ noProgress = 0
  /\ nextShard = 0
  /\ janitor = Waiting
  /\ clearing = Waiting
  /\ closing = "no"

(* The one operation op(_, k) of key k on its shard.                       *)
OnShardOf(k, op(_, _)) ==
  shard' = [shard EXCEPT ![ShardOf[k]] = op(@, k)]

----------------------------------------------------------------------------
(* Writers.                                                                *)

Write(w, k, ttl) ==
  /\ writer[w] = "idle"
  /\ writer' = [writer EXCEPT ![w] = "load"]
  /\ \/ OnShardOf(k, LAMBDA sh, j : SetEntry(sh, j, ttl))
     \/ OnShardOf(k, LAMBDA sh, j : Nullify(sh, j, ttl))
  /\ UNCHANGED <<evictorVars, janitor, clearing, closing>>

(* maybeStartEvictor, its read of the counter.                             *)
LoadSize(w) ==
  /\ writer[w] = "load"
  /\ writer' = [writer EXCEPT ![w] = IF MaxEntries = 0 \/ Size < High
                                    THEN "idle" ELSE "cas"]
  /\ UNCHANGED <<shard, evictorVars, janitor, clearing, closing>>

(* maybeStartEvictor, its compare-and-swap on evictorRunning.              *)
StartEvictor(w) ==
  /\ writer[w] = "cas"
  /\ writer' = [writer EXCEPT ![w] = "idle"]
  /\ IF evictor = "none"
     THEN /\ evictor' = "waiting"
          /\ nextShard' = 0
          /\ UNCHANGED <<evicted, noProgress>>
     ELSE UNCHANGED evictorVars
  /\ UNCHANGED <<shard, janitor, clearing, closing>>

(* Readers and the other calls that touch one key.                         *)
Access(k) ==
  /\ \/ OnShardOf(k, GetStatus)
     \/ OnShardOf(k, Evict)
     \/ OnShardOf(k, Persist)
  /\ UNCHANGED <<writer, evictorVars, janitor, clearing, closing>>

(* Clear empties the shards one after the other.                           *)
StartClear ==
  /\ clearing = Waiting
  /\ clearing' = 0
  /\ UNCHANGED <<shard, writer, evictorVars, janitor, closing>>

ClearShard ==
  /\ clearing # Waiting
  /\ shard' = [shard EXCEPT ![clearing] = Clear(@)]
  /\ clearing' = clearing + 1
  /\ UNCHANGED <<writer, evictorVars, janitor, closing>>

(* A deadline passes.                                                      *)
Expire(k) ==
  /\ k \in Cached(shard[ShardOf[k]])
  /\ shard[ShardOf[k]].items[k].ttl = "live"
  /\ shard' = [shard EXCEPT ![ShardOf[k]].items[k].ttl = "expired"]
  /\ UNCHANGED <<writer, evictorVars, janitor, clearing, closing>>

----------------------------------------------------------------------------
(* The watermark evictor.                                                  *)

(* A tick.                                                                 *)
EvictorTick ==
  /\ evictor = "waiting"
  /\ evictor' = IF Size <= Low THEN "stopping" ELSE "looking"
  /\ evicted' = 0
  /\ noProgress' = 0
  /\ UNCHANGED <<shard, writer, nextShard, janitor, clearing, closing>>

(* The counter is read again before each eviction of the tick.             *)
EvictorLooks ==
  /\ evictor = "looking"
  /\ evictor' = IF Size <= Low THEN "stopping" ELSE "locking"
  /\ UNCHANGED <<shard, writer, evicted, noProgress, nextShard, janitor,
                 clearing, closing>>

(* evictOneCLOCKLocking on the next shard; the tick ends with the batch,   *)
(* or after a round of shards with nothing to evict.                       *)
EvictorEvicts ==
  /\ evictor = "locking"
  /\ shard' = [shard EXCEPT ![nextShard] = EvictOneCLOCK(@)]
  /\ nextShard' = (nextShard + 1) % NumShards
  /\ LET found == shard[nextShard].order # <<>>
     IN  /\ evicted' = IF found THEN evicted + 1 ELSE evicted
         /\ noProgress' = IF found THEN 0 ELSE noProgress + 1
  /\ evictor' = IF evicted' = EvictionBatch \/ noProgress' = NumShards
                THEN "waiting" ELSE "looking"
  /\ UNCHANGED <<writer, janitor, clearing, closing>>

EvictorCancelled ==
  /\ evictor = "waiting"
  /\ closing # "no"
  /\ evictor' = "stopping"
  /\ UNCHANGED <<shard, writer, evicted, noProgress, nextShard, janitor,
                 clearing, closing>>

(* The deferred evictorRunning.Store(false).                               *)
EvictorExits ==
  /\ evictor = "stopping"
  /\ evictor' = "none"
  /\ evicted' = 0
  /\ noProgress' = 0
  /\ nextShard' = 0
  /\ UNCHANGED <<shard, writer, janitor, clearing, closing>>

----------------------------------------------------------------------------
(* The janitor and Close.                                                  *)

JanitorTick ==
  /\ janitor = Waiting
  /\ janitor' = 0
  /\ UNCHANGED <<shard, writer, evictorVars, clearing, closing>>

(* One shard of sweep.  Compaction copies the map as it is, and the sweep  *)
(* compares deadlines with the tick's time, here the present.              *)
SweepShard ==
  /\ janitor \in Shards
  /\ shard' = [shard EXCEPT ![janitor] = SweepExpired(@, JanitorBatch)]
  /\ janitor' = janitor + 1
  /\ UNCHANGED <<writer, evictorVars, clearing, closing>>

JanitorExits ==
  /\ janitor = Waiting
  /\ closing # "no"
  /\ janitor' = Exited
  /\ UNCHANGED <<shard, writer, evictorVars, clearing, closing>>

Close ==
  /\ closing = "no"
  /\ closing' = "cancelled"
  /\ UNCHANGED <<shard, writer, evictorVars, janitor, clearing>>

(* wg.Wait returns.                                                        *)
CloseReturns ==
  /\ closing = "cancelled"
  /\ janitor = Exited
  /\ evictor = "none"
  /\ closing' = "done"
  /\ UNCHANGED <<shard, writer, evictorVars, janitor, clearing>>

----------------------------------------------------------------------------
EvictorStep == \/ EvictorTick \/ EvictorLooks \/ EvictorEvicts
               \/ EvictorCancelled \/ EvictorExits
JanitorStep == JanitorTick \/ SweepShard \/ JanitorExits

Next ==
  \/ \E w \in Writers :
       \/ \E k \in Keys, ttl \in WriteTtls : Write(w, k, ttl)
       \/ LoadSize(w)
       \/ StartEvictor(w)
  \/ \E k \in Keys : Access(k) \/ Expire(k)
  \/ StartClear
  \/ ClearShard
  \/ EvictorStep
  \/ JanitorStep
  \/ Close
  \/ CloseReturns

Spec == Init /\ [][Next]_vars

(* The scheduler runs every goroutine that can go on, and tickers tick; no *)
(* caller is obliged to call.                                              *)
FairSpec ==
  /\ Spec
  /\ \A w \in Writers : WF_vars(LoadSize(w)) /\ WF_vars(StartEvictor(w))
  /\ WF_vars(EvictorStep)
  /\ WF_vars(JanitorStep)
  /\ WF_vars(ClearShard)
  /\ WF_vars(CloseReturns)

----------------------------------------------------------------------------
ListMatchesMap(sh) ==
  /\ ToSet(sh.order) = Cached(sh)
  /\ IsInjective(sh.order)
  /\ sh.hand \in Cached(sh) \union {NoHand}

(* The list and the map hold the same keys, once each, and the CLOCK hand  *)
(* is nil or on an element of the list: removeElementLocked leaves no hand *)
(* dangling, whichever of the writers, evictor and janitor removes.  The   *)
(* counter the watermark evictor steers by is the number of entries, after *)
(* any mix of inserts, evictions, sweeps and Clear.                        *)
BookkeepingAccurate ==
  /\ TypeOK
  /\ \A i \in Shards : ListMatchesMap(shard[i])
  /\ Size = SumFunction([i \in Shards |-> Cardinality(Cached(shard[i]))])

(* The synchronous cap of upsertLocked: no shard ever holds more.          *)
CapHolds ==
  MaxEntries > 0 =>
    \A i \in Shards : Cardinality(Cached(shard[i])) <= MaxEntries

(* onEvict is called exactly once for every artifact that leaves without   *)
(* being replaced by a newer one: what is held for the caller is exactly   *)
(* what is cached as a positive entry.                                     *)
EvictedOnce ==
  \A k \in Keys :
    LET sh == shard[ShardOf[k]] IN
    sh.held[k] = IF k \in Cached(sh) /\ Positive(sh, k) THEN 1 ELSE 0

(* The second chance: a write at the cap, or the watermark evictor, takes  *)
(* an entry read since the hand last passed it only if every entry of the  *)
(* shard was - which never happens at the cap, the new entry being unread. *)
ReadEntriesSpared ==
  [][ \A i \in Shards :
        \A k \in Cached(shard[i]) \ Cached(shard'[i]) :
          shard[i].items[k].accessed =>
            /\ \A w \in Writers, ttl \in WriteTtls, j \in Keys : ~Write(w, j, ttl)
            /\ EvictorEvicts => \A j \in Cached(shard[i]) : shard[i].items[j].accessed
    ]_vars

(* NewManagedCache: the evictor "starts once total size crosses            *)
(* cfg.EvictionHighWatermark and runs until it drains".                    *)
HighWatermarkServed ==
  Size >= High ~> (evictor # "none" \/ Size < High \/ closing # "no")

=============================================================================
