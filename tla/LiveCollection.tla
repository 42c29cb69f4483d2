--------------------------- MODULE LiveCollection --------------------------
(***************************************************************************)
(* liveRepository: a collection whose documents are kept, as artifacts,    *)
(* in a cache keyed by one of their fields.                                *)
(*                                                                         *)
(* A call first reads or writes the database and then changes the cache,   *)
(* one key after the other; nothing orders these changes among the calls   *)
(* in flight.  The changes a call still owes the cache are its `todo`.     *)
(***************************************************************************)
CONSTANTS
  Clients,     \* goroutines using the repository
  Docs,        \* the documents
  Keys,        \* the values of the key field, which is unique
  HomeKey,     \* HomeKey[d]: the key d is created with
  Contents,    \* what else a document may hold
  Selected,    \* the contents QueryFunc selects; all of them without one
  Nothing      \* no document, key or content

ASSUME HomeKeyAssumption == HomeKey \in [Docs -> Keys]
ASSUME SelectedAssumption == Selected \subseteq Contents
ASSUME NothingAssumption == Nothing \notin Docs \union Keys \union Contents

VARIABLES
  liveDocs,     \* liveDocs[d]: the key and content of d in the database
  liveSlots,    \* liveSlots[k]: the cache's slot of k
  liveCalls,    \* liveCalls[c]: the call c is making
  liveExcused   \* keys whose slot may be stale (history, not in the code)

liveVars == <<liveDocs, liveSlots, liveCalls, liveExcused>>

Absent == [key |-> Nothing, content |-> Nothing]
Stored(k, x) == [key |-> k, content |-> x]

Slot(status, d, x) == [status |-> status, doc |-> d, content |-> x]
LiveMiss == Slot("miss", Nothing, Nothing)
LiveNegative == Slot("negative", Nothing, Nothing)
Artifact(d, x) == Slot("positive", d, x)

(* A change owed to the cache; one of a written document is checked first. *)
Owed(k, slot, checked) == [key |-> k, slot |-> slot, checked |-> checked]

NoLiveCall == [pc |-> "none", key |-> Nothing, filter |-> {}, todo |-> {}]

LiveInit ==
  /\ liveDocs = [d \in Docs |-> Absent]
  /\ liveSlots = [k \in Keys |-> LiveMiss]
  /\ liveCalls = [c \in Clients |-> NoLiveCall]
  /\ liveExcused = {}

Present(F) == {d \in F : liveDocs[d] # Absent}
KeysOf(F) == {liveDocs[d].key : d \in Present(F)}

(* The documents the repository's query finds for a key.                   *)
Matching(k) ==
  {d \in Docs : liveDocs[d].key = k /\ liveDocs[d].content \in Selected}

(* c has read or written something of k and not yet settled k's slot.      *)
Holds(c, k) ==
  \/ \E o \in liveCalls[c].todo : o.key = k
  \/ liveCalls[c].pc = "clear"

(* A write by c of documents D under keys K: another call's older view of  *)
(* them may reach the cache later than c's.                                *)
ExcusedByWrite(c, D, K) ==
  {k \in K : \E b \in Clients \ {c} :
     Holds(b, k) \/ (liveCalls[b].pc = "delete" /\ liveCalls[b].filter \cap D # {})}

Begin(c, call) ==
  /\ liveCalls[c] = NoLiveCall
  /\ liveCalls' = [liveCalls EXCEPT ![c] = call]

(* What is left of c's call once its todo is `todo`.                       *)
Owing(c, todo) ==
  liveCalls' = [liveCalls EXCEPT ![c] =
    IF todo = {} THEN NoLiveCall
    ELSE [NoLiveCall EXCEPT !.pc = "publish", !.todo = todo]]

----------------------------------------------------------------------------
(* Get: a hit returns what the slot holds; a miss reads the database, and  *)
(* what it has read, nothing or an error included, goes into the slot.     *)

GetMisses(c, k) ==
  /\ liveSlots[k] = LiveMiss
  /\ Begin(c, [NoLiveCall EXCEPT !.pc = "read", !.key = k])
  /\ UNCHANGED <<liveDocs, liveSlots, liveExcused>>

GetReads(c) ==
  LET k == liveCalls[c].key
  IN /\ liveCalls[c].pc = "read"
     /\ \/ Matching(k) = {} /\ Owing(c, {Owed(k, LiveNegative, TRUE)})
        \/ \E d \in Matching(k) :
             Owing(c, {Owed(k, Artifact(d, liveDocs[d].content), TRUE)})
     /\ UNCHANGED <<liveDocs, liveSlots, liveExcused>>

(* The read or the processor's Create fails: the key counts as absent.     *)
GetFails(c) ==
  /\ liveCalls[c].pc = "read"
  /\ Owing(c, {Owed(liveCalls[c].key, LiveNegative, TRUE)})
  /\ liveExcused' = liveExcused \union {liveCalls[c].key}
  /\ UNCHANGED <<liveDocs, liveSlots>>

----------------------------------------------------------------------------
(* The intercepted writes.                                                 *)

(* A written document goes to maybeCache.                                  *)
ToCache(D, docs) ==
  {Owed(docs[d].key, Artifact(d, docs[d].content), FALSE) : d \in D}

(* The collection has written the documents D, a failed write nothing.     *)
Wrote(c, D, docs) ==
  /\ liveDocs' = docs
  /\ liveCalls' = [liveCalls EXCEPT ![c] =
       [NoLiveCall EXCEPT !.pc = "publish", !.todo = ToCache(D, docs)]]

(* CreateOne, CreateMany.                                                  *)
LiveCreate(c, D, x) ==
  LET docs == [d \in Docs |-> IF d \in D THEN Stored(HomeKey[d], x)
                              ELSE liveDocs[d]]
      K == {HomeKey[d] : d \in D}
  IN /\ liveCalls[c] = NoLiveCall
     /\ D # {} /\ Present(D) = {}
     /\ K \intersect KeysOf(Docs) = {}
     /\ \A d, e \in D : HomeKey[d] = HomeKey[e] => d = e
     /\ Wrote(c, D, docs)
     /\ liveExcused' = liveExcused \union ExcusedByWrite(c, D, K)
     /\ UNCHANGED liveSlots

(* Update of the content: the documents are asked for, and returned.       *)
LiveUpdate(c, F, x) ==
  LET D == Present(F)
      docs == [d \in Docs |-> IF d \in D THEN [liveDocs[d] EXCEPT !.content = x]
                              ELSE liveDocs[d]]
  IN /\ liveCalls[c] = NoLiveCall
     /\ D # {}
     /\ Wrote(c, D, docs)
     /\ liveExcused' = liveExcused \union ExcusedByWrite(c, D, KeysOf(F))
     /\ UNCHANGED liveSlots

(* Update of the content in a collection that reads the documents back by  *)
(* a query of its own (polyfillCollection), and fails to: the update counts*)
(* and none is returned.  Clear, which is meant for this, asks Count, and  *)
(* that is the number of those returned: no slot is settled.               *)
LiveUpdateUnreturned(c, F, x) ==
  LET D == Present(F)
  IN /\ liveCalls[c] = NoLiveCall
     /\ D # {}
     /\ liveDocs' = [d \in Docs |-> IF d \in D THEN [liveDocs[d] EXCEPT !.content = x]
                                   ELSE liveDocs[d]]
     /\ liveExcused' = liveExcused \union KeysOf(F)
     /\ UNCHANGED <<liveSlots, liveCalls>>

(* Update of the key field: the slot of the old key is left as it is.      *)
LiveUpdateKey(c, d, k) ==
  LET old == liveDocs[d].key
  IN /\ liveCalls[c] = NoLiveCall
     /\ liveDocs[d] # Absent
     /\ k \notin KeysOf(Docs)
     /\ Wrote(c, {d}, [liveDocs EXCEPT ![d].key = k])
     /\ liveExcused' = liveExcused \union {old} \union ExcusedByWrite(c, {d}, {k})
     /\ UNCHANGED liveSlots

(* Mutant: a document the query does not select is simply not cached.      *)
MaybeCacheWithoutEviction(c, o) ==
  /\ o \in liveCalls[c].todo
  /\ ~o.checked
  /\ IF Selected = Contents \/ Matching(o.key) # {}
     THEN Owing(c, (liveCalls[c].todo \ {o}) \union {Owed(o.key, o.slot, TRUE)})
     ELSE Owing(c, liveCalls[c].todo \ {o})
  /\ UNCHANGED <<liveDocs, liveSlots, liveExcused>>

(* maybeCache asks the query again whether the document is to be cached,   *)
(* and then caches the one it was given.                                   *)
MaybeCache(c, o) ==
  /\ o \in liveCalls[c].todo
  /\ ~o.checked
  /\ LET kept == Selected = Contents \/ Matching(o.key) # {}
         slot == IF kept THEN o.slot ELSE LiveMiss
     IN Owing(c, (liveCalls[c].todo \ {o}) \union {Owed(o.key, slot, TRUE)})
  /\ UNCHANGED <<liveDocs, liveSlots, liveExcused>>

(* Its read or the processor fails: the key is evicted.                    *)
MaybeCacheFails(c, o) ==
  /\ o \in liveCalls[c].todo
  /\ ~o.checked
  /\ Owing(c, (liveCalls[c].todo \ {o}) \union {Owed(o.key, LiveMiss, TRUE)})
  /\ UNCHANGED <<liveDocs, liveSlots, liveExcused>>

(* One change reaches the cache.                                           *)
PublishOne(c, o) ==
  /\ o \in liveCalls[c].todo
  /\ o.checked
  /\ liveSlots' = [liveSlots EXCEPT ![o.key] = o.slot]
  /\ Owing(c, liveCalls[c].todo \ {o})
  /\ UNCHANGED <<liveDocs, liveExcused>>

(* Delete first reads the keys of what it is about to delete, or fails to. *)
DeleteReads(c, F) ==
  /\ \E K \in {KeysOf(F), {}} :
       Begin(c, [NoLiveCall EXCEPT !.pc = "delete", !.filter = F,
                   !.todo = {Owed(k, LiveNegative, TRUE) : k \in K}])
  /\ UNCHANGED <<liveDocs, liveSlots, liveExcused>>

DeleteDeletes(c) ==
  LET D == Present(liveCalls[c].filter)
  IN /\ liveCalls[c].pc = "delete"
     /\ liveDocs' = [d \in Docs |-> IF d \in D THEN Absent ELSE liveDocs[d]]
     /\ IF D # {} /\ liveCalls[c].todo = {}
        THEN liveCalls' = [liveCalls EXCEPT ![c] = [NoLiveCall EXCEPT !.pc = "clear"]]
        ELSE Owing(c, IF D = {} THEN {} ELSE liveCalls[c].todo)
     /\ liveExcused' = liveExcused
          \union ExcusedByWrite(c, D, KeysOf(liveCalls[c].filter))
     /\ UNCHANGED liveSlots

DeleteFails(c) ==
  /\ liveCalls[c].pc = "delete"
  /\ liveCalls' = [liveCalls EXCEPT ![c] = NoLiveCall]
  /\ UNCHANGED <<liveDocs, liveSlots, liveExcused>>

LiveClear(c) ==
  /\ liveCalls[c].pc = "clear"
  /\ liveSlots' = [k \in Keys |-> LiveMiss]
  /\ liveCalls' = [liveCalls EXCEPT ![c] = NoLiveCall]
  /\ UNCHANGED <<liveDocs, liveExcused>>

(* The cache drops a slot: its time, the capacity, Unset.                  *)
LiveExpire(k) ==
  /\ liveSlots[k] # LiveMiss
  /\ liveSlots' = [liveSlots EXCEPT ![k] = LiveMiss]
  /\ UNCHANGED <<liveDocs, liveCalls, liveExcused>>

LiveNext ==
  \/ \E c \in Clients :
       \/ \E k \in Keys : GetMisses(c, k)
       \/ GetReads(c)
       \/ GetFails(c)
       \/ \E D \in SUBSET Docs, x \in Contents :
            \/ LiveCreate(c, D, x)
            \/ LiveUpdate(c, D, x)
            \/ LiveUpdateUnreturned(c, D, x)
       \/ \E d \in Docs, k \in Keys : LiveUpdateKey(c, d, k)
       \/ \E o \in liveCalls[c].todo :
            MaybeCache(c, o) \/ MaybeCacheFails(c, o)
       \/ /\ liveCalls[c].pc = "publish"
          /\ \E o \in liveCalls[c].todo : PublishOne(c, o)
       \/ \E F \in SUBSET Docs : DeleteReads(c, F)
       \/ DeleteDeletes(c)
       \/ DeleteFails(c)
       \/ LiveClear(c)
  \/ \E k \in Keys : LiveExpire(k)

LiveSpec == LiveInit /\ [][LiveNext]_liveVars

----------------------------------------------------------------------------
(* Properties.                                                             *)

Fresh(k) ==
  /\ liveSlots[k].status = "positive" =>
       /\ liveSlots[k].doc \in Matching(k)
       /\ liveDocs[liveSlots[k].doc].content = liveSlots[k].content
  /\ liveSlots[k].status = "negative" => Matching(k) = {}

(* "Each override keeps the cache consistent with the underlying store":   *)
(* unless another call's older view was still on its way when a key's      *)
(* document was written, a read failed, an update's documents could not be *)
(* read back, or the key itself was changed, a slot nobody is about to     *)
(* settle shows the document the database has.                             *)
LiveCoherent ==
  \A k \in Keys \ liveExcused :
    (\A c \in Clients : ~Holds(c, k)) => Fresh(k)

=============================================================================
