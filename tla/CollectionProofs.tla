-------------------------- MODULE CollectionProofs --------------------------
(***************************************************************************)
(* Proofs about LiveCollection and ModelCollection: their caches are       *)
(* coherent with the database for any callers, documents and contents.     *)
(*                                                                         *)
(* Both proofs follow one argument.  Whoever writes a document while       *)
(* another call still owes its slot a change excuses the slot; so that of  *)
(* a slot nobody has excused, every change still owed shows what the       *)
(* database holds now, and so does the slot if no change is owed.          *)
(***************************************************************************)
EXTENDS LiveCollection, ModelCollection, TLAPS

----------------------------------------------------------------------------
(* LiveCollection.                                                         *)

LiveDocuments == {Absent} \union [key : Keys, content : Contents]
LiveSlotValues ==
  {LiveMiss, LiveNegative} \union [status : {"positive"}, doc : Docs, content : Contents]
LiveChanges == [key : Keys, slot : LiveSlotValues, checked : BOOLEAN]
LiveCallValues ==
  [pc : {"none", "read", "publish", "delete", "clear"},
   key : Keys \union {Nothing}, filter : SUBSET Docs, todo : SUBSET LiveChanges]

LiveTypeOK ==
  /\ liveDocs \in [Docs -> LiveDocuments]
  /\ liveSlots \in [Keys -> LiveSlotValues]
  /\ liveCalls \in [Clients -> LiveCallValues]
  /\ liveExcused \subseteq Keys

(* Where a call stands tells what it owes.                                 *)
CallShape(call) ==
  /\ call.pc = "none" => call = NoLiveCall
  /\ call.pc \in {"read", "clear"} => call.todo = {}
  /\ call.pc = "read" => call.key \in Keys
  /\ call.pc = "delete" => \A o \in call.todo : o.slot = LiveNegative /\ o.checked

KeysUnique ==
  \A d, e \in Docs :
    liveDocs[d] # Absent /\ liveDocs[d].key = liveDocs[e].key => d = e

(* A slot for k that the database would fill in the same way, or a miss.   *)
Shows(slot, k) ==
  /\ slot.status = "positive" =>
       /\ slot.doc \in Matching(k)
       /\ liveDocs[slot.doc].content = slot.content
  /\ slot.status = "negative" => Matching(k) = {}

(* What a call owes the cache is what the database holds; an artifact that *)
(* is not checked yet may be one the query does not select.                *)
OwesTruth(call) ==
  call.pc = "publish" =>
    \A o \in call.todo : o.key \notin liveExcused =>
      IF o.checked THEN Shows(o.slot, o.key)
      ELSE \E d \in Docs : /\ liveDocs[d].key = o.key
                           /\ o.slot = Artifact(d, liveDocs[d].content)

(* A deletion knows the keys of what it is about to delete, and no others. *)
DeletesKnown(call) ==
  call.pc = "delete" /\ call.todo # {} =>
    /\ \A d \in Present(call.filter) :
         \/ liveDocs[d].key \in liveExcused
         \/ \E o \in call.todo : o.key = liveDocs[d].key
    /\ \A o \in call.todo :
         \/ o.key \in liveExcused
         \/ \E d \in Present(call.filter) : liveDocs[d].key = o.key

(* The call will change the slot of k, unless it has not deleted yet.      *)
Settles(call, k) ==
  \/ call.pc = "clear"
  \/ call.pc = "publish" /\ \E o \in call.todo : o.key = k

SlotsInv ==
  \A k \in Keys \ liveExcused :
    Shows(liveSlots[k], k) \/ \E c \in Clients : Settles(liveCalls[c], k)

LiveInv ==
  /\ LiveTypeOK
  /\ KeysUnique
  /\ \A c \in Clients :
       CallShape(liveCalls[c]) /\ OwesTruth(liveCalls[c]) /\ DeletesKnown(liveCalls[c])
  /\ SlotsInv

LEMMA LiveInitially == LiveInit => LiveInv
BY NothingAssumption
DEF LiveInit, LiveInv, LiveTypeOK, CallShape, KeysUnique, OwesTruth, DeletesKnown,
    SlotsInv, Shows, LiveDocuments, LiveSlotValues, LiveChanges, LiveCallValues,
    NoLiveCall, Absent, LiveMiss, LiveNegative, Slot

(* A step that leaves the database alone and excuses no slot: what it has  *)
(* to show is that what the call owes, and the slots, stay true.           *)
LEMMA LiveCacheStep ==
  ASSUME LiveInv, NEW c \in Clients, NEW call \in LiveCallValues,
         liveCalls' = [liveCalls EXCEPT ![c] = call],
         UNCHANGED liveDocs,
         liveExcused' \in SUBSET Keys, liveExcused \subseteq liveExcused',
         liveSlots' \in [Keys -> LiveSlotValues],
         CallShape(call), OwesTruth(call)', DeletesKnown(call)',
         \A k \in Keys \ liveExcused' :
           \/ Shows(liveSlots'[k], k)
           \/ /\ liveSlots'[k] = liveSlots[k]
              /\ Settles(liveCalls[c], k) => Settles(call, k)
  PROVE  LiveInv'
<1> USE DEF LiveInv
<1>1. /\ LiveTypeOK' /\ KeysUnique'
      /\ \A F \in SUBSET Docs : Present(F)' = Present(F)
      /\ \A k \in Keys, s \in LiveSlotValues : Shows(s, k)' = Shows(s, k)
  BY DEF LiveTypeOK, KeysUnique, Present, Shows, Matching
<1>2. /\ liveCalls'[c] = call
      /\ \A b \in Clients \ {c} : liveCalls'[b] = liveCalls[b]
      /\ \A b \in Clients : liveCalls[b] \in LiveCallValues
  BY DEF LiveTypeOK
<1>3. \A b \in Clients : CallShape(liveCalls[b])'
  BY <1>2 DEF CallShape
<1>4. \A b \in Clients : DeletesKnown(liveCalls[b])'
  BY <1>1, <1>2 DEF DeletesKnown, LiveCallValues
<1>5. \A b \in Clients : OwesTruth(liveCalls[b])'
  BY <1>1, <1>2 DEF OwesTruth, LiveCallValues, LiveChanges
<1>6. SlotsInv'
  <2> SUFFICES ASSUME NEW k \in Keys \ liveExcused', ~Shows(liveSlots'[k], k)
               PROVE  \E b \in Clients : Settles(liveCalls[b], k)'
    BY <1>1 DEF SlotsInv, LiveTypeOK
  <2>1. PICK b \in Clients : Settles(liveCalls[b], k)
    BY DEF SlotsInv
  <2> QED
    BY <1>2, <2>1 DEF Settles
<1> QED
  BY <1>1, <1>3, <1>4, <1>5, <1>6

(* A write by c of the documents D, under keys K: the calls that owe one   *)
(* of these keys a change have excused it, so that what they owe of the    *)
(* others, and the other slots, stay true.                                 *)
LEMMA LiveWriteStep ==
  ASSUME LiveInv, NEW c \in Clients, NEW call \in LiveCallValues,
         NEW D \in SUBSET Docs, NEW K \in SUBSET Keys,
         liveCalls[c].pc \in {"none", "delete"},
         liveCalls' = [liveCalls EXCEPT ![c] = call],
         liveDocs' \in [Docs -> LiveDocuments],
         \A d \in Docs \ D : liveDocs'[d] = liveDocs[d],
         KeysUnique',
         liveExcused' \in SUBSET Keys, liveExcused \subseteq liveExcused',
         ExcusedByWrite(c, D, K) \subseteq liveExcused',
         \A d \in D :
           /\ liveDocs[d] # Absent => liveDocs[d].key \in K \union liveExcused'
           /\ liveDocs'[d] # Absent => liveDocs'[d].key \in K,
         UNCHANGED liveSlots,
         call.pc # "delete", CallShape(call), OwesTruth(call)',
         \A k \in K \ liveExcused' : Settles(call, k)
  PROVE  LiveInv'
<1> USE DEF LiveInv
<1>1. /\ LiveTypeOK'
      /\ liveCalls'[c] = call
      /\ \A b \in Clients \ {c} : liveCalls'[b] = liveCalls[b]
      /\ \A b \in Clients : liveCalls[b] \in LiveCallValues
  BY DEF LiveTypeOK
<1>2. \A b \in Clients : CallShape(liveCalls[b])'
  BY <1>1 DEF CallShape
<1>3. \A b \in Clients \ {c}, k \in K :
        \/ Holds(b, k)
        \/ liveCalls[b].pc = "delete" /\ liveCalls[b].filter \intersect D # {}
        => k \in liveExcused'
  BY DEF ExcusedByWrite
<1>4. \A d \in Docs : /\ liveDocs[d].key \in Keys <=> liveDocs[d] # Absent
                      /\ liveDocs'[d].key \in Keys <=> liveDocs'[d] # Absent
  BY NothingAssumption DEF LiveTypeOK, LiveDocuments, Absent
<1>5. \A k \in Keys \ (K \union liveExcused') : \A d \in Docs :
        /\ liveDocs[d].key = k => liveDocs'[d] = liveDocs[d]
        /\ liveDocs'[d].key = k => liveDocs'[d] = liveDocs[d]
  BY <1>4
<1>6. \A k \in Keys \ (K \union liveExcused'), s \in LiveSlotValues :
        Shows(s, k) => Shows(s, k)'
  BY <1>5 DEF Shows, Matching
<1>7. \A b \in Clients : DeletesKnown(liveCalls[b])'
  <2> SUFFICES ASSUME NEW b \in Clients \ {c},
                      liveCalls[b].pc = "delete", liveCalls[b].todo # {}
               PROVE  /\ \A d \in Present(liveCalls[b].filter)' :
                           \/ liveDocs'[d].key \in liveExcused'
                           \/ \E o \in liveCalls[b].todo : o.key = liveDocs'[d].key
                      /\ \A o \in liveCalls[b].todo :
                           \/ o.key \in liveExcused'
                           \/ \E d \in Present(liveCalls[b].filter)' :
                                liveDocs'[d].key = o.key
    BY <1>1 DEF DeletesKnown
  <2>1. ASSUME NEW d \in Present(liveCalls[b].filter)'
        PROVE  \/ liveDocs'[d].key \in liveExcused'
               \/ \E o \in liveCalls[b].todo : o.key = liveDocs'[d].key
    BY <1>1, <1>3 DEF DeletesKnown, Present, LiveCallValues
  <2>2. ASSUME NEW o \in liveCalls[b].todo, o.key \notin liveExcused'
        PROVE  \E d \in Present(liveCalls[b].filter)' : liveDocs'[d].key = o.key
    <3>1. PICK d \in Present(liveCalls[b].filter) : liveDocs[d].key = o.key
      BY <2>2 DEF DeletesKnown
    <3>2. d \in Docs /\ d \notin D
      BY <1>1, <1>3, <3>1, <2>2 DEF Present, Holds, LiveCallValues
    <3> QED
      BY <3>1, <3>2 DEF Present
  <2> QED
    BY <2>1, <2>2
<1>8. \A b \in Clients : OwesTruth(liveCalls[b])'
  <2> SUFFICES ASSUME NEW b \in Clients \ {c}, liveCalls[b].pc = "publish",
                      NEW o \in liveCalls[b].todo, o.key \notin liveExcused'
               PROVE  IF o.checked THEN Shows(o.slot, o.key)'
                      ELSE \E d \in Docs : /\ liveDocs'[d].key = o.key
                                           /\ o.slot = Artifact(d, liveDocs'[d].content)
    BY <1>1 DEF OwesTruth
  <2>1. o \in LiveChanges /\ o.key \notin K
    BY <1>1, <1>3 DEF Holds, LiveCallValues
  <2> QED
    BY <1>5, <1>6, <2>1 DEF OwesTruth, LiveChanges
<1>9. SlotsInv'
  <2> SUFFICES ASSUME NEW k \in Keys \ liveExcused', ~Shows(liveSlots[k], k)'
               PROVE  \E b \in Clients : Settles(liveCalls[b], k)'
    BY DEF SlotsInv
  <2>1. CASE k \in K
    BY <1>1, <2>1 DEF Settles
  <2>2. CASE k \notin K
    <3>1. ~Shows(liveSlots[k], k)
      BY <1>6, <2>2 DEF LiveTypeOK
    <3>2. PICK b \in Clients : Settles(liveCalls[b], k)
      BY <3>1 DEF SlotsInv
    <3>3. b # c
      BY <3>2 DEF Settles
    <3> QED
      BY <1>1, <3>2, <3>3 DEF Settles
  <2> QED
    BY <2>1, <2>2
<1> QED
  BY <1>1, <1>2, <1>7, <1>8, <1>9

(* The call that is left of todo, as Owing makes it.                       *)
Left(todo) ==
  IF todo = {} THEN NoLiveCall
  ELSE [NoLiveCall EXCEPT !.pc = "publish", !.todo = todo]

LEMMA LeftHasType ==
  ASSUME NEW todo \in SUBSET LiveChanges
  PROVE  /\ Left(todo) \in LiveCallValues
         /\ Left(todo).todo = todo
         /\ Left(todo).pc = IF todo = {} THEN "none" ELSE "publish"
         /\ Left(todo).pc = "none" => Left(todo) = NoLiveCall
BY DEF Left, NoLiveCall, LiveCallValues

LEMMA ArtifactHasType ==
  ASSUME NEW d \in Docs, NEW x \in Contents
  PROVE  Artifact(d, x) \in LiveSlotValues
BY DEF Artifact, Slot, LiveSlotValues

LEMMA OwedHasType ==
  ASSUME NEW k \in Keys, NEW slot \in LiveSlotValues, NEW checked \in BOOLEAN
  PROVE  /\ Owed(k, slot, checked) \in LiveChanges
         /\ Owed(k, slot, checked).key = k
         /\ Owed(k, slot, checked).slot = slot
         /\ Owed(k, slot, checked).checked = checked
BY DEF Owed, LiveChanges

LEMMA LiveGetMisses ==
  ASSUME LiveInv, NEW c \in Clients, NEW k \in Keys, GetMisses(c, k)
  PROVE  LiveInv'
<1> DEFINE call == [NoLiveCall EXCEPT !.pc = "read", !.key = k]
<1>1. /\ call \in LiveCallValues
      /\ CallShape(call) /\ OwesTruth(call)' /\ DeletesKnown(call)'
  BY DEF NoLiveCall, LiveCallValues, CallShape, OwesTruth, DeletesKnown
<1>2. \A j \in Keys : ~Settles(liveCalls[c], j)
  BY DEF GetMisses, Begin, NoLiveCall, Settles
<1>3. /\ liveCalls' = [liveCalls EXCEPT ![c] = call]
      /\ UNCHANGED <<liveDocs, liveSlots, liveExcused>>
      /\ liveSlots' \in [Keys -> LiveSlotValues] /\ liveExcused' \in SUBSET Keys
  BY DEF GetMisses, Begin, LiveInv, LiveTypeOK
<1> HIDE DEF call
<1> QED
  BY <1>1, <1>2, <1>3, LiveCacheStep

(* A step that leaves slots and database alone, and c owing todo.          *)
LEMMA LiveOwes ==
  ASSUME LiveInv, NEW c \in Clients, NEW todo \in SUBSET LiveChanges,
         Owing(c, todo), UNCHANGED <<liveDocs, liveSlots>>,
         liveExcused' \in SUBSET Keys, liveExcused \subseteq liveExcused',
         \A o \in todo : o.key \notin liveExcused' =>
           IF o.checked THEN Shows(o.slot, o.key)
           ELSE \E d \in Docs : /\ liveDocs[d].key = o.key
                                /\ o.slot = Artifact(d, liveDocs[d].content),
         \A k \in Keys \ liveExcused' :
           Settles(liveCalls[c], k) => \E o \in todo : o.key = k
  PROVE  LiveInv'
<1> DEFINE call == Left(todo)
<1>1. /\ call \in LiveCallValues
      /\ call.todo = todo
      /\ call.pc = IF todo = {} THEN "none" ELSE "publish"
      /\ call.pc = "none" => call = NoLiveCall
  BY LeftHasType
<1>2. CallShape(call) /\ DeletesKnown(call)'
  BY <1>1 DEF CallShape, DeletesKnown
<1>3. OwesTruth(call)'
  BY <1>1 DEF OwesTruth, Shows, Matching
<1>4. liveCalls' = [liveCalls EXCEPT ![c] = call]
  BY DEF Owing, Left
<1>5. \A k \in Keys \ liveExcused' : Settles(liveCalls[c], k) => Settles(call, k)
  BY <1>1 DEF Settles
<1>6. liveSlots' = liveSlots /\ liveSlots' \in [Keys -> LiveSlotValues]
  BY DEF LiveInv, LiveTypeOK
<1> HIDE DEF call
<1> QED
  BY <1>1, <1>2, <1>3, <1>4, <1>5, <1>6, LiveCacheStep

LEMMA LiveGetReads ==
  ASSUME LiveInv, NEW c \in Clients, GetReads(c)
  PROVE  LiveInv'
<1> DEFINE k == liveCalls[c].key
<1>1. k \in Keys /\ \A j \in Keys : ~Settles(liveCalls[c], j)
  BY DEF GetReads, LiveInv, CallShape, Settles
<1>2. LiveNegative \in LiveSlotValues /\ LiveNegative.status = "negative"
  BY DEF LiveNegative, Slot, LiveSlotValues
<1>3. /\ UNCHANGED <<liveDocs, liveSlots, liveExcused>>
      /\ liveExcused' \in SUBSET Keys /\ liveExcused \subseteq liveExcused'
  BY DEF GetReads, LiveInv, LiveTypeOK
<1>4. CASE Matching(k) = {} /\ Owing(c, {Owed(k, LiveNegative, TRUE)})
  <2> DEFINE o == Owed(k, LiveNegative, TRUE)
  <2>1. o \in LiveChanges /\ o.key = k /\ o.slot = LiveNegative /\ o.checked
    BY <1>1, <1>2, OwedHasType
  <2> HIDE DEF o
  <2>2. Shows(o.slot, o.key)
    BY <1>2, <1>4, <2>1 DEF Shows, Matching
  <2>3. Owing(c, {o})
    BY <1>4 DEF o
  <2> QED
    BY <1>1, <1>3, <2>1, <2>2, <2>3, LiveOwes
<1>5. CASE \E d \in Matching(k) : Owing(c, {Owed(k, Artifact(d, liveDocs[d].content), TRUE)})
  <2>1. PICK d \in Matching(k) : Owing(c, {Owed(k, Artifact(d, liveDocs[d].content), TRUE)})
    BY <1>5
  <2> DEFINE o == Owed(k, Artifact(d, liveDocs[d].content), TRUE)
  <2>2. d \in Docs /\ liveDocs[d].content \in Contents
    BY SelectedAssumption DEF Matching
  <2>3. /\ o \in LiveChanges /\ o.key = k
        /\ o.slot = Artifact(d, liveDocs[d].content) /\ o.checked
    <3>1. Artifact(d, liveDocs[d].content) \in LiveSlotValues
      BY <2>2, ArtifactHasType
    <3>2. k \in Keys
      BY <1>1
    <3> HIDE DEF k
    <3> QED
      BY <3>1, <3>2 DEF Owed, LiveChanges
  <2> HIDE DEF o
  <2>4. Shows(o.slot, o.key)
    <3>1. o.slot.doc = d /\ o.slot.content = liveDocs[d].content
      BY <2>3 DEF Artifact, Slot
    <3>2. o.slot.status = "positive"
      BY <2>3 DEF Artifact, Slot
    <3> QED
      BY <2>1, <2>3, <3>1, <3>2 DEF Shows
  <2>5. Owing(c, {o})
    BY <2>1 DEF o
  <2> QED
    BY <1>1, <1>3, <2>3, <2>4, <2>5, LiveOwes
<1> QED
  BY <1>4, <1>5 DEF GetReads

LEMMA LiveGetFails ==
  ASSUME LiveInv, NEW c \in Clients, GetFails(c)
  PROVE  LiveInv'
<1> DEFINE k == liveCalls[c].key
           o == Owed(k, LiveNegative, TRUE)
<1>1. k \in Keys /\ \A j \in Keys : ~Settles(liveCalls[c], j)
  BY DEF GetFails, LiveInv, CallShape, Settles
<1>2. o \in LiveChanges /\ o.key = k
  <2>1. k \in Keys /\ LiveNegative \in LiveSlotValues
    BY <1>1 DEF LiveSlotValues
  <2> HIDE DEF k
  <2> QED
    BY <2>1 DEF Owed, LiveChanges
<1>3. /\ Owing(c, {o}) /\ UNCHANGED <<liveDocs, liveSlots>>
      /\ liveExcused' = liveExcused \union {k}
      /\ liveExcused \subseteq Keys
  BY DEF GetFails, LiveInv, LiveTypeOK
<1> HIDE DEF o, k
<1>4. {o} \in SUBSET LiveChanges /\ \A q \in {o} : q.key \in liveExcused'
  BY <1>2, <1>3
<1>5. liveExcused' \in SUBSET Keys /\ liveExcused \subseteq liveExcused'
  BY <1>1, <1>3
<1>6. \A j \in Keys \ liveExcused' : Settles(liveCalls[c], j) => \E q \in {o} : q.key = j
  BY <1>1
<1> QED
  BY <1>3, <1>4, <1>5, <1>6, LiveOwes

LEMMA LiveMaybeCache ==
  ASSUME LiveInv, NEW c \in Clients, NEW o \in liveCalls[c].todo, MaybeCache(c, o)
  PROVE  LiveInv'
<1> DEFINE kept == Selected = Contents \/ Matching(o.key) # {}
           slot == IF kept THEN o.slot ELSE LiveMiss
           p == Owed(o.key, slot, TRUE)
           todo == (liveCalls[c].todo \ {o}) \union {p}
<1>1. /\ liveCalls[c] \in LiveCallValues /\ liveCalls[c].todo \in SUBSET LiveChanges
      /\ o \in LiveChanges
  BY DEF LiveInv, LiveTypeOK, LiveCallValues
<1>2. liveCalls[c].pc = "publish" /\ ~o.checked
  BY <1>1 DEF LiveInv, CallShape, NoLiveCall, MaybeCache, LiveCallValues
<1>3. slot \in LiveSlotValues /\ o.key \in Keys /\ LiveMiss.status = "miss"
  BY <1>1 DEF LiveChanges, LiveSlotValues, LiveMiss, Slot
<1> HIDE DEF slot, kept
<1>4. p \in LiveChanges /\ p.key = o.key /\ p.slot = slot /\ p.checked
  BY <1>3, OwedHasType
<1> HIDE DEF p
<1>5. o.key \notin liveExcused => Shows(slot, o.key)
  <2> SUFFICES ASSUME o.key \notin liveExcused, kept PROVE Shows(o.slot, o.key)
    BY <1>3 DEF slot, Shows
  <2>1. PICK d \in Docs : /\ liveDocs[d].key = o.key
                          /\ o.slot = Artifact(d, liveDocs[d].content)
    BY <1>2 DEF LiveInv, OwesTruth
  <2>2. liveDocs[d] # Absent /\ liveDocs[d].content \in Contents
    BY <1>3, <2>1, NothingAssumption DEF LiveInv, LiveTypeOK, LiveDocuments, Absent
  <2>3. d \in Matching(o.key)
    BY <2>1, <2>2 DEF kept, Matching, LiveInv, KeysUnique
  <2> QED
    BY <2>1, <2>3 DEF Shows, Artifact, Slot
<1>6. Owing(c, todo) /\ UNCHANGED <<liveDocs, liveSlots, liveExcused>>
  BY DEF MaybeCache, p, slot, kept
<1>7. todo \in SUBSET LiveChanges /\ liveExcused' \in SUBSET Keys
  BY <1>1, <1>4, <1>6 DEF LiveInv, LiveTypeOK
<1>8. \A q \in todo : q.key \notin liveExcused =>
        IF q.checked THEN Shows(q.slot, q.key)
        ELSE \E d \in Docs : /\ liveDocs[d].key = q.key
                             /\ q.slot = Artifact(d, liveDocs[d].content)
  BY <1>2, <1>4, <1>5 DEF LiveInv, OwesTruth
<1>9. \A k \in Keys : Settles(liveCalls[c], k) => \E q \in todo : q.key = k
  BY <1>2, <1>4 DEF Settles
<1> HIDE DEF todo
<1> QED
  BY <1>6, <1>7, <1>8, <1>9, LiveOwes

LEMMA LiveMaybeCacheFails ==
  ASSUME LiveInv, NEW c \in Clients, NEW o \in liveCalls[c].todo, MaybeCacheFails(c, o)
  PROVE  LiveInv'
<1> DEFINE p == Owed(o.key, LiveMiss, TRUE)
           todo == (liveCalls[c].todo \ {o}) \union {p}
<1>1. /\ liveCalls[c] \in LiveCallValues /\ liveCalls[c].todo \in SUBSET LiveChanges
      /\ o \in LiveChanges
  BY DEF LiveInv, LiveTypeOK, LiveCallValues
<1>2. liveCalls[c].pc = "publish" /\ ~o.checked
  BY <1>1 DEF LiveInv, CallShape, NoLiveCall, MaybeCacheFails, LiveCallValues
<1>3. LiveMiss \in LiveSlotValues /\ o.key \in Keys /\ LiveMiss.status = "miss"
  BY <1>1 DEF LiveChanges, LiveSlotValues, LiveMiss, Slot
<1>4. p \in LiveChanges /\ p.key = o.key /\ p.slot = LiveMiss /\ p.checked
  BY <1>3, OwedHasType
<1>5. Shows(LiveMiss, o.key)
  BY <1>3 DEF Shows
<1> HIDE DEF p
<1>6. Owing(c, todo) /\ UNCHANGED <<liveDocs, liveSlots, liveExcused>>
  BY DEF MaybeCacheFails, p
<1>7. todo \in SUBSET LiveChanges /\ liveExcused' \in SUBSET Keys
  BY <1>1, <1>4, <1>6 DEF LiveInv, LiveTypeOK
<1>8. \A q \in todo : q.key \notin liveExcused =>
        IF q.checked THEN Shows(q.slot, q.key)
        ELSE \E d \in Docs : /\ liveDocs[d].key = q.key
                             /\ q.slot = Artifact(d, liveDocs[d].content)
  BY <1>2, <1>4, <1>5 DEF LiveInv, OwesTruth
<1>9. \A k \in Keys : Settles(liveCalls[c], k) => \E q \in todo : q.key = k
  BY <1>2, <1>4 DEF Settles
<1> HIDE DEF todo
<1> QED
  BY <1>6, <1>7, <1>8, <1>9, LiveOwes

(* The slot that is changed shows the database; the change is gone.        *)
LEMMA LivePublishOne ==
  ASSUME LiveInv, NEW c \in Clients, NEW o \in liveCalls[c].todo,
         liveCalls[c].pc = "publish", PublishOne(c, o)
  PROVE  LiveInv'
<1>1. PICK todo \in SUBSET LiveChanges :
        todo = liveCalls[c].todo \ {o} /\ o \in LiveChanges /\ o.checked
  <2>1. liveCalls[c] \in LiveCallValues
    BY DEF LiveInv, LiveTypeOK
  <2>2. liveCalls[c].todo \in SUBSET LiveChanges
    BY <2>1 DEF LiveCallValues
  <2>3. o.checked
    BY DEF PublishOne
  <2> QED
    BY <2>2, <2>3
<1> DEFINE call == Left(todo)
<1>2. /\ call \in LiveCallValues
      /\ call.todo = todo
      /\ call.pc = IF todo = {} THEN "none" ELSE "publish"
      /\ call.pc = "none" => call = NoLiveCall
  BY <1>1, LeftHasType
<1>3. CallShape(call) /\ DeletesKnown(call)'
  BY <1>2 DEF CallShape, DeletesKnown
<1>4. /\ UNCHANGED <<liveDocs, liveExcused>>
      /\ liveCalls' = [liveCalls EXCEPT ![c] = call]
      /\ liveSlots' = [liveSlots EXCEPT ![o.key] = o.slot]
      /\ liveSlots' \in [Keys -> LiveSlotValues]
      /\ liveExcused' \in SUBSET Keys
  BY <1>1 DEF PublishOne, Owing, Left, LiveInv, LiveTypeOK, LiveChanges
<1>5. OwesTruth(liveCalls[c]) /\ (o.key \notin liveExcused => Shows(o.slot, o.key))
  BY <1>1 DEF LiveInv, OwesTruth
<1>6. OwesTruth(call)'
  <2>1. \A slot, k : Shows(slot, k)' <=> Shows(slot, k)
    BY <1>4 DEF Shows, Matching
  <2>2. OwesTruth(call)
    BY <1>1, <1>2, <1>5 DEF OwesTruth
  <2> HIDE DEF call
  <2> QED
    BY <1>4, <2>1, <2>2 DEF OwesTruth
<1>7. \A k \in Keys \ liveExcused' :
        \/ Shows(liveSlots'[k], k)
        \/ /\ liveSlots'[k] = liveSlots[k]
           /\ Settles(liveCalls[c], k) => Settles(call, k)
  BY <1>1, <1>2, <1>4, <1>5 DEF Settles, LiveInv, LiveTypeOK
<1> HIDE DEF call
<1> QED
  BY <1>2, <1>3, <1>4, <1>6, <1>7, LiveCacheStep

LEMMA LiveDeleteReads ==
  ASSUME LiveInv, NEW c \in Clients, NEW F \in SUBSET Docs, DeleteReads(c, F)
  PROVE  LiveInv'
<1>1. PICK K \in {KeysOf(F), {}} :
        Begin(c, [NoLiveCall EXCEPT !.pc = "delete", !.filter = F,
                    !.todo = {Owed(k, LiveNegative, TRUE) : k \in K}])
  BY DEF DeleteReads
<1> DEFINE owed == {Owed(k, LiveNegative, TRUE) : k \in K}
<1>2. KeysOf(F) \subseteq Keys
  BY DEF KeysOf, Present, LiveInv, LiveTypeOK, LiveDocuments
<1>3. LiveNegative \in LiveSlotValues
  BY DEF LiveSlotValues
<1>4. PICK todo \in SUBSET LiveChanges :
      /\ todo = owed
      /\ \A o \in todo : o.key \in K /\ o.slot = LiveNegative /\ o.checked
      /\ \A k \in K : \E o \in todo : o.key = k
  <2>1. \A k \in K :
          LET o == Owed(k, LiveNegative, TRUE)
          IN o \in LiveChanges /\ o.key = k /\ o.slot = LiveNegative /\ o.checked
    BY <1>2, <1>3, OwedHasType
  <2>2. owed \in SUBSET LiveChanges
    BY <2>1
  <2>3. \A o \in owed : o.key \in K /\ o.slot = LiveNegative /\ o.checked
    BY <2>1
  <2>4. \A k \in K : \E o \in owed : o.key = k
    BY <2>1
  <2> QED
    BY <2>2, <2>3, <2>4
<1> DEFINE call == [NoLiveCall EXCEPT !.pc = "delete", !.filter = F, !.todo = todo]
<1> HIDE DEF owed
<1>5. /\ call \in LiveCallValues
      /\ call.pc = "delete" /\ call.filter = F /\ call.todo = todo
  BY <1>4 DEF NoLiveCall, LiveCallValues
<1>6. CallShape(call) /\ OwesTruth(call)'
  BY <1>4, <1>5 DEF CallShape, OwesTruth
<1>7. DeletesKnown(call)'
  BY <1>4, <1>5 DEF DeletesKnown, KeysOf, Present, DeleteReads
<1>8. \A k \in Keys : ~Settles(liveCalls[c], k)
  BY <1>1 DEF Begin, NoLiveCall, Settles
<1>9. /\ liveCalls' = [liveCalls EXCEPT ![c] = call]
      /\ UNCHANGED <<liveDocs, liveSlots, liveExcused>>
      /\ liveSlots' \in [Keys -> LiveSlotValues] /\ liveExcused' \in SUBSET Keys
  BY <1>1, <1>4 DEF DeleteReads, Begin, owed, LiveInv, LiveTypeOK
<1> HIDE DEF call
<1> QED
  BY <1>5, <1>6, <1>7, <1>8, <1>9, LiveCacheStep

LEMMA NoLiveCallFits ==
  /\ NoLiveCall \in LiveCallValues
  /\ CallShape(NoLiveCall) /\ OwesTruth(NoLiveCall)' /\ DeletesKnown(NoLiveCall)'
  /\ \A k \in Keys : ~Settles(NoLiveCall, k)
BY DEF NoLiveCall, LiveCallValues, CallShape, OwesTruth, DeletesKnown, Settles

LEMMA LiveDeleteFails ==
  ASSUME LiveInv, NEW c \in Clients, DeleteFails(c)
  PROVE  LiveInv'
<1>1. /\ liveCalls' = [liveCalls EXCEPT ![c] = NoLiveCall]
      /\ UNCHANGED <<liveDocs, liveSlots, liveExcused>>
      /\ liveSlots' \in [Keys -> LiveSlotValues] /\ liveExcused' \in SUBSET Keys
  BY DEF DeleteFails, LiveInv, LiveTypeOK
<1>2. \A k \in Keys : ~Settles(liveCalls[c], k)
  BY DEF DeleteFails, Settles
<1> QED
  BY <1>1, <1>2, NoLiveCallFits, LiveCacheStep

LEMMA LiveCleared ==
  ASSUME LiveInv, NEW c \in Clients, LiveClear(c)
  PROVE  LiveInv'
<1>1. LiveMiss \in LiveSlotValues /\ \A k \in Keys : Shows(LiveMiss, k)
  BY DEF LiveMiss, Slot, LiveSlotValues, Shows
<1>2. /\ liveCalls' = [liveCalls EXCEPT ![c] = NoLiveCall]
      /\ UNCHANGED <<liveDocs, liveExcused>> /\ liveExcused' \in SUBSET Keys
      /\ liveSlots' \in [Keys -> LiveSlotValues]
      /\ \A k \in Keys : Shows(liveSlots'[k], k)
  BY <1>1 DEF LiveClear, LiveInv, LiveTypeOK
<1> QED
  BY <1>2, NoLiveCallFits, LiveCacheStep

LEMMA LiveExpires ==
  ASSUME LiveInv, NEW k \in Keys, LiveExpire(k)
  PROVE  LiveInv'
<1>1. LiveMiss \in LiveSlotValues /\ Shows(LiveMiss, k)
  BY DEF LiveMiss, Slot, LiveSlotValues, Shows
<1> QED
  BY <1>1 DEF LiveExpire, LiveInv, LiveTypeOK, KeysUnique, OwesTruth, DeletesKnown,
       SlotsInv, Shows, Matching, Present

(* The writes that end in maybeCache: of the documents D, which now have   *)
(* the keys K.                                                             *)
LEMMA LiveWrote ==
  ASSUME LiveInv, NEW c \in Clients, liveCalls[c] = NoLiveCall,
         NEW D \in SUBSET Docs, NEW K \in SUBSET Keys,
         NEW docs \in [Docs -> LiveDocuments], Wrote(c, D, docs),
         \A d \in Docs \ D : docs[d] = liveDocs[d],
         \A d \in D : docs[d] # Absent /\ docs[d].key \in K,
         \A k \in K : \E d \in D : docs[d].key = k,
         KeysUnique',
         \A d \in D : liveDocs[d] # Absent => liveDocs[d].key \in K \union liveExcused',
         liveExcused' \in SUBSET Keys, liveExcused \subseteq liveExcused',
         ExcusedByWrite(c, D, K) \subseteq liveExcused',
         UNCHANGED liveSlots
  PROVE  LiveInv'
<1> DEFINE owed == ToCache(D, docs)
           one(d) == Owed(docs[d].key, Artifact(d, docs[d].content), FALSE)
<1>1. \A d \in D : docs[d].key \in Keys /\ docs[d].content \in Contents
  BY DEF LiveDocuments
<1>2. PICK todo \in SUBSET LiveChanges :
        /\ todo = owed
        /\ \A o \in todo : ~o.checked /\ \E d \in D : /\ docs[d].key = o.key
                                                      /\ o.slot = Artifact(d, docs[d].content)
        /\ \A d \in D : \E o \in todo : o.key = docs[d].key
  <2>1. ASSUME NEW d \in D
        PROVE  /\ one(d) \in LiveChanges /\ ~one(d).checked
               /\ one(d).key = docs[d].key
               /\ one(d).slot = Artifact(d, docs[d].content)
    <3>1. Artifact(d, docs[d].content) \in LiveSlotValues
      BY <1>1, ArtifactHasType
    <3>2. docs[d].key \in Keys
      BY <1>1
    <3> QED
      BY <3>1, <3>2 DEF Owed, LiveChanges
  <2>2. owed = {one(d) : d \in D}
    BY DEF ToCache
  <2> HIDE DEF owed, one
  <2> QED
    BY <2>1, <2>2
<1> DEFINE call == [NoLiveCall EXCEPT !.pc = "publish", !.todo = todo]
<1>3. /\ call \in LiveCallValues
      /\ call.pc = "publish" /\ call.todo = todo
  BY DEF NoLiveCall, LiveCallValues
<1>4. liveCalls' = [liveCalls EXCEPT ![c] = call] /\ liveDocs' = docs
  BY <1>2 DEF Wrote
<1> HIDE DEF call, owed
<1>5. CallShape(call)
  BY <1>3 DEF CallShape
<1>6. OwesTruth(call)'
  BY <1>2, <1>3, <1>4 DEF OwesTruth
<1>7. \A k \in K : Settles(call, k)
  BY <1>2, <1>3 DEF Settles
<1>8. liveCalls[c].pc \in {"none", "delete"} /\ call.pc # "delete"
  BY <1>3 DEF NoLiveCall
<1>9. /\ liveDocs' \in [Docs -> LiveDocuments]
      /\ \A d \in Docs \ D : liveDocs'[d] = liveDocs[d]
      /\ \A d \in D :
           /\ liveDocs[d] # Absent => liveDocs[d].key \in K \union liveExcused'
           /\ liveDocs'[d] # Absent => liveDocs'[d].key \in K
  BY <1>4
<1> QED
  BY <1>3, <1>4, <1>5, <1>6, <1>7, <1>8, <1>9, LiveWriteStep

LEMMA StoredFits ==
  ASSUME NEW k \in Keys, NEW x \in Contents
  PROVE  /\ Stored(k, x) \in LiveDocuments /\ Stored(k, x) # Absent
         /\ Stored(k, x).key = k
BY NothingAssumption DEF Stored, LiveDocuments, Absent

LEMMA LiveCreates ==
  ASSUME LiveInv, NEW c \in Clients, NEW D \in SUBSET Docs, NEW x \in Contents,
         LiveCreate(c, D, x)
  PROVE  LiveInv'
<1> DEFINE docs == [d \in Docs |-> IF d \in D THEN Stored(HomeKey[d], x) ELSE liveDocs[d]]
           K == {HomeKey[d] : d \in D}
<1>1. /\ K \in SUBSET Keys
      /\ \A d \in D : /\ HomeKey[d] \in Keys
                      /\ Stored(HomeKey[d], x) \in LiveDocuments
                      /\ Stored(HomeKey[d], x) # Absent
                      /\ Stored(HomeKey[d], x).key = HomeKey[d]
  BY HomeKeyAssumption, StoredFits
<1>2. /\ docs \in [Docs -> LiveDocuments]
      /\ \A d \in Docs \ D : docs[d] = liveDocs[d]
      /\ \A d \in D : docs[d] = Stored(HomeKey[d], x) /\ liveDocs[d] = Absent
  BY <1>1 DEF LiveInv, LiveTypeOK, LiveCreate, Present
<1>3. /\ liveCalls[c] = NoLiveCall /\ Wrote(c, D, docs) /\ UNCHANGED liveSlots
      /\ liveExcused' = liveExcused \union ExcusedByWrite(c, D, K)
      /\ K \intersect KeysOf(Docs) = {}
      /\ \A d, e \in D : HomeKey[d] = HomeKey[e] => d = e
      /\ liveDocs' = docs
  BY DEF LiveCreate, Wrote
<1> HIDE DEF docs
<1>4. KeysUnique'
  <2>1. \A d \in Docs \ D, e \in D : liveDocs[d] # Absent => liveDocs[d].key # HomeKey[e]
    BY <1>3 DEF KeysOf, Present
  <2>2. \A d \in D, e \in Docs \ D : liveDocs[e].key # HomeKey[d]
    <3>1. Absent.key = Nothing
      BY DEF Absent
    <3> QED
      BY <1>1, <2>1, <3>1, NothingAssumption
  <2> QED
    BY <1>1, <1>2, <1>3, <2>1, <2>2 DEF KeysUnique, LiveInv
<1>5. liveExcused' \in SUBSET Keys
  BY <1>1, <1>3 DEF ExcusedByWrite, LiveInv, LiveTypeOK
<1>6. /\ \A d \in D : docs[d] # Absent /\ docs[d].key \in K
      /\ \A k \in K : \E d \in D : docs[d].key = k
      /\ \A d \in D : liveDocs[d] # Absent => liveDocs[d].key \in K \union liveExcused'
  BY <1>1, <1>2
<1> HIDE DEF K
<1> QED
  BY <1>1, <1>2, <1>3, <1>4, <1>5, <1>6, LiveWrote

LEMMA LiveUpdates ==
  ASSUME LiveInv, NEW c \in Clients, NEW F \in SUBSET Docs, NEW x \in Contents,
         LiveUpdate(c, F, x)
  PROVE  LiveInv'
<1> DEFINE D == Present(F)
           K == KeysOf(F)
           docs == [d \in Docs |-> IF d \in D THEN [liveDocs[d] EXCEPT !.content = x]
                                   ELSE liveDocs[d]]
<1>1. /\ D \in SUBSET Docs
      /\ \A d \in D : /\ liveDocs[d] # Absent
                      /\ [liveDocs[d] EXCEPT !.content = x] \in LiveDocuments
                      /\ [liveDocs[d] EXCEPT !.content = x].key = liveDocs[d].key
                      /\ liveDocs[d].key \in Keys
  BY DEF Present, LiveInv, LiveTypeOK, LiveDocuments
<1>2. K \in SUBSET Keys /\ \A k : k \in K <=> \E d \in D : liveDocs[d].key = k
  BY <1>1 DEF KeysOf
<1>3. /\ docs \in [Docs -> LiveDocuments]
      /\ \A d \in Docs \ D : docs[d] = liveDocs[d]
      /\ \A d \in D : docs[d].key = liveDocs[d].key /\ docs[d].key \in Keys
  BY <1>1 DEF LiveInv, LiveTypeOK
<1>4. /\ liveCalls[c] = NoLiveCall /\ Wrote(c, D, docs) /\ UNCHANGED liveSlots
      /\ liveExcused' = liveExcused \union ExcusedByWrite(c, D, K)
      /\ liveDocs' = docs
  BY DEF LiveUpdate, Wrote
<1> HIDE DEF docs
<1>5. \A d \in D : docs[d] # Absent
  BY <1>3, NothingAssumption DEF Absent
<1>6. KeysUnique'
  <2>1. \A d \in Docs : /\ liveDocs'[d].key = liveDocs[d].key
                        /\ liveDocs'[d] # Absent => liveDocs[d] # Absent
    BY <1>1, <1>3, <1>4
  <2>2. KeysUnique
    BY DEF LiveInv
  <2> QED
    BY <2>1, <2>2 DEF KeysUnique
<1> HIDE DEF D, K
<1>7. liveExcused' \in SUBSET Keys
  BY <1>2, <1>4 DEF ExcusedByWrite, LiveInv, LiveTypeOK
<1>8. /\ \A d \in D : docs[d] # Absent /\ docs[d].key \in K
      /\ \A k \in K : \E d \in D : docs[d].key = k
      /\ \A d \in D : liveDocs[d] # Absent => liveDocs[d].key \in K \union liveExcused'
  BY <1>2, <1>3, <1>5
<1> QED
  BY <1>1, <1>2, <1>3, <1>4, <1>6, <1>7, <1>8, LiveWrote

(* An update that returns nothing settles no slot, and excuses them all.   *)
LEMMA LiveUpdatesUnreturned ==
  ASSUME LiveInv, NEW c \in Clients, NEW F \in SUBSET Docs, NEW x \in Contents,
         LiveUpdateUnreturned(c, F, x)
  PROVE  LiveInv'
<1> DEFINE D == Present(F)
           K == KeysOf(F)
           docs == [d \in Docs |-> IF d \in D THEN [liveDocs[d] EXCEPT !.content = x]
                                   ELSE liveDocs[d]]
<1>1. /\ D \in SUBSET Docs
      /\ \A d \in D : /\ liveDocs[d] # Absent
                      /\ [liveDocs[d] EXCEPT !.content = x] \in LiveDocuments
                      /\ [liveDocs[d] EXCEPT !.content = x].key = liveDocs[d].key
                      /\ liveDocs[d].key \in Keys
  BY DEF Present, LiveInv, LiveTypeOK, LiveDocuments
<1>2. K \in SUBSET Keys /\ \A k : k \in K <=> \E d \in D : liveDocs[d].key = k
  BY <1>1 DEF KeysOf
<1>3. /\ docs \in [Docs -> LiveDocuments]
      /\ \A d \in Docs \ D : docs[d] = liveDocs[d]
      /\ \A d \in D : docs[d].key = liveDocs[d].key /\ docs[d].key \in Keys
  BY <1>1 DEF LiveInv, LiveTypeOK
<1>4. /\ liveCalls[c] = NoLiveCall /\ UNCHANGED <<liveSlots, liveCalls>>
      /\ liveExcused' = liveExcused \union K
      /\ liveDocs' = docs
  BY DEF LiveUpdateUnreturned
<1> HIDE DEF docs
<1>5. KeysUnique'
  <2>1. \A d \in Docs : /\ liveDocs'[d].key = liveDocs[d].key
                        /\ liveDocs'[d] # Absent => liveDocs[d] # Absent
    BY <1>1, <1>3, <1>4
  <2>2. KeysUnique
    BY DEF LiveInv
  <2> QED
    BY <2>1, <2>2 DEF KeysUnique
<1> HIDE DEF D, K
<1>6. /\ liveExcused' \in SUBSET Keys /\ liveExcused \subseteq liveExcused'
      /\ K \subseteq liveExcused'
  BY <1>2, <1>4 DEF LiveInv, LiveTypeOK
<1>7. ExcusedByWrite(c, D, K) \subseteq liveExcused'
  BY <1>6 DEF ExcusedByWrite
<1>8. /\ liveCalls' = [liveCalls EXCEPT ![c] = NoLiveCall]
      /\ NoLiveCall \in LiveCallValues
      /\ NoLiveCall.pc = "none" /\ NoLiveCall.todo = {}
  BY <1>4 DEF NoLiveCall, LiveCallValues, LiveInv, LiveTypeOK
<1>9. /\ liveDocs' \in [Docs -> LiveDocuments]
      /\ \A d \in Docs \ D : liveDocs'[d] = liveDocs[d]
      /\ \A d \in D : /\ liveDocs[d] # Absent => liveDocs[d].key \in K \union liveExcused'
                      /\ liveDocs'[d] # Absent => liveDocs'[d].key \in K
  BY <1>2, <1>3, <1>4
<1>10. CallShape(NoLiveCall) /\ OwesTruth(NoLiveCall)' /\ DeletesKnown(NoLiveCall)'
  BY <1>8 DEF CallShape, OwesTruth, DeletesKnown
<1> QED
  BY <1>1, <1>2, <1>4, <1>5, <1>6, <1>7, <1>8, <1>9, <1>10, LiveWriteStep

LEMMA LiveUpdatesKey ==
  ASSUME LiveInv, NEW c \in Clients, NEW d \in Docs, NEW k \in Keys,
         LiveUpdateKey(c, d, k)
  PROVE  LiveInv'
<1> DEFINE docs == [liveDocs EXCEPT ![d].key = k]
           old == liveDocs[d].key
<1>1. /\ liveDocs[d] # Absent
      /\ [liveDocs[d] EXCEPT !.key = k] \in LiveDocuments
      /\ [liveDocs[d] EXCEPT !.key = k].key = k
      /\ old \in Keys
  BY DEF LiveUpdateKey, LiveInv, LiveTypeOK, LiveDocuments
<1>2. /\ docs \in [Docs -> LiveDocuments]
      /\ \A e \in Docs \ {d} : docs[e] = liveDocs[e]
      /\ docs[d].key = k
  BY <1>1 DEF LiveInv, LiveTypeOK
<1>3. /\ liveCalls[c] = NoLiveCall /\ Wrote(c, {d}, docs) /\ UNCHANGED liveSlots
      /\ liveExcused' = liveExcused \union {old} \union ExcusedByWrite(c, {d}, {k})
      /\ k \notin KeysOf(Docs)
      /\ liveDocs' = docs
  BY DEF LiveUpdateKey, Wrote
<1> HIDE DEF docs
<1>4. docs[d] # Absent
  BY <1>2, NothingAssumption DEF Absent
<1>5. KeysUnique'
  <2>1. \A e \in Docs : liveDocs[e].key # k
    BY <1>3, NothingAssumption DEF KeysOf, Present, Absent
  <2> QED
    BY <1>2, <1>3, <2>1 DEF KeysUnique, LiveInv
<1>6. liveExcused' \in SUBSET Keys
  BY <1>1, <1>3 DEF ExcusedByWrite, LiveInv, LiveTypeOK
<1>7. PICK D \in SUBSET Docs, K \in SUBSET Keys : D = {d} /\ K = {k}
  OBVIOUS
<1>8. /\ docs \in [Docs -> LiveDocuments] /\ Wrote(c, D, docs)
      /\ liveCalls[c] = NoLiveCall /\ UNCHANGED liveSlots
      /\ \A e \in Docs \ D : docs[e] = liveDocs[e]
      /\ \A e \in D : docs[e] # Absent /\ docs[e].key \in K
      /\ \A j \in K : \E e \in D : docs[e].key = j
      /\ \A e \in D : liveDocs[e].key \in K \union liveExcused'
      /\ ExcusedByWrite(c, D, K) \subseteq liveExcused'
      /\ liveExcused \subseteq liveExcused'
  BY <1>2, <1>3, <1>4, <1>7
<1> QED
  BY <1>5, <1>6, <1>8, LiveWrote

(* What is deleted had a key the call has read, or the cache is cleared.   *)
LEMMA LiveDeletes ==
  ASSUME LiveInv, NEW c \in Clients, DeleteDeletes(c)
  PROVE  LiveInv'
<1>1. PICK F \in SUBSET Docs, todo \in SUBSET LiveChanges :
        /\ liveCalls[c].pc = "delete"
        /\ liveCalls[c].filter = F /\ liveCalls[c].todo = todo
        /\ \A o \in todo : o.slot = LiveNegative /\ o.checked
        /\ DeletesKnown(liveCalls[c])
  BY DEF DeleteDeletes, LiveInv, LiveTypeOK, LiveCallValues, CallShape
<1>2. PICK D \in SUBSET Docs, K \in SUBSET Keys : D = Present(F) /\ K = KeysOf(F)
  <2>1. Present(F) \in SUBSET Docs
    BY DEF Present
  <2>2. \A d \in Present(F) : liveDocs[d].key \in Keys
    BY DEF Present, LiveInv, LiveTypeOK, LiveDocuments
  <2>3. KeysOf(F) \in SUBSET Keys
    BY <2>2 DEF KeysOf
  <2> QED
    BY <2>1, <2>3
<1>3. /\ \A d \in D : liveDocs[d] # Absent /\ liveDocs[d].key \in K
      /\ \A k \in K : \E d \in D : liveDocs[d].key = k
      /\ \A d \in F \ D : liveDocs[d] = Absent
  BY <1>2 DEF Present, KeysOf
<1>4. PICK call \in LiveCallValues :
        /\ liveCalls' = [liveCalls EXCEPT ![c] = call]
        /\ call.pc = "none" => call = NoLiveCall /\ (D = {} \/ todo = {})
        /\ call.pc = "clear" => call.todo = {}
        /\ call.pc = "publish" => call.todo = todo
        /\ call.pc \in {"none", "publish", "clear"}
        /\ D # {} /\ todo = {} => call.pc = "clear"
  <2>1. CASE D # {} /\ todo = {}
    <3> DEFINE call == [NoLiveCall EXCEPT !.pc = "clear"]
    <3>1. call \in LiveCallValues /\ call.pc = "clear" /\ call.todo = {}
      BY DEF NoLiveCall, LiveCallValues
    <3>2. liveCalls' = [liveCalls EXCEPT ![c] = call]
      BY <1>1, <1>2, <2>1 DEF DeleteDeletes
    <3> HIDE DEF call
    <3> QED
      BY <2>1, <3>1, <3>2
  <2>2. CASE ~(D # {} /\ todo = {})
    <3> DEFINE left == IF D = {} THEN {} ELSE todo
               call == Left(left)
    <3>1. /\ call \in LiveCallValues /\ call.todo = left
          /\ call.pc = IF left = {} THEN "none" ELSE "publish"
          /\ call.pc = "none" => call = NoLiveCall
      <4> left \in SUBSET LiveChanges
        OBVIOUS
      <4> HIDE DEF left
      <4> QED
        BY LeftHasType
    <3>2. liveCalls' = [liveCalls EXCEPT ![c] = call]
      BY <1>1, <1>2, <2>2 DEF DeleteDeletes, Owing, Left
    <3>3. left # {} => left = todo
      OBVIOUS
    <3> HIDE DEF call, left
    <3>4. call.pc = "none" => D = {} \/ todo = {}
      BY <3>1 DEF left
    <3> QED
      BY <2>2, <3>1, <3>2, <3>3, <3>4
  <2> QED
    BY <2>1, <2>2
<1>5. /\ liveDocs' = [d \in Docs |-> IF d \in D THEN Absent ELSE liveDocs[d]]
      /\ liveExcused' = liveExcused \union ExcusedByWrite(c, D, K)
      /\ UNCHANGED liveSlots
  BY <1>1, <1>2 DEF DeleteDeletes
<1>6. /\ liveDocs' \in [Docs -> LiveDocuments]
      /\ \A d \in D : liveDocs'[d] = Absent
      /\ \A d \in Docs \ D : liveDocs'[d] = liveDocs[d]
      /\ liveExcused' \in SUBSET Keys
  BY <1>5 DEF LiveInv, LiveTypeOK, LiveDocuments, ExcusedByWrite
<1>7. KeysUnique'
  <2>1. Absent.key = Nothing /\ Nothing \notin Keys
    BY NothingAssumption DEF Absent
  <2>2. \A d \in Docs : liveDocs[d] # Absent => liveDocs[d].key \in Keys
    BY DEF LiveInv, LiveTypeOK, LiveDocuments
  <2> QED
    BY <1>6, <2>1, <2>2 DEF KeysUnique, LiveInv
<1>8. CallShape(call)
  BY <1>4 DEF CallShape
<1>9. \A k \in K \ liveExcused' : Settles(call, k)
  <2> SUFFICES ASSUME NEW k \in K \ liveExcused' PROVE Settles(call, k)
    OBVIOUS
  <2>1. PICK d \in D : liveDocs[d].key = k
    BY <1>3
  <2>2. CASE todo = {}
    BY <1>4, <2>1, <2>2 DEF Settles
  <2>3. CASE todo # {}
    <3>1. \E o \in todo : o.key = k
      BY <1>1, <1>2, <1>5, <2>1, <2>3 DEF DeletesKnown
    <3> QED
      BY <1>4, <2>1, <2>3, <3>1 DEF Settles
  <2> QED
    BY <2>2, <2>3
<1>10. OwesTruth(call)'
  <2> SUFFICES ASSUME call.pc = "publish", NEW o \in todo, o.key \notin liveExcused'
               PROVE  o.checked /\ Shows(o.slot, o.key)'
    BY <1>4 DEF OwesTruth
  <2>1. PICK d \in D : liveDocs[d].key = o.key
    BY <1>1, <1>2, <1>5 DEF DeletesKnown
  <2>2. o.key \in Keys
    BY DEF LiveChanges
  <2>3. \A e \in Docs : liveDocs'[e].key # o.key
    BY <1>3, <1>6, <2>1, <2>2, NothingAssumption DEF KeysUnique, LiveInv, Absent
  <2>4. Matching(o.key)' = {}
    BY <2>3 DEF Matching
  <2> QED
    BY <1>1, <2>4 DEF Shows, LiveNegative, Slot
<1> QED
  BY <1>1, <1>3, <1>4, <1>5, <1>6, <1>7, <1>8, <1>9, <1>10, LiveWriteStep

LEMMA LiveStep == LiveInv /\ [LiveNext]_liveVars => LiveInv'
<1> SUFFICES ASSUME LiveInv, [LiveNext]_liveVars PROVE LiveInv'
  OBVIOUS
<1>1. CASE LiveNext
  BY <1>1, LiveGetMisses, LiveGetReads, LiveGetFails, LiveCreates, LiveUpdates,
     LiveUpdatesUnreturned, LiveUpdatesKey, LiveMaybeCache, LiveMaybeCacheFails, LivePublishOne,
     LiveDeleteReads, LiveDeletes, LiveDeleteFails, LiveCleared, LiveExpires
  DEF LiveNext
<1>2. CASE UNCHANGED liveVars
  BY <1>2 DEF liveVars, LiveInv, LiveTypeOK, KeysUnique, CallShape, OwesTruth,
     DeletesKnown, SlotsInv, Shows, Matching, Present, Settles
<1> QED
  BY <1>1, <1>2

(* LiveCoherent: however many callers read, write, delete and expire at    *)
(* once, a slot that is not excused, and that nobody is about to settle,   *)
(* shows what the store holds.  (What is excused stays so for good, since  *)
(* an update not read back leaves a slot as it was until it expires.)      *)
THEOREM LiveTheorem == LiveSpec => []LiveCoherent
<1>1. LiveInv => LiveCoherent
  BY DEF LiveInv, LiveCoherent, SlotsInv, Settles, Holds, Shows, Fresh
<1> QED
  BY <1>1, LiveInitially, LiveStep, PTL DEF LiveSpec

----------------------------------------------------------------------------
(* ModelCollection.                                                        *)

ModelContents == Revisions \union {NoModel}
ModelSlotValues ==
  [status : {"miss", "negative", "positive"}, id : Ids \union {NoModel},
   revision : ModelContents]
ModelChanges == [id : Ids, slot : ModelSlotValues]
ModelCallValues ==
  [pc : {"none", "find", "publish", "clear"}, id : Ids \union {NoModel},
   todo : SUBSET ModelChanges]

ModelTypeOK ==
  /\ stored \in [Ids -> ModelContents]
  /\ modelSlots \in [Ids -> ModelSlotValues]
  /\ modelCalls \in [Callers -> ModelCallValues]
  /\ modelExcused \subseteq Ids

ModelCallShape(call) ==
  /\ call.pc = "none" => call = Quiet
  /\ call.pc \in {"find", "clear"} => call.todo = {}
  /\ call.pc = "find" => call.id \in Ids

(* A slot for i that answers as the database would, or a miss.             *)
Agrees(slot, i) ==
  /\ slot.status = "positive" => slot = Model(i, stored[i]) /\ stored[i] # NoModel
  /\ slot.status = "negative" => stored[i] = NoModel

OwesModels(call) ==
  call.pc = "publish" =>
    \A o \in call.todo : o.id \notin modelExcused => Agrees(o.slot, o.id)

(* The call will change the slot of i.                                     *)
WillChange(call, i) ==
  \/ call.pc = "clear"
  \/ call.pc = "publish" /\ \E o \in call.todo : o.id = i

ModelSlotsInv ==
  \A i \in Ids \ modelExcused :
    Agrees(modelSlots[i], i) \/ \E c \in Callers : WillChange(modelCalls[c], i)

ModelInv ==
  /\ ModelTypeOK
  /\ \A c \in Callers : ModelCallShape(modelCalls[c]) /\ OwesModels(modelCalls[c])
  /\ ModelSlotsInv

LEMMA ModelInitially == ModelInit => ModelInv
BY DEF ModelInit, ModelInv, ModelTypeOK, ModelCallShape, OwesModels, ModelSlotsInv,
       Agrees, ModelContents, ModelSlotValues, ModelCallValues, Quiet, ModelMiss,
       ModelSlot

(* A step of c that writes the documents W, none if it only works on the   *)
(* cache: the slots and the changes owed of other documents stay true.     *)
LEMMA ModelCallStep ==
  ASSUME ModelInv, NEW c \in Callers, NEW call \in ModelCallValues,
         NEW W \in SUBSET Ids,
         modelCalls' = [modelCalls EXCEPT ![c] = call],
         stored' \in [Ids -> ModelContents],
         \A i \in Ids \ W : stored'[i] = stored[i],
         modelExcused' \in SUBSET Ids, modelExcused \subseteq modelExcused',
         Overtaken(c, W) \subseteq modelExcused',
         modelSlots' \in [Ids -> ModelSlotValues],
         ModelCallShape(call), OwesModels(call)',
         \A i \in Ids \ modelExcused' :
           \/ WillChange(call, i)
           \/ Agrees(modelSlots[i], i)'
           \/ /\ i \notin W /\ modelSlots'[i] = modelSlots[i]
              /\ ~WillChange(modelCalls[c], i)
  PROVE  ModelInv'
<1> USE DEF ModelInv
<1>1. /\ ModelTypeOK'
      /\ modelCalls'[c] = call
      /\ \A b \in Callers \ {c} : modelCalls'[b] = modelCalls[b]
      /\ \A b \in Callers : modelCalls[b] \in ModelCallValues
  BY DEF ModelTypeOK
<1>2. \A b \in Callers : ModelCallShape(modelCalls[b])'
  BY <1>1 DEF ModelCallShape
<1>3. \A i \in Ids \ W, slot \in ModelSlotValues : Agrees(slot, i)' <=> Agrees(slot, i)
  BY DEF Agrees
<1>4. \A b \in Callers \ {c} : \A i \in W \ modelExcused' : ~Unsettled(b, i)
  BY DEF Overtaken
<1>5. \A b \in Callers : OwesModels(modelCalls[b])'
  <2> SUFFICES ASSUME NEW b \in Callers \ {c}, modelCalls[b].pc = "publish",
                      NEW o \in modelCalls[b].todo, o.id \notin modelExcused'
               PROVE  Agrees(o.slot, o.id)'
    BY <1>1 DEF OwesModels
  <2>1. o \in ModelChanges /\ o.id \notin W
    BY <1>1, <1>4 DEF Unsettled, ModelCallValues, ModelChanges
  <2> QED
    BY <1>3, <2>1 DEF OwesModels, ModelChanges
<1>6. ModelSlotsInv'
  <2> SUFFICES ASSUME NEW i \in Ids \ modelExcused', ~WillChange(call, i),
                      ~Agrees(modelSlots[i], i)'
               PROVE  \E b \in Callers : WillChange(modelCalls[b], i)'
    BY <1>1 DEF ModelSlotsInv, WillChange
  <2>1. ~Agrees(modelSlots[i], i) /\ ~WillChange(modelCalls[c], i)
    BY <1>3 DEF ModelTypeOK
  <2>2. PICK b \in Callers : WillChange(modelCalls[b], i)
    BY <2>1 DEF ModelSlotsInv
  <2> QED
    BY <1>1, <2>1, <2>2 DEF WillChange
<1> QED
  BY <1>1, <1>2, <1>5, <1>6

(* The call that is left of todo, as Owes makes it.                        *)
Remaining(todo) ==
  IF todo = {} THEN Quiet ELSE [Quiet EXCEPT !.pc = "publish", !.todo = todo]

LEMMA RemainingHasType ==
  ASSUME NEW todo \in SUBSET ModelChanges
  PROVE  /\ Remaining(todo) \in ModelCallValues
         /\ Remaining(todo).todo = todo
         /\ Remaining(todo).pc = IF todo = {} THEN "none" ELSE "publish"
         /\ ModelCallShape(Remaining(todo))
BY DEF Remaining, Quiet, ModelCallValues, ModelCallShape

(* A step of c that ends by owing the changes todo.                        *)
LEMMA ModelOwes ==
  ASSUME ModelInv, NEW c \in Callers, NEW todo \in SUBSET ModelChanges,
         NEW W \in SUBSET Ids, Owes(c, todo),
         stored' \in [Ids -> ModelContents],
         \A i \in Ids \ W : stored'[i] = stored[i],
         modelExcused' \in SUBSET Ids, modelExcused \subseteq modelExcused',
         Overtaken(c, W) \subseteq modelExcused',
         modelSlots' \in [Ids -> ModelSlotValues],
         \A o \in todo : o.id \notin modelExcused' => Agrees(o.slot, o.id)',
         \A i \in Ids \ modelExcused' :
           \/ \E o \in todo : o.id = i
           \/ Agrees(modelSlots[i], i)'
           \/ /\ i \notin W /\ modelSlots'[i] = modelSlots[i]
              /\ ~WillChange(modelCalls[c], i)
  PROVE  ModelInv'
<1> DEFINE call == Remaining(todo)
<1>1. /\ call \in ModelCallValues
      /\ call.todo = todo
      /\ call.pc = IF todo = {} THEN "none" ELSE "publish"
      /\ ModelCallShape(call)
  BY RemainingHasType
<1>2. modelCalls' = [modelCalls EXCEPT ![c] = call]
  BY DEF Owes, Remaining
<1> HIDE DEF call
<1>3. OwesModels(call)'
  BY <1>1 DEF OwesModels
<1>4. \A i \in Ids \ modelExcused' :
        \/ WillChange(call, i)
        \/ Agrees(modelSlots[i], i)'
        \/ /\ i \notin W /\ modelSlots'[i] = modelSlots[i]
           /\ ~WillChange(modelCalls[c], i)
  BY <1>1 DEF WillChange
<1> QED
  BY <1>1, <1>2, <1>3, <1>4, ModelCallStep

LEMMA ModelHasType ==
  ASSUME NEW i \in Ids, NEW r \in ModelContents
  PROVE  /\ Model(i, r) \in ModelSlotValues
         /\ Change(i, Model(i, r)) \in ModelChanges
         /\ Change(i, Model(i, r)).id = i
         /\ Change(i, Model(i, r)).slot = Model(i, r)
         /\ Model(i, r).status = "positive"
BY DEF Model, ModelSlot, ModelSlotValues, Change, ModelChanges

LEMMA MarkersFit ==
  /\ ModelMiss \in ModelSlotValues /\ ModelMiss.status = "miss"
  /\ ModelNegative \in ModelSlotValues /\ ModelNegative.status = "negative"
  /\ \A i \in Ids, slot \in ModelSlotValues :
       /\ Change(i, slot) \in ModelChanges
       /\ Change(i, slot).id = i /\ Change(i, slot).slot = slot
  /\ \A i : Agrees(ModelMiss, i)
BY DEF ModelMiss, ModelNegative, ModelSlot, ModelSlotValues, ModelContents, Change,
       ModelChanges, Agrees

LEMMA QuietChangesNothing ==
  /\ Quiet.pc = "none" /\ \A i \in Ids : ~WillChange(Quiet, i)
BY DEF Quiet, WillChange

(* The invariant's types, as each action's proof needs them.               *)
LEMMA ModelTypes ==
  ASSUME ModelInv, NEW c \in Callers
  PROVE  /\ modelCalls[c] \in ModelCallValues
         /\ modelCalls[c].todo \in SUBSET ModelChanges
         /\ modelCalls[c].pc # "publish" => modelCalls[c].todo = {}
         /\ \A i \in Ids : stored[i] \in ModelContents /\ modelSlots[i] \in ModelSlotValues
         /\ stored \in [Ids -> ModelContents]
         /\ modelSlots \in [Ids -> ModelSlotValues]
         /\ modelExcused \in SUBSET Ids
         /\ \A F \in SUBSET Ids : Overtaken(c, F) \in SUBSET Ids
         /\ Overtaken(c, {}) = {}
BY DEF ModelInv, ModelTypeOK, ModelCallValues, ModelCallShape, Quiet, Overtaken

LEMMA WriteDocsWrites ==
  ASSUME ModelInv, NEW F \in SUBSET Ids, NEW r \in ModelContents, WriteDocs(F, r)
  PROVE  /\ stored' \in [Ids -> ModelContents]
         /\ \A i \in F : stored'[i] = r
         /\ \A i \in Ids \ F : stored'[i] = stored[i]
BY DEF WriteDocs, ModelInv, ModelTypeOK

LEMMA ModelFindMisses ==
  ASSUME ModelInv, NEW c \in Callers, NEW i \in Ids, FindByIDMisses(c, i)
  PROVE  ModelInv'
<1>1. PICK call \in ModelCallValues :
        /\ call = [Quiet EXCEPT !.pc = "find", !.id = i]
        /\ call.pc = "find" /\ call.id = i /\ call.todo = {}
  <2> DEFINE new == [Quiet EXCEPT !.pc = "find", !.id = i]
  <2>1. new \in ModelCallValues /\ new.pc = "find" /\ new.id = i /\ new.todo = {}
    BY DEF Quiet, ModelCallValues
  <2> HIDE DEF new
  <2> QED
    BY <2>1 DEF new
<1>2. ModelCallShape(call) /\ OwesModels(call)'
  BY <1>1 DEF ModelCallShape, OwesModels
<1>3. /\ modelCalls' = [modelCalls EXCEPT ![c] = call]
      /\ UNCHANGED <<stored, modelSlots, modelExcused>> /\ modelCalls[c] = Quiet
  BY <1>1 DEF FindByIDMisses
<1>4. PICK W \in SUBSET Ids : W = {}
  OBVIOUS
<1> QED
  BY <1>2, <1>3, <1>4, QuietChangesNothing, ModelTypes, ModelCallStep

(* A read leaves the database alone: what it has read is what it owes.     *)
LEMMA ModelReads ==
  ASSUME ModelInv, NEW c \in Callers, NEW todo \in SUBSET ModelChanges,
         modelCalls[c].pc \in {"none", "find"}, Owes(c, todo),
         UNCHANGED <<stored, modelSlots>>,
         modelExcused' \in SUBSET Ids, modelExcused \subseteq modelExcused',
         \A o \in todo : o.id \notin modelExcused' => Agrees(o.slot, o.id)
  PROVE  ModelInv'
<1>1. \A o \in todo : o.id \notin modelExcused' => Agrees(o.slot, o.id)'
  BY DEF Agrees
<1>2. PICK W \in SUBSET Ids : W = {}
  OBVIOUS
<1>3. \A i \in Ids : ~WillChange(modelCalls[c], i)
  BY DEF WillChange
<1> QED
  BY <1>1, <1>2, <1>3, ModelTypes, ModelOwes

LEMMA ModelFindReads ==
  ASSUME ModelInv, NEW c \in Callers, FindByIDReads(c)
  PROVE  ModelInv'
<1>1. PICK i \in Ids : i = modelCalls[c].id /\ modelCalls[c].pc = "find"
  BY DEF FindByIDReads, ModelInv, ModelCallShape
<1>2. \E todo \in SUBSET ModelChanges :
        Owes(c, todo) /\ \A o \in todo : Agrees(o.slot, o.id)
  <2>1. CASE stored[i] = NoModel /\ Owes(c, {Change(i, ModelNegative)})
    <3>1. PICK o \in ModelChanges :
            o = Change(i, ModelNegative) /\ o.id = i /\ o.slot = ModelNegative
      BY MarkersFit
    <3>2. Agrees(o.slot, o.id)
      BY <2>1, <3>1, MarkersFit DEF Agrees
    <3> QED
      BY <2>1, <3>1, <3>2
  <2>2. CASE stored[i] # NoModel /\ Owes(c, Models({i}, stored))
    <3>1. PICK o \in ModelChanges :
            o = Change(i, Model(i, stored[i])) /\ o.id = i /\ o.slot = Model(i, stored[i])
      BY ModelHasType, ModelTypes
    <3>2. Agrees(o.slot, o.id)
      BY <2>2, <3>1, ModelHasType, ModelTypes DEF Agrees
    <3>3. Models({i}, stored) = {o}
      BY <3>1 DEF Models
    <3> QED
      BY <2>2, <3>1, <3>2, <3>3
  <2>3. CASE Owes(c, {})
    BY <2>3
  <2> QED
    BY <1>1, <2>1, <2>2, <2>3 DEF FindByIDReads
<1>3. UNCHANGED <<stored, modelSlots, modelExcused>>
  BY DEF FindByIDReads
<1> QED
  BY <1>1, <1>2, <1>3, ModelTypes, ModelReads

(* The models of documents, as Models makes them of stored.                *)
LEMMA ModelsOf ==
  ASSUME NEW D \in SUBSET Ids, NEW docs \in [Ids -> ModelContents]
  PROVE  /\ Models(D, docs) \in SUBSET ModelChanges
         /\ \A o \in Models(D, docs) : o.id \in D /\ o.slot = Model(o.id, docs[o.id])
         /\ \A i \in D : \E o \in Models(D, docs) : o.id = i
<1>1. \A i \in D : LET o == Change(i, Model(i, docs[i]))
                   IN o \in ModelChanges /\ o.id = i /\ o.slot = Model(i, docs[i])
  BY ModelHasType
<1> QED
  BY <1>1 DEF Models

LEMMA ModelReadModels ==
  ASSUME ModelInv, NEW c \in Callers, NEW F \in SUBSET Ids, ReadModels(c, F)
  PROVE  ModelInv'
<1>1. PICK D \in SUBSET Ids : D = Existing(F) /\ \A i \in D : stored[i] # NoModel
  <2>1. Existing(F) \in SUBSET Ids /\ \A i \in Existing(F) : stored[i] # NoModel
    BY DEF Existing
  <2> QED
    BY <2>1
<1>2. PICK todo \in SUBSET ModelChanges :
        /\ todo = Models(D, stored)
        /\ \A o \in todo : o.id \in D /\ o.slot = Model(o.id, stored[o.id])
  BY ModelTypes, ModelsOf
<1>3. \A o \in todo : Agrees(o.slot, o.id)
  BY <1>1, <1>2, ModelTypes, ModelHasType DEF Agrees
<1>4. Owes(c, todo) /\ UNCHANGED <<stored, modelSlots, modelExcused>> /\ modelCalls[c].pc = "none"
  BY <1>1, <1>2 DEF ReadModels, Quiet
<1> QED
  BY <1>3, <1>4, ModelTypes, ModelReads

LEMMA ModelReadProjection ==
  ASSUME ModelInv, NEW c \in Callers, NEW F \in SUBSET Ids, ReadProjection(c, F)
  PROVE  ModelInv'
<1>1. PICK D \in SUBSET Ids : D = Existing(F)
  BY DEF Existing
<1>2. \A i \in D : LET o == Change(i, Model(i, NoModel)) IN o \in ModelChanges /\ o.id = i
  BY ModelHasType DEF ModelContents
<1>3. PICK todo \in SUBSET ModelChanges :
        /\ todo = {Change(i, Model(i, NoModel)) : i \in D}
        /\ \A o \in todo : o.id \in D
  <2> DEFINE owed == {Change(i, Model(i, NoModel)) : i \in D}
  <2>1. owed \in SUBSET ModelChanges /\ \A o \in owed : o.id \in D
    BY <1>2
  <2> HIDE DEF owed
  <2> QED
    BY <2>1 DEF owed
<1>4. /\ Owes(c, todo) /\ UNCHANGED <<stored, modelSlots>> /\ modelCalls[c].pc = "none"
      /\ modelExcused' = modelExcused \union D
  BY <1>1, <1>3 DEF ReadProjection, Quiet
<1> QED
  BY <1>3, <1>4, ModelTypes, ModelReads

(* A write of the documents W by a call that has owed nothing.             *)
LEMMA ModelWrites ==
  ASSUME ModelInv, NEW c \in Callers, modelCalls[c] = Quiet,
         NEW todo \in SUBSET ModelChanges, Owes(c, todo),
         NEW W \in SUBSET Ids, NEW r \in ModelContents, WriteDocs(W, r),
         UNCHANGED modelSlots,
         modelExcused' \in SUBSET Ids, modelExcused \subseteq modelExcused',
         \A i \in W \ modelExcused' : \E o \in todo : o.id = i,
         Overtaken(c, W) \subseteq modelExcused',
         \A o \in todo : \/ o.id \in modelExcused'
                         \/ o.slot = ModelMiss
                         \/ o.slot = Model(o.id, r) /\ o.id \in W /\ r # NoModel
  PROVE  ModelInv'
<1>1. /\ stored' \in [Ids -> ModelContents]
      /\ \A i \in W : stored'[i] = r
      /\ \A i \in Ids \ W : stored'[i] = stored[i]
  BY WriteDocsWrites
<1>2. \A o \in todo : o.id \notin modelExcused' => Agrees(o.slot, o.id)'
  BY <1>1, ModelHasType, MarkersFit DEF Agrees, ModelChanges
<1>3. \A i \in Ids : ~WillChange(modelCalls[c], i)
  BY QuietChangesNothing
<1> QED
  BY <1>1, <1>2, <1>3, ModelTypes, ModelOwes

LEMMA ModelCreates ==
  ASSUME ModelInv, NEW c \in Callers, NEW D \in SUBSET Ids, NEW r \in Revisions,
         CreateModels(c, D, r)
  PROVE  ModelInv'
<1>1. PICK bound \in SUBSET D :
        /\ Owes(c, {Change(i, Model(i, r)) : i \in bound})
        /\ modelExcused' = modelExcused \union Overtaken(c, D) \union (D \ bound)
  BY DEF CreateModels
<1>2. r \in ModelContents /\ r # NoModel
  BY NoModelAssumption DEF ModelContents
<1>3. PICK todo \in SUBSET ModelChanges :
        /\ todo = {Change(i, Model(i, r)) : i \in bound}
        /\ \A o \in todo : o.id \in bound /\ o.slot = Model(o.id, r)
        /\ \A i \in bound : \E o \in todo : o.id = i
  <2>1. \A i \in bound : LET o == Change(i, Model(i, r))
                         IN o \in ModelChanges /\ o.id = i /\ o.slot = Model(i, r)
    BY <1>2, ModelHasType
  <2> DEFINE owed == {Change(i, Model(i, r)) : i \in bound}
  <2>2. /\ owed \in SUBSET ModelChanges
        /\ \A o \in owed : o.id \in bound /\ o.slot = Model(o.id, r)
        /\ \A i \in bound : \E o \in owed : o.id = i
    BY <2>1
  <2> QED
    BY <2>2
<1>4. /\ modelCalls[c] = Quiet /\ WriteDocs(D, r) /\ UNCHANGED modelSlots
      /\ Owes(c, todo)
  BY <1>1, <1>3 DEF CreateModels
<1> QED
  BY <1>1, <1>2, <1>3, <1>4, ModelTypes, ModelWrites

LEMMA ModelUpdates ==
  ASSUME ModelInv, NEW c \in Callers, NEW i \in Ids, NEW F \in SUBSET Ids,
         NEW r \in Revisions, UpdateModel(c, i, F, r)
  PROVE  ModelInv'
<1>1. PICK D \in SUBSET Ids : D = Existing(F) /\ D \subseteq F
  BY DEF Existing
<1>2. r \in ModelContents /\ r # NoModel
  BY NoModelAssumption DEF ModelContents
<1>3. modelCalls[c] = Quiet /\ WriteDocs(D, r) /\ UNCHANGED modelSlots
  BY <1>1 DEF UpdateModel
<1>4. CASE D = {} /\ Owes(c, {}) /\ UNCHANGED modelExcused
  <2>1. PICK todo \in SUBSET ModelChanges : todo = {} /\ Owes(c, todo)
    BY <1>4
  <2> QED
    BY <1>2, <1>3, <1>4, <2>1, ModelTypes, ModelWrites
<1>5. CASE /\ D # {}
           /\ \E first \in D : Owes(c, {Change(i, Model(first, r))})
           /\ modelExcused' = modelExcused \union Overtaken(c, D)
                \union (IF F = {i} THEN {} ELSE D \union {i})
  <2>1. PICK first \in D : Owes(c, {Change(i, Model(first, r))})
    BY <1>5
  <2>2. PICK o \in ModelChanges :
          o = Change(i, Model(first, r)) /\ o.id = i /\ o.slot = Model(first, r)
    BY <1>2, ModelHasType, MarkersFit
  <2>3. PICK todo \in SUBSET ModelChanges : todo = {o}
    OBVIOUS
  <2>4. F = {i} => first = i /\ D = {i}
    BY <1>1
  <2>5. modelExcused' \in SUBSET Ids /\ Owes(c, todo)
    BY <1>5, <2>1, <2>2, <2>3, ModelTypes
  <2>6. \A j \in D \ modelExcused' : \E p \in todo : p.id = j
    BY <1>5, <2>2, <2>3, <2>4
  <2>7. \A p \in todo : \/ p.id \in modelExcused'
                        \/ p.slot = Model(p.id, r) /\ p.id \in D
    BY <1>5, <2>2, <2>3, <2>4
  <2> QED
    BY <1>2, <1>3, <1>5, <2>5, <2>6, <2>7, ModelWrites
<1> QED
  BY <1>1, <1>4, <1>5 DEF UpdateModel

(* Update without a returned document, and DeleteByID: the slot is evicted.*)
LEMMA ModelEvicts ==
  ASSUME ModelInv, NEW c \in Callers, modelCalls[c] = Quiet,
         NEW i \in Ids, NEW W \in SUBSET {i}, NEW r \in ModelContents, WriteDocs(W, r),
         Owes(c, {Change(i, ModelMiss)}), UNCHANGED modelSlots,
         modelExcused' = modelExcused \union Overtaken(c, W)
  PROVE  ModelInv'
<1>1. PICK o \in ModelChanges : o = Change(i, ModelMiss) /\ o.id = i /\ o.slot = ModelMiss
  BY MarkersFit
<1>2. PICK todo \in SUBSET ModelChanges : todo = {o}
  OBVIOUS
<1>3. modelExcused' \in SUBSET Ids /\ Owes(c, todo) /\ W \in SUBSET Ids
  BY <1>1, <1>2, ModelTypes
<1> QED
  BY <1>1, <1>2, <1>3, ModelWrites

(* The writes that pass the cache by excuse the document.                  *)
LEMMA ModelBypasses ==
  ASSUME ModelInv, NEW c \in Callers, modelCalls[c] = Quiet, NEW i \in Ids,
         NEW r \in ModelContents, WriteDocs({i}, r), UNCHANGED <<modelSlots, modelCalls>>,
         modelExcused' = modelExcused \union {i}
  PROVE  ModelInv'
<1>1. PICK todo \in SUBSET ModelChanges : todo = {}
  OBVIOUS
<1>2. Owes(c, todo)
  BY <1>1 DEF Owes, ModelInv, ModelTypeOK
<1>3. PICK W \in SUBSET Ids : W = {i}
  OBVIOUS
<1>4. modelExcused' \in SUBSET Ids /\ Overtaken(c, W) \subseteq modelExcused'
  BY <1>3, ModelTypes DEF Overtaken
<1> QED
  BY <1>1, <1>2, <1>3, <1>4, ModelWrites

LEMMA ModelWritesMany ==
  ASSUME ModelInv, NEW c \in Callers, NEW F \in SUBSET Ids, NEW r \in ModelContents,
         WriteMany(c, F, r)
  PROVE  ModelInv'
<1>1. PICK call \in ModelCallValues :
        call = [Quiet EXCEPT !.pc = "clear"] /\ call.pc = "clear" /\ call.todo = {}
  <2> DEFINE new == [Quiet EXCEPT !.pc = "clear"]
  <2>1. new \in ModelCallValues /\ new.pc = "clear" /\ new.todo = {}
    BY DEF Quiet, ModelCallValues
  <2> HIDE DEF new
  <2> QED
    BY <2>1 DEF new
<1>2. ModelCallShape(call) /\ OwesModels(call)' /\ \A i \in Ids : WillChange(call, i)
  BY <1>1 DEF ModelCallShape, OwesModels, WillChange
<1>3. PICK W \in SUBSET Ids : W = Existing(F)
  BY DEF Existing
<1>4. /\ modelCalls' = [modelCalls EXCEPT ![c] = call]
      /\ WriteDocs(W, r) /\ UNCHANGED modelSlots
      /\ modelExcused' = modelExcused \union Overtaken(c, W)
  BY <1>1, <1>3 DEF WriteMany
<1>5. /\ stored' \in [Ids -> ModelContents]
      /\ \A i \in Ids \ W : stored'[i] = stored[i]
  BY <1>4, WriteDocsWrites
<1> QED
  BY <1>2, <1>4, <1>5, ModelTypes, ModelCallStep

LEMMA ModelPublishes ==
  ASSUME ModelInv, NEW c \in Callers, NEW o \in modelCalls[c].todo, PublishModel(c, o)
  PROVE  ModelInv'
<1>1. PICK todo \in SUBSET ModelChanges :
        /\ todo = modelCalls[c].todo \ {o} /\ o \in ModelChanges
        /\ modelCalls[c].pc = "publish"
  <2>1. /\ modelCalls[c].todo \in SUBSET ModelChanges
        /\ modelCalls[c].pc # "publish" => modelCalls[c].todo = {}
    BY ModelTypes, Zenon
  <2>2. modelCalls[c].pc = "publish"
    BY <2>1
  <2>3. modelCalls[c].todo \ {o} \in SUBSET ModelChanges /\ o \in ModelChanges
    BY <2>1
  <2> QED
    BY <2>2, <2>3
<1>2. o.id \in Ids /\ o.slot \in ModelSlotValues
  BY <1>1 DEF ModelChanges
<1>3. /\ Owes(c, todo) /\ UNCHANGED <<stored, modelExcused>>
      /\ modelSlots' \in [Ids -> ModelSlotValues]
      /\ modelSlots'[o.id] = o.slot
      /\ \A i \in Ids \ {o.id} : modelSlots'[i] = modelSlots[i]
  BY <1>1, <1>2, ModelTypes DEF PublishModel
<1>4. \A p \in modelCalls[c].todo : p.id \notin modelExcused => Agrees(p.slot, p.id)
  BY <1>1 DEF ModelInv, OwesModels
<1>5. \A slot, i : Agrees(slot, i)' <=> Agrees(slot, i)
  BY <1>3 DEF Agrees
<1>6. PICK W \in SUBSET Ids : W = {}
  OBVIOUS
<1>7. \A p \in todo : p.id \notin modelExcused' => Agrees(p.slot, p.id)'
  BY <1>1, <1>3, <1>4, <1>5
<1>8. \A i \in Ids \ modelExcused' :
        \/ \E p \in todo : p.id = i
        \/ Agrees(modelSlots[i], i)'
        \/ modelSlots'[i] = modelSlots[i] /\ ~WillChange(modelCalls[c], i)
  <2> SUFFICES ASSUME NEW i \in Ids \ modelExcused',
                      ~ \E p \in todo : p.id = i,
                      ~ (modelSlots'[i] = modelSlots[i] /\ ~WillChange(modelCalls[c], i))
               PROVE  Agrees(modelSlots[i], i)'
    OBVIOUS
  <2>1. i = o.id
    BY <1>1, <1>3 DEF WillChange
  <2>2. Agrees(o.slot, i)
    BY <1>3, <1>4, <2>1
  <2> QED
    BY <1>3, <2>1, <2>2 DEF Agrees
<1> QED
  BY <1>3, <1>6, <1>7, <1>8, ModelTypes, ModelOwes

LEMMA ModelClears ==
  ASSUME ModelInv, NEW c \in Callers, ClearModels(c)
  PROVE  ModelInv'
<1>1. PICK todo \in SUBSET ModelChanges, W \in SUBSET Ids : todo = {} /\ W = {}
  OBVIOUS
<1>2. /\ Owes(c, todo) /\ UNCHANGED <<stored, modelExcused>>
      /\ modelSlots' \in [Ids -> ModelSlotValues]
      /\ \A i \in Ids : modelSlots'[i] = ModelMiss
  BY <1>1, MarkersFit DEF ClearModels
<1>3. \A i \in Ids : Agrees(modelSlots[i], i)'
  BY <1>2, MarkersFit DEF Agrees
<1> QED
  BY <1>1, <1>2, <1>3, ModelTypes, ModelOwes

LEMMA ModelExpires ==
  ASSUME ModelInv, NEW i \in Ids, ExpireModel(i)
  PROVE  ModelInv'
BY MarkersFit
DEF ExpireModel, ModelInv, ModelTypeOK, OwesModels, ModelSlotsInv, Agrees

LEMMA ModelStep == ModelInv /\ [ModelNext]_modelVars => ModelInv'
<1> SUFFICES ASSUME ModelInv, [ModelNext]_modelVars PROVE ModelInv'
  OBVIOUS
<1>1. ASSUME NEW c \in Callers, NEW i \in Ids, NEW r \in Revisions,
             UpdateUnreturned(c, i, r)
      PROVE  ModelInv'
  BY <1>1, ModelEvicts DEF UpdateUnreturned, Existing, ModelContents
<1>2. ASSUME NEW c \in Callers, NEW i \in Ids, DeleteByID(c, i)
      PROVE  ModelInv'
  BY <1>2, ModelEvicts DEF DeleteByID, ModelContents
<1>3. ASSUME NEW c \in Callers, NEW i \in Ids, NEW r \in Revisions,
             UpdateUnbound(c, i, r) \/ WriteFromShape(c, i, r)
      PROVE  ModelInv'
  BY <1>3, ModelBypasses DEF UpdateUnbound, WriteFromShape, ModelContents
<1>4. ASSUME NEW c \in Callers, NEW F \in SUBSET Ids, NEW r \in Revisions,
             UpdateMany(c, F, r)
      PROVE  ModelInv'
  BY <1>4, ModelWritesMany DEF UpdateMany, ModelContents
<1>5. ASSUME NEW c \in Callers, NEW F \in SUBSET Ids, DeleteMany(c, F)
      PROVE  ModelInv'
  BY <1>5, ModelWritesMany DEF DeleteMany, ModelContents
<1>6. CASE ModelNext
  BY <1>1, <1>2, <1>3, <1>4, <1>5, <1>6, ModelFindMisses, ModelUpdates, ModelReadModels,
     ModelReadProjection, ModelCreates, ModelFindReads, ModelPublishes, ModelClears,
     ModelExpires
  DEF ModelNext
<1>7. CASE UNCHANGED modelVars
  BY <1>7 DEF modelVars, ModelInv, ModelTypeOK, OwesModels, ModelSlotsInv, Agrees
<1> QED
  BY <1>6, <1>7

(* ModelCoherent: FindByID answers from the cache as the database would,   *)
(* for any number of concurrent callers.                                   *)
THEOREM ModelTheorem == ModelSpec => []ModelCoherent
<1>1. ModelInv => ModelCoherent
  BY DEF ModelInv, ModelCoherent, ModelSlotsInv, WillChange, Unsettled, Agrees
<1> QED
  BY <1>1, ModelInitially, ModelStep, PTL DEF ModelSpec

=============================================================================
