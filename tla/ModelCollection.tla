-------------------------- MODULE ModelCollection --------------------------
(***************************************************************************)
(* ModelCollection: a collection bound to a Go struct, with an optional    *)
(* cache of models keyed by document id (here always on).                  *)
(*                                                                         *)
(* As in LiveCollection a call first works on the database and then, one   *)
(* slot after the other, on the cache.  Here every read, whatever its      *)
(* query, also fills the cache with the models it returns.                 *)
(***************************************************************************)
CONSTANTS
  Callers,     \* goroutines using the collection
  Ids,         \* the ids of the documents
  Revisions,   \* the contents of a document
  NoModel      \* no content: no document, or a slot without a model

ASSUME NoModelAssumption == NoModel \notin Ids \union Revisions

VARIABLES
  stored,        \* stored[i]: the content of document i in the database
  modelSlots,    \* modelSlots[i]: the cache's slot of i
  modelCalls,    \* modelCalls[c]: the changes to the cache c still owes
  modelExcused   \* ids whose slot may be stale (history, not in the code)

modelVars == <<stored, modelSlots, modelCalls, modelExcused>>

ModelSlot(status, i, r) == [status |-> status, id |-> i, revision |-> r]
ModelMiss == ModelSlot("miss", NoModel, NoModel)
ModelNegative == ModelSlot("negative", NoModel, NoModel)
Model(i, r) == ModelSlot("positive", i, r)

Quiet == [pc |-> "none", id |-> NoModel, todo |-> {}]
Change(i, slot) == [id |-> i, slot |-> slot]

ModelInit ==
  /\ stored = [i \in Ids |-> NoModel]
  /\ modelSlots = [i \in Ids |-> ModelMiss]
  /\ modelCalls = [c \in Callers |-> Quiet]
  /\ modelExcused = {}

Existing(F) == {i \in F : stored[i] # NoModel}

Unsettled(c, i) ==
  \/ \E o \in modelCalls[c].todo : o.id = i
  \/ modelCalls[c].pc = "clear"

(* A write by c of the documents F, while another call's older view of     *)
(* them is on its way to the cache.                                        *)
Overtaken(c, F) ==
  {i \in F : \E b \in Callers \ {c} : Unsettled(b, i)}

Owes(c, todo) ==
  modelCalls' = [modelCalls EXCEPT ![c] =
    IF todo = {} THEN Quiet ELSE [Quiet EXCEPT !.pc = "publish", !.todo = todo]]

Models(D, docs) == {Change(i, Model(i, docs[i])) : i \in D}

WriteDocs(F, r) == stored' = [i \in Ids |-> IF i \in F THEN r ELSE stored[i]]

----------------------------------------------------------------------------
(* Reads.                                                                  *)

FindByIDMisses(c, i) ==
  /\ modelCalls[c] = Quiet
  /\ modelSlots[i] = ModelMiss
  /\ modelCalls' = [modelCalls EXCEPT ![c] =
       [Quiet EXCEPT !.pc = "find", !.id = i]]
  /\ UNCHANGED <<stored, modelSlots, modelExcused>>

(* An error is returned and leaves the slot alone.                         *)
FindByIDReads(c) ==
  LET i == modelCalls[c].id
  IN /\ modelCalls[c].pc = "find"
     /\ \/ stored[i] = NoModel /\ Owes(c, {Change(i, ModelNegative)})
        \/ stored[i] # NoModel /\ Owes(c, Models({i}, stored))
        \/ Owes(c, {})
     /\ UNCHANGED <<stored, modelSlots, modelExcused>>

ReadModels(c, F) ==
  /\ modelCalls[c] = Quiet
  /\ Existing(F) # {}
  /\ Owes(c, Models(Existing(F), stored))
  /\ UNCHANGED <<stored, modelSlots, modelExcused>>

(* A query that selects fields caches models without the others.           *)
ReadProjection(c, F) ==
  /\ modelCalls[c] = Quiet
  /\ Existing(F) # {}
  /\ Owes(c, {Change(i, Model(i, NoModel)) : i \in Existing(F)})
  /\ modelExcused' = modelExcused \union Existing(F)
  /\ UNCHANGED <<stored, modelSlots>>

----------------------------------------------------------------------------
(* Writes.                                                                 *)

(* Create, CreateMany.  A model that cannot be bound ends the call before  *)
(* it, and those after it, reach the cache.                                *)
CreateModels(c, D, r) ==
  /\ modelCalls[c] = Quiet
  /\ D # {} /\ Existing(D) = {}
  /\ WriteDocs(D, r)
  /\ \E bound \in SUBSET D :
       /\ Owes(c, {Change(i, Model(i, r)) : i \in bound})
       /\ modelExcused' = modelExcused \union Overtaken(c, D) \union (D \ bound)
  /\ UNCHANGED modelSlots

(* Update and Replace of the document i, or of those the caller's own      *)
(* filter finds: the first one returned goes into the slot of i.           *)
UpdateModel(c, i, F, r) ==
  LET D == Existing(F)
  IN /\ modelCalls[c] = Quiet
     /\ WriteDocs(D, r)
     /\ \/ /\ D # {}
           /\ \E first \in D : Owes(c, {Change(i, Model(first, r))})
           /\ modelExcused' = modelExcused \union Overtaken(c, D)
                \union (IF F = {i} THEN {} ELSE D \union {i})
        \/ /\ D = {}
           /\ Owes(c, {})
           /\ UNCHANGED modelExcused
     /\ UNCHANGED modelSlots

(* Mutant: an update without the document leaves the cache alone.          *)
UpdateUnreturnedKeepingSlot(c, i, r) ==
  /\ modelCalls[c] = Quiet
  /\ WriteDocs(Existing({i}), r)
  /\ Owes(c, {})
  /\ modelExcused' = modelExcused \union Overtaken(c, Existing({i}))
  /\ UNCHANGED modelSlots

(* Without ReturnDocument the slot is evicted, whatever was found.         *)
UpdateUnreturned(c, i, r) ==
  /\ modelCalls[c] = Quiet
  /\ WriteDocs(Existing({i}), r)
  /\ Owes(c, {Change(i, ModelMiss)})
  /\ modelExcused' = modelExcused \union Overtaken(c, Existing({i}))
  /\ UNCHANGED modelSlots

(* The document is written, and the returned one cannot be bound.          *)
UpdateUnbound(c, i, r) ==
  /\ modelCalls[c] = Quiet
  /\ Existing({i}) # {}
  /\ WriteDocs({i}, r)
  /\ modelExcused' = modelExcused \union {i}
  /\ UNCHANGED <<modelSlots, modelCalls>>

(* CreateFrom and UpdateFrom work on another struct and pass the cache by. *)
WriteFromShape(c, i, r) ==
  /\ modelCalls[c] = Quiet
  /\ WriteDocs({i}, r)
  /\ modelExcused' = modelExcused \union {i}
  /\ UNCHANGED <<modelSlots, modelCalls>>

(* UpdateMany, DeleteMany: the whole cache is cleared afterwards.          *)
WriteMany(c, F, r) ==
  /\ modelCalls[c] = Quiet
  /\ WriteDocs(Existing(F), r)
  /\ modelCalls' = [modelCalls EXCEPT ![c] = [Quiet EXCEPT !.pc = "clear"]]
  /\ modelExcused' = modelExcused \union Overtaken(c, Existing(F))
  /\ UNCHANGED modelSlots

UpdateMany(c, F, r) == WriteMany(c, F, r)
DeleteMany(c, F) == WriteMany(c, F, NoModel)

DeleteByID(c, i) ==
  /\ modelCalls[c] = Quiet
  /\ stored[i] # NoModel
  /\ WriteDocs({i}, NoModel)
  /\ Owes(c, {Change(i, ModelMiss)})
  /\ modelExcused' = modelExcused \union Overtaken(c, {i})
  /\ UNCHANGED modelSlots

----------------------------------------------------------------------------
(* The cache.                                                              *)

PublishModel(c, o) ==
  /\ modelSlots' = [modelSlots EXCEPT ![o.id] = o.slot]
  /\ Owes(c, modelCalls[c].todo \ {o})
  /\ UNCHANGED <<stored, modelExcused>>

ClearModels(c) ==
  /\ modelCalls[c].pc = "clear"
  /\ modelSlots' = [i \in Ids |-> ModelMiss]
  /\ Owes(c, {})
  /\ UNCHANGED <<stored, modelExcused>>

ExpireModel(i) ==
  /\ modelSlots[i] # ModelMiss
  /\ modelSlots' = [modelSlots EXCEPT ![i] = ModelMiss]
  /\ UNCHANGED <<stored, modelCalls, modelExcused>>

ModelNext ==
  \/ \E c \in Callers, i \in Ids :
       \/ FindByIDMisses(c, i)
       \/ DeleteByID(c, i)
       \/ \E r \in Revisions :
            \/ \E F \in SUBSET Ids : UpdateModel(c, i, F, r)
            \/ UpdateUnreturned(c, i, r)
            \/ UpdateUnbound(c, i, r)
            \/ WriteFromShape(c, i, r)
  \/ \E c \in Callers, F \in SUBSET Ids :
       \/ ReadModels(c, F)
       \/ ReadProjection(c, F)
       \/ DeleteMany(c, F)
       \/ \E r \in Revisions : CreateModels(c, F, r) \/ UpdateMany(c, F, r)
  \/ \E c \in Callers :
       \/ FindByIDReads(c)
       \/ \E o \in modelCalls[c].todo : PublishModel(c, o)
       \/ ClearModels(c)
  \/ \E i \in Ids : ExpireModel(i)

ModelSpec == ModelInit /\ [][ModelNext]_modelVars

----------------------------------------------------------------------------
(* Properties.                                                             *)

(* A slot nobody is about to settle answers FindByID as the database       *)
(* would, unless another call's older view was still on its way when the   *)
(* document was written, or the write passed the cache by: a model that    *)
(* could not be bound, a filter of the caller's own, another struct.  A    *)
(* read of single fields is excused too: it caches half a model.           *)
ModelCoherent ==
  \A i \in Ids \ modelExcused :
    (\A c \in Callers : ~Unsettled(c, i)) =>
      /\ modelSlots[i].status = "positive" =>
           modelSlots[i] = Model(i, stored[i]) /\ stored[i] # NoModel
      /\ modelSlots[i].status = "negative" => stored[i] = NoModel

=============================================================================
