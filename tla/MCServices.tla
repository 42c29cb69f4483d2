----------------------------- MODULE MCServices ----------------------------
(***************************************************************************)
(* Instances for TLC of what is built around the transactions, the cache   *)
(* and the registry: the in-memory backend; the services, which are        *)
(* migrations, live and model collections, the orchestrator and events;    *)
(* and the data they work on, which are the registry of handles, documents *)
(* and their validation, queries, SQL, and schemas with their forms and    *)
(* their evolution.  They share no state, so that a behaviour moves one of *)
(* them and leaves the others at rest.                                     *)
(***************************************************************************)
EXTENDS EphemeralStore, Migration, LiveCollection, ModelCollection, Orchestrator,
        Events, HandleRegistry, MCDocuments, MCValidation, MCQuery, MCSql,
        MCEvolution, MCForms, MCCompiled, MCMeta

CONSTANTS
  d1, d2, k1, k2,              \* documents and keys of the live collection
  read1, read2, write1, write2,   \* operations on a collection
  exactSuccess, exactStart, exactRead, wild, createPattern   \* subscriptions

VARIABLE moving     \* what moves

allVars ==
  <<moving, storeVars, migrationVars, liveVars, modelVars, orchestratorVars, eventVars,
    handleVars, documentVars, validationVars, queryVars, sqlVars,
    evolutionVars, schemaFormVars, compiledFormVars, metaVars>>

(* The second version has a column more, the third one less.               *)
MCColumns == <<{"a"}, {"a", "b"}, {"b"}>>
MCHomeKey == (d1 :> k1) @@ (d2 :> k2)

MCOpKind ==
  (read1 :> "read") @@ (read2 :> "read") @@ (write1 :> "create") @@ (write2 :> "create")
MCTypes ==
  {<<kind, s>> : kind \in {"read", "create"}, s \in {"start", "success", "failed"}}
    \union {<<"*", "*">>}
MCCreations == {t \in MCTypes : t[1] = "create"}
MCPattern ==
  (exactSuccess :> [exact |-> TRUE, types |-> {<<"create", "success">>}])
    @@ (exactStart :> [exact |-> TRUE, types |-> {<<"create", "start">>}])
    @@ (exactRead :> [exact |-> TRUE, types |-> {<<"read", "success">>}])
    @@ (wild :> [exact |-> FALSE, types |-> MCTypes])
    @@ (createPattern :> [exact |-> FALSE, types |-> MCCreations])

(* Two ids with the same hash, values of up to two bytes.                  *)
MCIdHash == <<1, 1>>
MCByteValues == {<<>>, <<"a">>, <<"b", "c">>}

Parts ==
  {"store", "migration", "live", "model", "orchestrator", "events", "handles", "documents",
   "validation", "query", "sql", "evolution", "forms", "compiled", "meta"}

AtRest(p) == moving # p

(* What is at rest begins in one of its states.                            *)
SomeOf(S) == CHOOSE x \in S : TRUE
RestingSchema == SomeOf(RootSchemas)
RestingDocument == SomeOf(DocumentsOf[RestingSchema])
RestingBackend == SomeOf(Capabilities)
RestingRevision == SomeOf(SchemaRevisions)

Init ==
  /\ moving \in Parts
  /\ StoreInit /\ MigrationInit /\ LiveInit /\ ModelInit /\ OrchestratorInit /\ EventsInit
  /\ CompiledFormInit /\ MetaInit
  /\ IF AtRest("handles") THEN HandlesOf({}) ELSE HandlesInit
  /\ IF AtRest("documents") THEN NoDocuments({}) ELSE DocumentsInit
  /\ IF AtRest("sql") THEN TableOf({}) ELSE SqlInit
  /\ IF AtRest("validation") THEN Validating(RestingSchema, RestingDocument, "strict")
     ELSE ValidationInit
  /\ IF AtRest("query") THEN QueryOver(RestingBackend, <<>>) ELSE QueryInit
  /\ IF AtRest("evolution") THEN EvolvingFrom("sqlite", RestingRevision) ELSE EvolutionInit
  /\ IF AtRest("forms") THEN SchemaAuthored(SchemaForm) ELSE SchemaFormsInit

ServicesRest ==
  /\ AtRest("store") => UNCHANGED storeVars
  /\ AtRest("migration") => UNCHANGED migrationVars
  /\ AtRest("live") => UNCHANGED liveVars
  /\ AtRest("model") => UNCHANGED modelVars
  /\ AtRest("orchestrator") => UNCHANGED orchestratorVars
  /\ AtRest("events") => UNCHANGED eventVars
DataRests ==
  /\ AtRest("handles") => UNCHANGED handleVars
  /\ AtRest("documents") => UNCHANGED documentVars
  /\ AtRest("validation") => UNCHANGED validationVars
  /\ AtRest("query") => UNCHANGED queryVars
  /\ AtRest("sql") => UNCHANGED sqlVars
SchemasRest ==
  /\ AtRest("evolution") => UNCHANGED evolutionVars
  /\ AtRest("forms") => UNCHANGED schemaFormVars
  /\ AtRest("compiled") => UNCHANGED compiledFormVars
  /\ AtRest("meta") => UNCHANGED metaVars

(* A migration, a live or a model collection that has gone beyond all that *)
(* its properties speak of is not followed further, nor an orchestrator    *)
(* that has disturbed a name, or has both a route and a subscription:      *)
(* names and subscriptions have nothing in common but Close, which races   *)
(* each of them.                                                           *)
Next ==
  /\ UNCHANGED moving /\ ServicesRest /\ DataRests /\ SchemasRest
  /\ \/ moving = "store" /\ StoreNext
     \/ moving = "migration" /\ SomethingPromised /\ MigrationNext
     \/ moving = "live" /\ liveExcused # Keys /\ LiveNext
     \/ moving = "model" /\ modelExcused # Ids /\ ModelNext
     \/ /\ moving = "orchestrator" /\ disturbed = {}
        /\ routes = NoRoutes \/ nextSubID = 0
        /\ OrchestratorNext
     \/ moving = "events" /\ EventsNext
     \/ moving = "handles" /\ HandlesNext
     \/ moving = "documents" /\ DocumentsNext
     \/ moving = "validation" /\ ValidationNext
     \/ moving = "query" /\ QueryNext
     \/ moving = "sql" /\ SqlNext
     \/ moving = "evolution" /\ EvolutionNext
     \/ moving = "forms" /\ SchemaFormsNext
     \/ moving = "compiled" /\ CompiledFormNext
     \/ moving = "meta" /\ MetaNext

Spec == Init /\ [][Next]_allVars
============================================================================
