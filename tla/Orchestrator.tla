---------------------------- MODULE Orchestrator ---------------------------
(***************************************************************************)
(* Orchestrator: one Persistence over several backends.  A lock guards its *)
(* tables (routes, backends, subscriptions, closed) but is never held      *)
(* during a call into a backend, so that every operation is a sequence of  *)
(* looks at the tables and calls into backends, and anything may come in   *)
(* between.                                                                *)
(*                                                                         *)
(* The backends stand for their collections and subscriptions; any call    *)
(* into one may fail, and does once it is closed (managedPersistence).  A  *)
(* label is the backend registered under it.                               *)
(***************************************************************************)
EXTENDS Naturals

CONSTANTS
  Threads,          \* goroutines using the orchestrator
  Labels,           \* the backends
  Names,            \* the collections
  NoLabel,          \* no backend, or no name
  MaxSubscriptions  \* bound on the calls of Subscribe

ASSUME NoLabelAssumption == NoLabel \notin Labels
ASSUME MaxSubscriptionsAssumption == MaxSubscriptions \in Nat

SubIds == 1 .. MaxSubscriptions

VARIABLES
  backends,       \* the backends registered
  routes,         \* routes[n]: the backend n is routed to
  closed,         \* Close has been called
  subscriptions,  \* subscriptions[i]: the backends of subscription i, if tracked
  nextSubID,      \* the number of subscriptions made
  collections,    \* collections[b]: the collections on b
  handlers,       \* handlers[b]: the subscriptions registered on b
  shut,           \* the backends that are closed
  calls,          \* calls[t]: the call t is making
  disturbed       \* names routed anew while on a backend, or created when a
                  \* deletion had taken their route, or was about to
                  \* (history, not in the code)

orchestratorVars == <<backends, routes, closed, subscriptions, nextSubID,
                      collections, handlers, shut, calls, disturbed>>
tables == <<backends, routes, closed, subscriptions, nextSubID>>
outside == <<collections, handlers, shut>>

NoRoutes == [n \in Names |-> NoLabel]
NoThreadCall == [op |-> "none", names |-> {}, plan |-> NoRoutes, on |-> {},
                 done |-> {}, id |-> 0]

OrchestratorInit ==
  /\ backends = {}
  /\ routes = NoRoutes
  /\ closed = FALSE
  /\ subscriptions = [i \in SubIds |-> {}]
  /\ nextSubID = 0
  /\ collections = [b \in Labels |-> {}]
  /\ handlers = [b \in Labels |-> {}]
  /\ shut = {}
  /\ calls = [t \in Threads |-> NoThreadCall]
  /\ disturbed = {}

(* A deletion of n has left its backend and not yet come to the routes.    *)
Unrouting(n) ==
  \E t \in Threads : calls[t].op = "unroute" /\ calls[t].plan[n] # NoLabel

StartCall(t, call) ==
  /\ calls[t] = NoThreadCall
  /\ calls' = [calls EXCEPT ![t] = call]
Becomes(t, call) == calls' = [calls EXCEPT ![t] = call]
EndCall(t) == Becomes(t, NoThreadCall)

----------------------------------------------------------------------------
(* The tables.                                                             *)

RegisterBackend(b) ==
  /\ ~closed
  /\ b \notin backends
  /\ backends' = backends \union {b}
  /\ UNCHANGED <<routes, closed, subscriptions, nextSubID, outside, calls, disturbed>>

RouteCollection(n, b) ==
  /\ ~closed
  /\ b \in backends
  /\ routes' = [routes EXCEPT ![n] = b]
  /\ disturbed' = IF b # routes[n] /\ \E a \in Labels : n \in collections[a]
                  THEN disturbed \union {n} ELSE disturbed
  /\ UNCHANGED <<backends, closed, subscriptions, nextSubID, outside, calls>>

----------------------------------------------------------------------------
(* CreateCollection, CreateCollections.                                    *)

StartCreate(t, N) ==
  /\ N # {}
  /\ StartCall(t, [NoThreadCall EXCEPT !.op = "resolve", !.names = N])
  /\ UNCHANGED <<tables, outside, disturbed>>

(* The routes are looked up one by one, before any backend is called.      *)
ResolveOne(t, n) ==
  /\ calls[t].op = "resolve"
  /\ n \in calls[t].names
  /\ ~closed
  /\ routes[n] # NoLabel
  /\ LET left == calls[t].names \ {n}
         found == [calls[t].plan EXCEPT ![n] = routes[n]]
     IN Becomes(t, [calls[t] EXCEPT
          !.op = IF left = {} THEN "create" ELSE "resolve",
          !.names = left, !.plan = found,
          !.on = {found[m] : m \in Names} \ {NoLabel}])
  /\ UNCHANGED <<tables, outside, disturbed>>

ResolveFails(t) ==
  /\ calls[t].op = "resolve"
  /\ closed \/ \E n \in calls[t].names : routes[n] = NoLabel
  /\ EndCall(t)
  /\ UNCHANGED <<tables, outside, disturbed>>

(* One call per backend, for its share of the names, all or none of them.  *)
(* The routes are not looked at again, whatever they have become.          *)
CreateOn(t, b) ==
  LET share == {n \in Names : calls[t].plan[n] = b}
      left == calls[t].on \ {b}
  IN /\ calls[t].op = "create"
     /\ b \in calls[t].on \ shut
     /\ share \intersect collections[b] = {}
     /\ collections' = [collections EXCEPT ![b] = @ \union share]
     /\ disturbed' = disturbed \union {n \in share : routes[n] # b \/ Unrouting(n)}
     /\ IF left = {} THEN EndCall(t) ELSE Becomes(t, [calls[t] EXCEPT !.on = left])
     /\ UNCHANGED <<tables, handlers, shut>>

CreateFails(t) ==
  /\ calls[t].op = "create"
  /\ EndCall(t)
  /\ UNCHANGED <<tables, outside, disturbed>>

----------------------------------------------------------------------------
(* Delete: the backend first, the route after it.                          *)

StartDelete(t, n) ==
  /\ ~closed
  /\ routes[n] # NoLabel
  /\ StartCall(t, [NoThreadCall EXCEPT !.op = "delete",
                     !.plan = [NoRoutes EXCEPT ![n] = routes[n]]])
  /\ UNCHANGED <<tables, outside, disturbed>>

DeleteOn(t, n) ==
  LET b == calls[t].plan[n]
  IN /\ calls[t].op = "delete"
     /\ b # NoLabel
     /\ b \notin shut
     /\ n \in collections[b]
     /\ collections' = [collections EXCEPT ![b] = @ \ {n}]
     /\ Becomes(t, [calls[t] EXCEPT !.op = "unroute"])
     /\ UNCHANGED <<tables, handlers, shut, disturbed>>

(* Mutant: the route goes even if the backend has failed.                  *)
NothingDeletedButUnrouted(t) ==
  /\ calls[t].op = "delete"
  /\ Becomes(t, [calls[t] EXCEPT !.op = "unroute"])
  /\ UNCHANGED <<tables, outside, disturbed>>

(* There was nothing to delete, or the backend has failed.                 *)
NothingDeleted(t) ==
  /\ calls[t].op = "delete"
  /\ EndCall(t)
  /\ UNCHANGED <<tables, outside, disturbed>>

(* The route is removed whatever it has become in the meantime.            *)
Unroute(t, n) ==
  /\ calls[t].op = "unroute"
  /\ calls[t].plan[n] # NoLabel
  /\ routes' = [routes EXCEPT ![n] = NoLabel]
  /\ EndCall(t)
  /\ UNCHANGED <<backends, closed, subscriptions, nextSubID, outside, disturbed>>

----------------------------------------------------------------------------
(* Subscribe, Unsubscribe.                                                 *)

StartSubscribe(t) ==
  /\ ~closed
  /\ nextSubID < MaxSubscriptions
  /\ nextSubID' = nextSubID + 1
  /\ StartCall(t, [NoThreadCall EXCEPT !.op = "subscribe", !.on = backends,
                     !.id = nextSubID + 1])
  /\ UNCHANGED <<backends, routes, closed, subscriptions, outside, disturbed>>

(* A closed backend gives an empty id, which is recorded like any other.   *)
SubscribeOn(t, b) ==
  /\ calls[t].op = "subscribe"
  /\ b \in calls[t].on
  /\ handlers' = IF b \in shut THEN handlers
                 ELSE [handlers EXCEPT ![b] = @ \union {calls[t].id}]
  /\ Becomes(t, [calls[t] EXCEPT !.on = @ \ {b}, !.done = @ \union {b}])
  /\ UNCHANGED <<tables, collections, shut, disturbed>>

(* Mutant: a subscription that finds the orchestrator closed is forgotten. *)
TrackUnlessClosed(t) ==
  /\ calls[t].op = "subscribe"
  /\ calls[t].on = {}
  /\ subscriptions' = IF closed THEN subscriptions
                      ELSE [subscriptions EXCEPT ![calls[t].id] = calls[t].done]
  /\ EndCall(t)
  /\ UNCHANGED <<backends, routes, closed, nextSubID, outside, disturbed>>

(* The subscription is tracked, even after Close.                          *)
Track(t) ==
  /\ calls[t].op = "subscribe"
  /\ calls[t].on = {}
  /\ subscriptions' = [subscriptions EXCEPT ![calls[t].id] = calls[t].done]
  /\ EndCall(t)
  /\ UNCHANGED <<backends, routes, closed, nextSubID, outside, disturbed>>

StartUnsubscribe(t, i) ==
  /\ subscriptions[i] # {}
  /\ StartCall(t, [NoThreadCall EXCEPT !.op = "unsubscribe",
                     !.on = subscriptions[i], !.id = i])
  /\ subscriptions' = [subscriptions EXCEPT ![i] = {}]
  /\ UNCHANGED <<backends, routes, closed, nextSubID, outside, disturbed>>

UnsubscribeFrom(t, b) ==
  LET left == calls[t].on \ {b}
  IN /\ calls[t].op = "unsubscribe"
     /\ b \in calls[t].on
     /\ handlers' = [handlers EXCEPT ![b] = @ \ {calls[t].id}]
     /\ IF left = {} THEN EndCall(t) ELSE Becomes(t, [calls[t] EXCEPT !.on = left])
     /\ UNCHANGED <<tables, collections, shut, disturbed>>

(* Close; the backends are then closed one by one.  A closed backend lets  *)
(* go of its emitter: nothing calls its handlers any more.                 *)
CloseOrchestrator(t) ==
  /\ ~closed
  /\ closed' = TRUE
  /\ IF backends = {} THEN StartCall(t, NoThreadCall)
     ELSE StartCall(t, [NoThreadCall EXCEPT !.op = "close", !.on = backends])
  /\ UNCHANGED <<backends, routes, subscriptions, nextSubID, outside, disturbed>>

CloseBackend(t, b) ==
  LET left == calls[t].on \ {b}
  IN /\ calls[t].op = "close"
     /\ b \in calls[t].on
     /\ handlers' = [handlers EXCEPT ![b] = {}]
     /\ shut' = shut \union {b}
     /\ IF left = {} THEN EndCall(t) ELSE Becomes(t, [calls[t] EXCEPT !.on = left])
     /\ UNCHANGED <<tables, collections, disturbed>>

OrchestratorNext ==
  \/ \E b \in Labels : RegisterBackend(b)
  \/ \E n \in Names, b \in Labels : RouteCollection(n, b)
  \/ \E t \in Threads :
       \/ \E N \in SUBSET Names : StartCreate(t, N)
       \/ \E n \in Names :
            \/ ResolveOne(t, n)
            \/ StartDelete(t, n)
            \/ DeleteOn(t, n)
            \/ Unroute(t, n)
       \/ \E b \in Labels :
            \/ CreateOn(t, b)
            \/ SubscribeOn(t, b)
            \/ UnsubscribeFrom(t, b)
            \/ CloseBackend(t, b)
       \/ \E i \in SubIds : StartUnsubscribe(t, i)
       \/ ResolveFails(t)
       \/ CreateFails(t)
       \/ NothingDeleted(t)
       \/ StartSubscribe(t)
       \/ Track(t)
       \/ CloseOrchestrator(t)

OrchestratorSpec == OrchestratorInit /\ [][OrchestratorNext]_orchestratorVars

----------------------------------------------------------------------------
(* Properties.                                                             *)

(* A collection created through the orchestrator stays reachable through   *)
(* it: it is on the backend its name is routed to and on no other, however *)
(* creations, deletions and routings of its name overlap and fail.  Two    *)
(* things are excepted: a name routed anew while its collection is there   *)
(* ("a startup-time configuration operation, not a runtime one"), and a    *)
(* creation that reaches its backend when a deletion has removed its route *)
(* or is about to, which RoutesOutlast shows to go wrong.                  *)
CollectionsReachable ==
  \A b \in Labels, n \in Names \ disturbed : n \in collections[b] => routes[n] = b

(* Delete removes the route with the collection, "so a subsequently        *)
(* re-created collection of the same name must be explicitly re-routed     *)
(* rather than silently inheriting a stale route": no step leaves a        *)
(* collection where it is and takes its route away.  (Not so: a creation   *)
(* between the two steps of Delete still finds the stale route, and Delete *)
(* then removes it from under the new collection.)                         *)
RoutesOutlast ==
  [][\A b \in Labels, n \in Names :
       routes[n] = b /\ n \in collections[b] \intersect collections'[b]
         => routes'[n] # NoLabel]_orchestratorVars

(* No handler is left behind on a backend: each belongs to a subscription  *)
(* that Unsubscribe can find, or to a call that is still under way, even   *)
(* when Close comes between two steps of Subscribe.                        *)
HandlersTracked ==
  \A b \in Labels : \A i \in handlers[b] :
    \/ b \in subscriptions[i]
    \/ \E t \in Threads : calls[t].op \in {"subscribe", "unsubscribe"} /\ calls[t].id = i

=============================================================================
