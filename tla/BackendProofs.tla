--------------------------- MODULE BackendProofs ---------------------------
(***************************************************************************)
(* Proofs about the in-memory backend, EphemeralStore, and about what      *)
(* routes collections to backends, Orchestrator: for any clients and any   *)
(* mix of calls; for any backends, collections and callers.                *)
(***************************************************************************)
EXTENDS EphemeralStore, Orchestrator, TLAPS

----------------------------------------------------------------------------
(* EphemeralStore.                                                         *)

NotDirect(c) == use[c] \in Transactional \union {"none"}

(* Where a call stands tells what it is.                                   *)
CallsInv ==
  \A c \in Goroutines :
    /\ use[c] = "none" <=> pc[c] = "idle"
    /\ pc[c] = "persist" => use[c] = "transact"
    /\ pc[c] \in {"start", "clone", "callback", "commit", "rollback", "return"}
         => use[c] \in Transactional
    /\ pc[c] \in {"fetch", "apply"} => use[c] = "direct"
    /\ pc[c] = "read" => use[c] = "read"

(* A transaction has written nothing before its callback, and has no       *)
(* result before its end.                                                  *)
ProgressInv ==
  \A c \in Goroutines :
    /\ pc[c] \in {"idle", "persist", "start", "clone"} => c \notin wrote
    /\ NotDirect(c) /\ pc[c] \notin {"return", "done"} => result[c] = "none"
    /\ result[c] = "refused" =>
         NotDirect(c) /\ pc[c] \in {"return", "done"} /\ c \notin wrote

(* The clone differs from the root in the transaction's own writes alone:  *)
(* what makes replacing the whole root harmless to the others.             *)
SnapInv ==
  \A c \in Goroutines :
    Active(c) =>
      /\ c \in snap[c] <=> c \in wrote
      /\ \A d \in Goroutines \ {c} : NotDirect(d) => (d \in snap[c] <=> d \in rootData)

(* CommitsAccumulate, and nothing of a call not made yet.                  *)
RootInv ==
  \A c \in Goroutines :
    NotDirect(c) => (c \in rootData <=> c \in wrote /\ result[c] = "ok")

StoreInv ==
  /\ StoreTypeOK /\ TransactionsSerialized /\ LocksOwned
  /\ CallsInv /\ ProgressInv /\ SnapInv /\ RootInv

LEMMA StoreInitially == StoreInit => StoreInv
BY NoneAssumption
DEF StoreInit, StoreInv, StoreTypeOK, TransactionsSerialized, LocksOwned, CallsInv,
    ProgressInv, SnapInv, RootInv, Active, NotDirect, PcValues, Results,
    Transactional

(* Every step keeps the invariant; the one that replaces the root, Commit,  *)
(* rests on SnapInv.                                                       *)
LEMMA StorePreserved == StoreInv /\ [StoreNext]_storeVars => StoreInv'
<1> SUFFICES ASSUME StoreInv, [StoreNext]_storeVars PROVE StoreInv'
  OBVIOUS
<1> USE NoneAssumption, UsesAssumption
    DEF StoreInv, StoreTypeOK, TransactionsSerialized, LocksOwned, CallsInv,
        ProgressInv, SnapInv, RootInv, Active, NotDirect, PcValues,
        Results, Transactional, AllUses, Goto, locks
<1>1. ASSUME NEW c \in Goroutines, NEW u \in Uses, Arrive(c, u) PROVE StoreInv'
  <2>1. u \in AllUses
    OBVIOUS
  <2>2. CASE u = "transact"
    BY <1>1, <2>2 DEF Arrive
  <2>3. CASE u = "write"
    BY <1>1, <2>3 DEF Arrive
  <2>4. CASE u = "direct"
    BY <1>1, <2>4 DEF Arrive
  <2>5. CASE u = "read"
    BY <1>1, <2>5 DEF Arrive
  <2> QED BY <2>1, <2>2, <2>3, <2>4, <2>5
<1>2. ASSUME NEW c \in Goroutines, LockPersistence(c) PROVE StoreInv'
  BY <1>2 DEF LockPersistence
<1>3. ASSUME NEW c \in Goroutines, LockStore(c) PROVE StoreInv'
  BY <1>3 DEF LockStore
<1>4. ASSUME NEW c \in Goroutines, LockTxAndClone(c) PROVE StoreInv'
  BY <1>4 DEF LockTxAndClone
<1>14. ASSUME NEW c \in Goroutines, CloneFails(c) PROVE StoreInv'
  BY <1>14 DEF CloneFails
<1>5. ASSUME NEW c \in Goroutines, TxWrite(c) PROVE StoreInv'
  BY <1>5 DEF TxWrite
<1>6. ASSUME NEW c \in Goroutines, CallbackReturns(c) PROVE StoreInv'
  BY <1>6 DEF CallbackReturns
<1>7. ASSUME NEW c \in Goroutines, CommitTx(c) PROVE StoreInv'
  BY <1>7 DEF CommitTx
<1>8. ASSUME NEW c \in Goroutines, RollbackTx(c) PROVE StoreInv'
  BY <1>8 DEF RollbackTx
<1>9. ASSUME NEW c \in Goroutines, Return(c) PROVE StoreInv'
  BY <1>9 DEF Return
<1>10. ASSUME NEW c \in Goroutines, DirectFetch(c) PROVE StoreInv'
  BY <1>10 DEF DirectFetch
<1>11. ASSUME NEW c \in Goroutines, DirectApply(c) PROVE StoreInv'
  BY <1>11 DEF DirectApply
<1>12. ASSUME NEW c \in Goroutines, Read(c) PROVE StoreInv'
  BY <1>12 DEF Read
<1>13. CASE UNCHANGED storeVars
  BY <1>13 DEF storeVars
<1> QED
  BY <1>1, <1>2, <1>3, <1>4, <1>5, <1>6, <1>7, <1>8, <1>9, <1>10, <1>11,
     <1>12, <1>13, <1>14 DEF StoreNext, StoreStep

(* However many callers go around Transact, the backend never runs two     *)
(* transactions side by side, keeps every committed one and shows nothing  *)
(* of the others, and each lock has the owner its calls' positions say.    *)
(* (That every caller gets its turn is what fails: see EveryCallReturns.)  *)
THEOREM StoreTheorem ==
  StoreSpec => [](TransactionsSerialized /\ CommitsAccumulate /\ LocksOwned)
<1>1. StoreInv => TransactionsSerialized /\ CommitsAccumulate /\ LocksOwned
  BY DEF StoreInv, RootInv, NotDirect, CommitsAccumulate
<1> QED
  BY <1>1, StoreInitially, StorePreserved, PTL DEF StoreSpec

(* TransactionsSerialized, for itself: however many clients go around      *)
(* Transact, a transaction runs alone, on a clone of the latest root.      *)
THEOREM SerializedTheorem == StoreSpec => []TransactionsSerialized
  BY StoreTheorem, PTL

(* LocksOwned, for itself: whichever of its ends a call comes to, each of  *)
(* the three locks is held by the call that still has to release it, or,   *)
(* txMu, by a StartTransaction whose Clone failed.                         *)
THEOREM LocksTheorem == StoreSpec => []LocksOwned
  BY StoreTheorem, PTL

----------------------------------------------------------------------------
(* Orchestrator.                                                           *)

Ops == {"none", "resolve", "create", "delete", "unroute", "subscribe",
        "unsubscribe", "close"}
ThreadCalls ==
  {call \in [op : Ops, names : SUBSET Names, plan : [Names -> Labels \union {NoLabel}],
             on : SUBSET Labels, done : SUBSET Labels, id : SubIds \union {0}] :
     call.op \in {"subscribe", "unsubscribe"} => call.id \in SubIds}

OrchestratorTypeOK ==
  /\ backends \subseteq Labels
  /\ routes \in [Names -> Labels \union {NoLabel}]
  /\ subscriptions \in [SubIds -> SUBSET Labels]
  /\ nextSubID \in 0 .. MaxSubscriptions
  /\ collections \in [Labels -> SUBSET Names]
  /\ handlers \in [Labels -> SUBSET SubIds]
  /\ calls \in [Threads -> ThreadCalls]
  /\ disturbed \subseteq Names

(* A deletion is of one collection.                                        *)
Deletes(call) == call.op \in {"delete", "unroute"}
DeletesOne(call) ==
  Deletes(call) =>
    \A m, n \in Names : call.plan[m] # NoLabel /\ call.plan[n] # NoLabel => m = n
DeletionsOfOne == \A t \in Threads : DeletesOne(calls[t])

(* What is to be unrouted is on no backend any more.                       *)
UnroutedGone ==
  \A t \in Threads : \A n \in Names \ disturbed : \A b \in Labels :
    calls[t].op = "unroute" /\ calls[t].plan[n] # NoLabel => n \notin collections[b]

RoutesInv ==
  OrchestratorTypeOK /\ DeletionsOfOne /\ UnroutedGone /\ CollectionsReachable

(* An id belongs to one call at a time, and to no tracked subscription as  *)
(* long as a call has it.                                                  *)
Subscribing(t) == calls[t].op \in {"subscribe", "unsubscribe"}
IdsInv ==
  /\ \A t \in Threads : Subscribing(t) =>
       /\ calls[t].id \in 1 .. nextSubID
       /\ subscriptions[calls[t].id] = {}
       /\ \A u \in Threads \ {t} : Subscribing(u) => calls[u].id # calls[t].id
  /\ \A i \in SubIds : i > nextSubID => subscriptions[i] = {}

(* A handler is known where it will be looked for.                         *)
HandlersKnown ==
  \A b \in Labels : \A i \in handlers[b] :
    \/ b \in subscriptions[i]
    \/ \E t \in Threads :
         /\ calls[t].id = i
         /\ \/ calls[t].op = "subscribe" /\ b \in calls[t].done
            \/ calls[t].op = "unsubscribe" /\ b \in calls[t].on

HandlersInv == OrchestratorTypeOK /\ IdsInv /\ HandlersKnown

LEMMA OrchestratorInitially == OrchestratorInit => RoutesInv /\ HandlersInv
BY NoLabelAssumption, MaxSubscriptionsAssumption
DEF OrchestratorInit, RoutesInv, HandlersInv, OrchestratorTypeOK, DeletionsOfOne,
    DeletesOne, UnroutedGone, CollectionsReachable, IdsInv, Deletes,
    HandlersKnown, Subscribing, NoThreadCall, NoRoutes, ThreadCalls, Ops

(* The calls, as they begin.                                               *)
LEMMA CallTypes ==
  /\ NoThreadCall \in ThreadCalls
  /\ NoThreadCall.op = "none" /\ NoThreadCall.names = {} /\ NoThreadCall.plan = NoRoutes
  /\ \A n \in Names : NoRoutes[n] = NoLabel
BY NoLabelAssumption, MaxSubscriptionsAssumption
DEF NoThreadCall, NoRoutes, ThreadCalls, Ops, SubIds

(* A call with some of its fields changed.                                 *)
CallRecords ==
  [op : Ops, names : SUBSET Names, plan : [Names -> Labels \union {NoLabel}],
   on : SUBSET Labels, done : SUBSET Labels, id : SubIds \union {0}]

LEMMA CallResolves ==
  ASSUME NEW call \in ThreadCalls, NEW op \in Ops, NEW names \in SUBSET Names,
         NEW plan \in [Names -> Labels \union {NoLabel}], NEW on \in SUBSET Labels,
         op \notin {"subscribe", "unsubscribe"}
  PROVE  [call EXCEPT !.op = op, !.names = names, !.plan = plan, !.on = on] \in ThreadCalls
<1> DEFINE new == [call EXCEPT !.op = op, !.names = names, !.plan = plan, !.on = on]
<1>1. call \in CallRecords
  BY DEF ThreadCalls, CallRecords
<1>2. new \in CallRecords
  BY <1>1, Zenon DEF CallRecords
<1>3. new.op = op
  BY <1>1 DEF CallRecords
<1> QED
  BY <1>2, <1>3 DEF ThreadCalls, CallRecords

LEMMA CallAdvances ==
  ASSUME NEW call \in ThreadCalls, NEW on \in SUBSET Labels, NEW done \in SUBSET Labels
  PROVE  [call EXCEPT !.on = on, !.done = done] \in ThreadCalls
<1> DEFINE new == [call EXCEPT !.on = on, !.done = done]
<1>1. call \in CallRecords
  BY DEF ThreadCalls, CallRecords
<1>2. new \in CallRecords
  BY <1>1, Zenon DEF CallRecords
<1>3. new.op = call.op /\ new.id = call.id
  BY <1>1 DEF CallRecords
<1> HIDE DEF new
<1> QED
  BY <1>2, <1>3 DEF ThreadCalls, CallRecords, new

(* Nothing but the backends a call has yet to visit, or its operation.     *)
LEMMA CallNarrows ==
  ASSUME NEW call \in ThreadCalls, NEW on \in SUBSET Labels
  PROVE  [call EXCEPT !.on = on] \in ThreadCalls
<1> DEFINE new == [call EXCEPT !.on = on]
<1>1. call \in CallRecords
  BY DEF ThreadCalls, CallRecords
<1>2. new \in CallRecords
  BY <1>1, Zenon DEF CallRecords
<1>3. new.op = call.op /\ new.id = call.id
  BY <1>1 DEF CallRecords
<1> HIDE DEF new
<1> QED
  BY <1>2, <1>3 DEF ThreadCalls, CallRecords, new

LEMMA CallUnroutes ==
  ASSUME NEW call \in ThreadCalls
  PROVE  [call EXCEPT !.op = "unroute"] \in ThreadCalls
<1> DEFINE new == [call EXCEPT !.op = "unroute"]
<1>1. call \in CallRecords /\ "unroute" \in Ops
  BY DEF ThreadCalls, CallRecords, Ops
<1>2. new \in CallRecords
  BY <1>1, Zenon DEF CallRecords
<1>3. new.op = "unroute"
  BY <1>1 DEF CallRecords
<1> HIDE DEF new
<1> QED
  BY <1>2, <1>3 DEF ThreadCalls, CallRecords, new

(* What a step of t makes of the calls.                                    *)
LEMMA CallChanges ==
  ASSUME OrchestratorTypeOK, NEW t \in Threads, NEW call \in ThreadCalls,
         calls' = [calls EXCEPT ![t] = call]
  PROVE  /\ calls' \in [Threads -> ThreadCalls]
         /\ calls'[t] = call
         /\ \A u \in Threads \ {t} : calls'[u] = calls[u]
BY DEF OrchestratorTypeOK

----------------------------------------------------------------------------
(* Types.                                                                  *)

LEMMA OrchestratorTypes ==
  ASSUME OrchestratorTypeOK, OrchestratorNext
  PROVE  OrchestratorTypeOK'
<1> USE MaxSubscriptionsAssumption, NoLabelAssumption DEF OrchestratorTypeOK, tables, outside
<1>1. ASSUME NEW b \in Labels, RegisterBackend(b) PROVE OrchestratorTypeOK'
  BY <1>1 DEF RegisterBackend
<1>2. ASSUME NEW n \in Names, NEW b \in Labels, RouteCollection(n, b)
      PROVE  OrchestratorTypeOK'
  BY <1>2 DEF RouteCollection
<1>3. ASSUME NEW t \in Threads, NEW call \in ThreadCalls,
             calls' = [calls EXCEPT ![t] = call]
      PROVE  calls' \in [Threads -> ThreadCalls]
  BY <1>3
<1> USE DEF Becomes, EndCall, StartCall
<1>4. ASSUME NEW t \in Threads, NEW N \in SUBSET Names, StartCreate(t, N)
      PROVE  OrchestratorTypeOK'
  <2>1. [NoThreadCall EXCEPT !.op = "resolve", !.names = N] \in ThreadCalls
    BY CallTypes DEF ThreadCalls, Ops
  <2> QED
    BY <1>3, <1>4, <2>1 DEF StartCreate
<1>5. ASSUME NEW t \in Threads, NEW n \in Names, ResolveOne(t, n)
      PROVE  OrchestratorTypeOK'
  <2> DEFINE left == calls[t].names \ {n}
             found == [calls[t].plan EXCEPT ![n] = routes[n]]
             on == {found[m] : m \in Names} \ {NoLabel}
             op == IF left = {} THEN "create" ELSE "resolve"
  <2>1. found \in [Names -> Labels \union {NoLabel}]
    BY DEF ThreadCalls
  <2>2. on \in SUBSET Labels /\ left \in SUBSET Names
    BY <2>1 DEF ThreadCalls
  <2>3. op \in {"create", "resolve"}
    OBVIOUS
  <2>4. calls' = [calls EXCEPT ![t] = [calls[t] EXCEPT
                    !.op = op, !.names = left, !.plan = found, !.on = on]]
    BY <1>5 DEF ResolveOne
  <2> HIDE DEF left, found, on, op
  <2>5. [calls[t] EXCEPT !.op = op, !.names = left, !.plan = found, !.on = on]
          \in ThreadCalls
    <3>1. calls[t] \in ThreadCalls /\ op \in Ops /\ op \notin {"subscribe", "unsubscribe"}
      BY <2>3 DEF Ops
    <3> QED
      BY <2>1, <2>2, <3>1, CallResolves, Zenon
  <2> QED
    BY <1>3, <1>5, <2>4, <2>5 DEF ResolveOne
<1>6. ASSUME NEW t \in Threads, NEW n \in Names, StartDelete(t, n)
      PROVE  OrchestratorTypeOK'
  <2>1. [NoThreadCall EXCEPT !.op = "delete", !.plan = [NoRoutes EXCEPT ![n] = routes[n]]]
          \in ThreadCalls
    BY CallTypes DEF ThreadCalls, Ops, NoRoutes
  <2>2. /\ calls' \in [Threads -> ThreadCalls]
        /\ disturbed' \in {disturbed, disturbed \union {n}}
        /\ UNCHANGED <<backends, routes, subscriptions, nextSubID, collections, handlers>>
    BY <1>3, <1>6, <2>1 DEF StartDelete
  <2> QED
    BY <2>2
<1>7. ASSUME NEW t \in Threads, NEW n \in Names, DeleteOn(t, n)
      PROVE  OrchestratorTypeOK'
  <2>1. [calls[t] EXCEPT !.op = "unroute"] \in ThreadCalls
    <3>1. calls[t] \in ThreadCalls
      OBVIOUS
    <3> QED
      BY <3>1, CallUnroutes, Zenon
  <2>2. /\ calls' \in [Threads -> ThreadCalls]
        /\ collections' = [collections EXCEPT ![calls[t].plan[n]] = @ \ {n}]
        /\ UNCHANGED <<backends, routes, subscriptions, nextSubID, handlers, disturbed>>
    BY <1>3, <1>7, <2>1 DEF DeleteOn
  <2> QED
    BY <2>2
<1>8. ASSUME NEW t \in Threads, NEW n \in Names, Unroute(t, n)
      PROVE  OrchestratorTypeOK'
  <2>1. /\ calls' \in [Threads -> ThreadCalls]
        /\ routes' = [routes EXCEPT ![n] = NoLabel]
        /\ UNCHANGED <<backends, subscriptions, nextSubID, collections, handlers, disturbed>>
    BY <1>3, <1>8, CallTypes DEF Unroute
  <2> QED
    BY <2>1
<1>9. ASSUME NEW t \in Threads, NEW on \in SUBSET Labels
      PROVE  [calls[t] EXCEPT !.on = on] \in ThreadCalls
  <2>1. calls[t] \in ThreadCalls
    OBVIOUS
  <2> QED
    BY <2>1, CallNarrows, Zenon
<1>10. ASSUME NEW t \in Threads, NEW b \in Labels, CreateOn(t, b)
       PROVE  OrchestratorTypeOK'
  <2>1. calls[t].on \ {b} \in SUBSET Labels
    BY DEF ThreadCalls
  <2> QED
    BY <1>3, <1>9, <1>10, <2>1, CallTypes DEF CreateOn
<1>11. ASSUME NEW t \in Threads, NEW b \in Labels, SubscribeOn(t, b)
       PROVE  OrchestratorTypeOK'
  <2> DEFINE on == calls[t].on \ {b}
             done == calls[t].done \union {b}
  <2>1. [calls[t] EXCEPT !.on = on, !.done = done] \in ThreadCalls
    <3>1. /\ calls[t] \in ThreadCalls
          /\ on \in SUBSET Labels /\ done \in SUBSET Labels
      BY DEF ThreadCalls
    <3> HIDE DEF on, done
    <3> QED
      BY <3>1, CallAdvances, Zenon
  <2>2. calls[t].id \in SubIds
    BY <1>11 DEF SubscribeOn, ThreadCalls
  <2> QED
    BY <1>3, <1>11, <2>1, <2>2 DEF SubscribeOn
<1>12. ASSUME NEW t \in Threads, NEW b \in Labels, UnsubscribeFrom(t, b)
       PROVE  OrchestratorTypeOK'
  <2>1. calls[t].on \ {b} \in SUBSET Labels
    BY DEF ThreadCalls
  <2> QED
    BY <1>3, <1>9, <1>12, <2>1, CallTypes DEF UnsubscribeFrom
<1>13. ASSUME NEW t \in Threads, NEW b \in Labels, CloseBackend(t, b)
       PROVE  OrchestratorTypeOK'
  <2>1. calls[t].on \ {b} \in SUBSET Labels
    BY DEF ThreadCalls
  <2> QED
    BY <1>3, <1>9, <1>13, <2>1, CallTypes DEF CloseBackend
<1>14. ASSUME NEW t \in Threads, NEW i \in SubIds, StartUnsubscribe(t, i)
       PROVE  OrchestratorTypeOK'
  <2>1. [NoThreadCall EXCEPT !.op = "unsubscribe", !.on = subscriptions[i], !.id = i]
          \in ThreadCalls
    BY CallTypes DEF ThreadCalls, Ops
  <2> QED
    BY <1>3, <1>14, <2>1 DEF StartUnsubscribe
<1>15. ASSUME NEW t \in Threads, ResolveFails(t) \/ CreateFails(t) \/ NothingDeleted(t)
       PROVE  OrchestratorTypeOK'
  BY <1>3, <1>15, CallTypes DEF ResolveFails, CreateFails, NothingDeleted
<1>16. ASSUME NEW t \in Threads, StartSubscribe(t)
       PROVE  OrchestratorTypeOK'
  <2>1. nextSubID + 1 \in SubIds /\ nextSubID' \in 0 .. MaxSubscriptions
    BY <1>16 DEF StartSubscribe, SubIds
  <2>2. [NoThreadCall EXCEPT !.op = "subscribe", !.on = backends, !.id = nextSubID + 1]
          \in ThreadCalls
    BY <2>1, CallTypes DEF ThreadCalls, Ops
  <2> QED
    BY <1>3, <1>16, <2>1, <2>2 DEF StartSubscribe
<1>17. ASSUME NEW t \in Threads, Track(t)
       PROVE  OrchestratorTypeOK'
  BY <1>3, <1>17, CallTypes DEF Track, ThreadCalls
<1>18. ASSUME NEW t \in Threads, CloseOrchestrator(t)
       PROVE  OrchestratorTypeOK'
  <2>1. [NoThreadCall EXCEPT !.op = "close", !.on = backends] \in ThreadCalls
    BY CallTypes DEF ThreadCalls, Ops
  <2> QED
    BY <1>3, <1>18, <2>1, CallTypes DEF CloseOrchestrator
<1> QED
  BY <1>1, <1>2, <1>4, <1>5, <1>6, <1>7, <1>8, <1>10, <1>11, <1>12, <1>13, <1>14,
     <1>15, <1>16, <1>17, <1>18
  DEF OrchestratorNext

----------------------------------------------------------------------------
(* Routes.                                                                 *)

(* A step of t that changes no route: what it adds to a backend is routed  *)
(* there and about to be unrouted by no one.                               *)
LEMMA RoutesKept ==
  ASSUME RoutesInv, OrchestratorTypeOK', NEW t \in Threads, NEW call \in ThreadCalls,
         calls' = [calls EXCEPT ![t] = call],
         UNCHANGED routes, disturbed \subseteq disturbed',
         DeletesOne(call),
         \A b \in Labels : \A n \in collections'[b] \ disturbed' :
           n \in collections[b] \/ (routes[n] = b /\ ~Unrouting(n)),
         call.op = "unroute" =>
           \A n \in Names \ disturbed' : \A b \in Labels :
             call.plan[n] # NoLabel => n \notin collections'[b]
  PROVE  RoutesInv'
<1> USE DEF RoutesInv
<1>1. /\ calls'[t] = call
      /\ \A u \in Threads \ {t} : calls'[u] = calls[u]
  BY CallChanges
<1>2. \A b \in Labels : collections'[b] \subseteq Names
  BY DEF OrchestratorTypeOK
<1>3. DeletionsOfOne'
  BY <1>1 DEF DeletionsOfOne, DeletesOne, Deletes
<1>4. UnroutedGone'
  <2> SUFFICES ASSUME NEW u \in Threads \ {t}, NEW n \in Names \ disturbed', NEW b \in Labels,
                      calls[u].op = "unroute", calls[u].plan[n] # NoLabel
               PROVE  n \notin collections'[b]
    BY <1>1 DEF UnroutedGone
  <2>1. n \notin collections[b]
    BY DEF UnroutedGone
  <2>2. Unrouting(n)
    BY DEF Unrouting
  <2> QED
    BY <2>1, <2>2
<1>5. CollectionsReachable'
  BY <1>2 DEF CollectionsReachable
<1> QED
  BY <1>3, <1>4, <1>5

(* Most steps touch neither routes nor collections, and begin no deletion. *)
LEMMA QuietStep ==
  ASSUME RoutesInv, OrchestratorTypeOK', NEW t \in Threads,
         calls' = [calls EXCEPT ![t] = calls'[t]],
         ~Deletes(calls'[t]),
         UNCHANGED <<routes, collections, disturbed>>
  PROVE  RoutesInv'
<1>1. PICK call \in ThreadCalls : call = calls'[t]
  BY DEF OrchestratorTypeOK
<1>2. DeletesOne(call) /\ call.op # "unroute"
  BY <1>1 DEF DeletesOne, Deletes
<1> QED
  BY <1>1, <1>2, RoutesKept

LEMMA CreatesOn ==
  ASSUME RoutesInv, OrchestratorTypeOK', NEW t \in Threads, NEW b \in Labels,
         CreateOn(t, b)
  PROVE  RoutesInv'
<1> DEFINE share == {n \in Names : calls[t].plan[n] = b}
<1>1. PICK call \in ThreadCalls :
        calls' = [calls EXCEPT ![t] = call] /\ call.op \in {"none", "create"}
  <2>1. PICK call : /\ calls' = [calls EXCEPT ![t] = call]
                    /\ call = NoThreadCall \/ call = [calls[t] EXCEPT !.on = @ \ {b}]
    BY DEF CreateOn, EndCall, Becomes
  <2>2. call = calls'[t] /\ call \in ThreadCalls
    BY <2>1 DEF RoutesInv, OrchestratorTypeOK
  <2>3. call.op \in {"none", "create"}
    BY <2>1, CallTypes DEF CreateOn, RoutesInv, OrchestratorTypeOK, ThreadCalls
  <2> QED
    BY <2>1, <2>2, <2>3
<1>2. /\ UNCHANGED routes
      /\ disturbed' = disturbed \union {n \in share : routes[n] # b \/ Unrouting(n)}
      /\ collections' = [collections EXCEPT ![b] = @ \union share]
  BY DEF CreateOn, tables
<1>3. \A a \in Labels : \A n \in collections'[a] \ disturbed' :
        n \in collections[a] \/ (routes[n] = a /\ ~Unrouting(n))
  BY <1>2 DEF RoutesInv, OrchestratorTypeOK
<1>4. DeletesOne(call) /\ call.op # "unroute"
  BY <1>1 DEF DeletesOne, Deletes
<1> QED
  BY <1>1, <1>2, <1>3, <1>4, RoutesKept

LEMMA DeleteStarts ==
  ASSUME RoutesInv, OrchestratorTypeOK', NEW t \in Threads, NEW n \in Names,
         StartDelete(t, n)
  PROVE  RoutesInv'
<1>1. PICK call \in ThreadCalls :
        /\ calls' = [calls EXCEPT ![t] = call]
        /\ call.op = "delete"
        /\ call.plan = [NoRoutes EXCEPT ![n] = routes[n]]
  <2> DEFINE new == [NoThreadCall EXCEPT !.op = "delete",
                       !.plan = [NoRoutes EXCEPT ![n] = routes[n]]]
  <2>1. calls' = [calls EXCEPT ![t] = new]
    BY DEF StartDelete, StartCall
  <2>2. new \in ThreadCalls
    BY <2>1 DEF RoutesInv, OrchestratorTypeOK
  <2>3. new.op = "delete" /\ new.plan = [NoRoutes EXCEPT ![n] = routes[n]]
    BY CallTypes DEF NoThreadCall
  <2> HIDE DEF new
  <2> QED
    BY <2>1, <2>2, <2>3
<1>2. UNCHANGED <<routes, collections, disturbed>>
  BY DEF StartDelete, tables, outside
<1>3. DeletesOne(call)
  BY <1>1 DEF DeletesOne, NoRoutes
<1> QED
  BY <1>1, <1>2, <1>3, RoutesKept

(* Its route led to where the collection was, so that it is nowhere else.  *)
LEMMA DeletesOn ==
  ASSUME RoutesInv, OrchestratorTypeOK', NEW t \in Threads, NEW n \in Names,
         DeleteOn(t, n)
  PROVE  RoutesInv'
<1> DEFINE b == calls[t].plan[n]
<1>1. PICK call \in ThreadCalls :
        /\ calls' = [calls EXCEPT ![t] = call]
        /\ call.op = "unroute" /\ call.plan = calls[t].plan
  <2> DEFINE new == [calls[t] EXCEPT !.op = "unroute"]
  <2>1. calls' = [calls EXCEPT ![t] = new]
    BY DEF DeleteOn, Becomes
  <2>2. new \in ThreadCalls
    BY <2>1 DEF RoutesInv, OrchestratorTypeOK
  <2>3. new.op = "unroute" /\ new.plan = calls[t].plan
    BY DEF RoutesInv, OrchestratorTypeOK, ThreadCalls
  <2> HIDE DEF new
  <2> QED
    BY <2>1, <2>2, <2>3
<1>2. /\ UNCHANGED <<routes, disturbed>>
      /\ calls[t].op = "delete"
      /\ b \in Labels /\ n \in collections[b]
      /\ collections' = [collections EXCEPT ![b] = @ \ {n}]
  BY DEF DeleteOn, tables, RoutesInv, OrchestratorTypeOK, ThreadCalls
<1>3. /\ DeletesOne(call)
      /\ \A m \in Names : call.plan[m] # NoLabel => m = n
  BY <1>1, <1>2, NoLabelAssumption
  DEF RoutesInv, DeletionsOfOne, DeletesOne, Deletes
<1>4. \A a \in Labels : collections'[a] \subseteq collections[a]
  BY <1>2 DEF RoutesInv, OrchestratorTypeOK
<1>5. n \notin disturbed => \A a \in Labels : n \notin collections'[a]
  BY <1>2 DEF RoutesInv, CollectionsReachable, OrchestratorTypeOK
<1> QED
  BY <1>1, <1>2, <1>3, <1>4, <1>5, RoutesKept

LEMMA RoutesCollection ==
  ASSUME RoutesInv, OrchestratorTypeOK', NEW n \in Names, NEW b \in Labels,
         RouteCollection(n, b)
  PROVE  RoutesInv'
<1>1. /\ UNCHANGED <<collections, calls>> /\ disturbed \subseteq disturbed'
      /\ routes' = [routes EXCEPT ![n] = b]
      /\ n \in disturbed' \/ routes[n] = b \/ \A a \in Labels : n \notin collections[a]
  BY DEF RouteCollection, outside
<1>2. DeletionsOfOne' /\ UnroutedGone'
  BY <1>1 DEF RoutesInv, DeletionsOfOne, DeletesOne, Deletes, UnroutedGone
<1>3. CollectionsReachable'
  BY <1>1 DEF RoutesInv, OrchestratorTypeOK, CollectionsReachable
<1> QED
  BY <1>2, <1>3 DEF RoutesInv

LEMMA Unroutes ==
  ASSUME RoutesInv, OrchestratorTypeOK', NEW t \in Threads, NEW n \in Names,
         Unroute(t, n)
  PROVE  RoutesInv'
<1>1. /\ UNCHANGED <<collections, disturbed>>
      /\ routes' = [routes EXCEPT ![n] = NoLabel]
      /\ calls' = [calls EXCEPT ![t] = NoThreadCall]
      /\ calls[t].op = "unroute" /\ calls[t].plan[n] # NoLabel
  BY DEF Unroute, outside, EndCall, Becomes
<1>2. /\ calls'[t] = NoThreadCall
      /\ \A u \in Threads \ {t} : calls'[u] = calls[u]
  BY <1>1, CallTypes, CallChanges DEF RoutesInv
<1>3. DeletionsOfOne' /\ UnroutedGone'
  BY <1>1, <1>2, CallTypes
  DEF RoutesInv, DeletionsOfOne, DeletesOne, Deletes, UnroutedGone
<1>4. n \notin disturbed => \A a \in Labels : n \notin collections[a]
  BY <1>1 DEF RoutesInv, UnroutedGone
<1>5. CollectionsReachable'
  BY <1>1, <1>4 DEF RoutesInv, OrchestratorTypeOK, CollectionsReachable
<1> QED
  BY <1>3, <1>5 DEF RoutesInv

LEMMA RoutesStep == RoutesInv /\ [OrchestratorNext]_orchestratorVars => RoutesInv'
<1> SUFFICES ASSUME RoutesInv, [OrchestratorNext]_orchestratorVars PROVE RoutesInv'
  OBVIOUS
<1>1. CASE OrchestratorNext
  <2>1. OrchestratorTypeOK'
    BY <1>1, OrchestratorTypes DEF RoutesInv
  <2> USE DEF StartCall, Becomes, EndCall, tables, outside
  <2>2. ASSUME NEW b \in Labels, RegisterBackend(b) PROVE RoutesInv'
    BY <2>1, <2>2
    DEF RegisterBackend, RoutesInv, DeletionsOfOne, UnroutedGone, CollectionsReachable
  <2>3. ASSUME NEW t \in Threads, NEW call, calls' = [calls EXCEPT ![t] = call],
               ~Deletes(call), UNCHANGED <<routes, collections, disturbed>>
        PROVE  RoutesInv'
    <3>1. calls'[t] = call
      BY <2>3 DEF RoutesInv, OrchestratorTypeOK
    <3> QED
      BY <2>1, <2>3, <3>1, QuietStep
  <2>4. ASSUME NEW t \in Threads,
               ResolveFails(t) \/ CreateFails(t) \/ NothingDeleted(t) \/ Track(t)
        PROVE  RoutesInv'
    <3>1. ~Deletes(NoThreadCall)
      BY CallTypes DEF Deletes
    <3> QED
      BY <2>3, <2>4, <3>1 DEF ResolveFails, CreateFails, NothingDeleted, Track
  <2>5. ASSUME NEW t \in Threads, NEW N \in SUBSET Names, StartCreate(t, N) PROVE RoutesInv'
    <3> DEFINE call == [NoThreadCall EXCEPT !.op = "resolve", !.names = N]
    <3>1. ~Deletes(call)
      BY DEF NoThreadCall, Deletes
    <3>2. calls' = [calls EXCEPT ![t] = call] /\ UNCHANGED <<routes, collections, disturbed>>
      BY <2>5 DEF StartCreate
    <3> HIDE DEF call
    <3> QED
      BY <2>3, <3>1, <3>2
  <2>6. ASSUME NEW t \in Threads, NEW n \in Names, ResolveOne(t, n) PROVE RoutesInv'
    <3> DEFINE op == IF calls[t].names \ {n} = {} THEN "create" ELSE "resolve"
    <3>1. calls'[t].op = op
      BY <2>6 DEF ResolveOne, RoutesInv, OrchestratorTypeOK, ThreadCalls
    <3>2. op \in {"create", "resolve"}
      OBVIOUS
    <3> HIDE DEF op
    <3> QED
      BY <2>1, <2>6, <3>1, <3>2, QuietStep DEF ResolveOne, RoutesInv, OrchestratorTypeOK, Deletes
  <2>7. ASSUME NEW t \in Threads, StartSubscribe(t) PROVE RoutesInv'
    <3> DEFINE call == [NoThreadCall EXCEPT !.op = "subscribe", !.on = backends,
                          !.id = nextSubID + 1]
    <3>1. ~Deletes(call)
      BY DEF NoThreadCall, Deletes
    <3>2. calls' = [calls EXCEPT ![t] = call] /\ UNCHANGED <<routes, collections, disturbed>>
      BY <2>7 DEF StartSubscribe
    <3> HIDE DEF call
    <3> QED
      BY <2>3, <3>1, <3>2
  <2>8. ASSUME NEW t \in Threads, NEW i \in SubIds, StartUnsubscribe(t, i) PROVE RoutesInv'
    <3> DEFINE call == [NoThreadCall EXCEPT !.op = "unsubscribe", !.on = subscriptions[i],
                          !.id = i]
    <3>1. ~Deletes(call)
      BY DEF NoThreadCall, Deletes
    <3>2. calls' = [calls EXCEPT ![t] = call] /\ UNCHANGED <<routes, collections, disturbed>>
      BY <2>8 DEF StartUnsubscribe
    <3> HIDE DEF call
    <3> QED
      BY <2>3, <3>1, <3>2
  <2>9. ASSUME NEW t \in Threads, CloseOrchestrator(t) PROVE RoutesInv'
    <3> DEFINE call == IF backends = {} THEN NoThreadCall
                       ELSE [NoThreadCall EXCEPT !.op = "close", !.on = backends]
    <3>1. ~Deletes(call)
      BY DEF NoThreadCall, Deletes
    <3>2. calls' = [calls EXCEPT ![t] = call] /\ UNCHANGED <<routes, collections, disturbed>>
      BY <2>9 DEF CloseOrchestrator
    <3> HIDE DEF call
    <3> QED
      BY <2>3, <3>1, <3>2
  <2>10. ASSUME NEW t \in Threads, NEW b \in Labels,
                SubscribeOn(t, b) \/ UnsubscribeFrom(t, b) \/ CloseBackend(t, b)
         PROVE  RoutesInv'
    <3>1. SubscribeOn(t, b) => calls'[t].op = "subscribe"
      BY DEF SubscribeOn, RoutesInv, OrchestratorTypeOK, ThreadCalls
    <3>2. UnsubscribeFrom(t, b) => calls'[t].op \in {"unsubscribe", "none"}
      BY CallTypes DEF UnsubscribeFrom, RoutesInv, OrchestratorTypeOK, ThreadCalls
    <3>3. CloseBackend(t, b) => calls'[t].op \in {"close", "none"}
      BY CallTypes DEF CloseBackend, RoutesInv, OrchestratorTypeOK, ThreadCalls
    <3>4. ~Deletes(calls'[t])
      BY <2>10, <3>1, <3>2, <3>3 DEF Deletes
    <3> QED
      BY <2>1, <2>10, <3>4, QuietStep
      DEF SubscribeOn, UnsubscribeFrom, CloseBackend, RoutesInv, OrchestratorTypeOK
  <2> QED
    BY <1>1, <2>1, <2>2, <2>4, <2>5, <2>6, <2>7, <2>8, <2>9, <2>10, RoutesCollection,
       CreatesOn, DeleteStarts, DeletesOn, Unroutes
    DEF OrchestratorNext
<1>2. CASE UNCHANGED orchestratorVars
  BY <1>2
  DEF orchestratorVars, RoutesInv, OrchestratorTypeOK, DeletionsOfOne, DeletesOne, Deletes,
      UnroutedGone, CollectionsReachable
<1> QED
  BY <1>1, <1>2

(* CollectionsReachable: a collection is on the backend its name is routed *)
(* to, and on no other, however deletions, creations and routings of its   *)
(* name come between each other's steps, but for the two cases it names.   *)
THEOREM RoutesTheorem == OrchestratorSpec => []CollectionsReachable
<1>1. RoutesInv => CollectionsReachable
  BY DEF RoutesInv
<1> QED
  BY <1>1, OrchestratorInitially, RoutesStep, PTL DEF OrchestratorSpec

----------------------------------------------------------------------------
(* Handlers.                                                               *)

(* A call that subscribes nothing goes on, at most dropping handlers.      *)
LEMMA HandlersKept ==
  ASSUME HandlersInv, OrchestratorTypeOK', NEW t \in Threads, NEW call \in ThreadCalls,
         calls' = [calls EXCEPT ![t] = call],
         calls[t].op \notin {"subscribe", "unsubscribe"},
         call.op \notin {"subscribe", "unsubscribe"},
         UNCHANGED <<subscriptions, nextSubID>>,
         \A b \in Labels : handlers'[b] \subseteq handlers[b]
  PROVE  HandlersInv'
<1>1. /\ calls'[t] = call
      /\ \A u \in Threads \ {t} : calls'[u] = calls[u]
  BY CallChanges DEF HandlersInv
<1>2. IdsInv'
  BY <1>1 DEF HandlersInv, IdsInv, Subscribing
<1>3. HandlersKnown'
  BY <1>1 DEF HandlersInv, HandlersKnown
<1> QED
  BY <1>2, <1>3 DEF HandlersInv

(* The id of a call changes hands, or the call goes on with it.            *)
LEMMA IdsKept ==
  ASSUME HandlersInv, OrchestratorTypeOK', NEW t \in Threads, NEW call \in ThreadCalls,
         calls' = [calls EXCEPT ![t] = call],
         nextSubID <= nextSubID',
         call.op \in {"subscribe", "unsubscribe"} =>
           /\ call.id \in 1 .. nextSubID'
           /\ subscriptions'[call.id] = {}
           /\ \A u \in Threads \ {t} : Subscribing(u) => calls[u].id # call.id,
         \A i \in SubIds : subscriptions'[i] = {}
                             \/ subscriptions'[i] = subscriptions[i]
                             \/ (Subscribing(t) /\ i = calls[t].id)
  PROVE  IdsInv'
<1>1. /\ calls'[t] = call
      /\ \A u \in Threads \ {t} : calls'[u] = calls[u]
  BY CallChanges DEF HandlersInv
<1>2. nextSubID \in Nat /\ nextSubID' \in Nat
  BY MaxSubscriptionsAssumption DEF HandlersInv, OrchestratorTypeOK
<1>3. \A u \in Threads : Subscribing(u) => calls[u].id \in SubIds
  BY DEF Subscribing, HandlersInv, OrchestratorTypeOK, ThreadCalls
<1>4. ASSUME NEW u \in Threads, Subscribing(u)'
      PROVE  /\ calls'[u].id \in 1 .. nextSubID'
             /\ subscriptions'[calls'[u].id] = {}
             /\ \A v \in Threads \ {u} : Subscribing(v)' => calls'[v].id # calls'[u].id
  <2>1. CASE u = t
    BY <1>1, <1>4, <2>1 DEF Subscribing
  <2>2. CASE u # t
    <3>1. calls'[u] = calls[u] /\ Subscribing(u)
      BY <1>1, <1>4, <2>2 DEF Subscribing
    <3>2. /\ calls[u].id \in 1 .. nextSubID
          /\ subscriptions[calls[u].id] = {}
          /\ \A v \in Threads \ {u} : Subscribing(v) => calls[v].id # calls[u].id
      BY <3>1 DEF HandlersInv, IdsInv
    <3>3. calls'[u].id \in 1 .. nextSubID'
      BY <1>2, <3>1, <3>2
    <3>4. subscriptions'[calls'[u].id] = {}
      BY <1>3, <2>2, <3>1, <3>2
    <3>5. \A v \in Threads \ {u} : Subscribing(v)' => calls'[v].id # calls'[u].id
      BY <1>1, <2>2, <3>1, <3>2 DEF Subscribing
    <3> QED
      BY <3>3, <3>4, <3>5
  <2> QED
    BY <2>1, <2>2
<1>5. \A i \in SubIds : i > nextSubID' => subscriptions'[i] = {}
  <2> SUFFICES ASSUME NEW i \in SubIds, i > nextSubID' PROVE subscriptions'[i] = {}
    OBVIOUS
  <2>1. i > nextSubID
    BY <1>2 DEF SubIds
  <2>2. Subscribing(t) => calls[t].id \in 1 .. nextSubID
    BY DEF HandlersInv, IdsInv
  <2>3. ~(Subscribing(t) /\ i = calls[t].id)
    BY <1>2, <2>1, <2>2
  <2> QED
    BY <2>1, <2>3 DEF HandlersInv, IdsInv
<1> QED
  BY <1>4, <1>5 DEF IdsInv

LEMMA SubscribeStarts ==
  ASSUME HandlersInv, OrchestratorTypeOK', NEW t \in Threads, StartSubscribe(t)
  PROVE  HandlersInv'
<1>1. PICK call \in ThreadCalls :
        /\ calls' = [calls EXCEPT ![t] = call]
        /\ call.op = "subscribe" /\ call.id = nextSubID + 1
  <2> DEFINE new == [NoThreadCall EXCEPT !.op = "subscribe", !.on = backends,
                       !.id = nextSubID + 1]
  <2>1. calls' = [calls EXCEPT ![t] = new]
    BY DEF StartSubscribe, StartCall
  <2>2. new \in ThreadCalls
    BY <2>1 DEF HandlersInv, OrchestratorTypeOK
  <2>3. new.op = "subscribe" /\ new.id = nextSubID + 1
    BY DEF NoThreadCall
  <2> HIDE DEF new
  <2> QED
    BY <2>1, <2>2, <2>3
<1>2. /\ UNCHANGED <<subscriptions, handlers>> /\ nextSubID' = nextSubID + 1
      /\ calls[t] = NoThreadCall
      /\ nextSubID \in Nat
      /\ nextSubID + 1 \in SubIds
  BY MaxSubscriptionsAssumption
  DEF StartSubscribe, StartCall, outside, HandlersInv, OrchestratorTypeOK, SubIds
<1>3. subscriptions[nextSubID + 1] = {}
  BY <1>2 DEF HandlersInv, IdsInv
<1>4. \A u \in Threads : Subscribing(u) => calls[u].id # nextSubID + 1
  <2> SUFFICES ASSUME NEW u \in Threads, Subscribing(u) PROVE calls[u].id # nextSubID + 1
    OBVIOUS
  <2>1. calls[u].id \in 1 .. nextSubID
    BY DEF HandlersInv, IdsInv
  <2> QED
    BY <1>2, <2>1
<1>5. nextSubID <= nextSubID' /\ call.id \in 1 .. nextSubID'
  BY <1>1, <1>2
<1>6. IdsInv'
  BY <1>1, <1>2, <1>3, <1>4, <1>5, IdsKept
<1>7. HandlersKnown'
  <2>1. \A u \in Threads \ {t} : calls'[u] = calls[u]
    BY <1>1, CallChanges DEF HandlersInv
  <2> QED
    BY <1>2, <2>1, CallTypes DEF HandlersInv, HandlersKnown
<1> QED
  BY <1>6, <1>7 DEF HandlersInv

LEMMA SubscribesOn ==
  ASSUME HandlersInv, OrchestratorTypeOK', NEW t \in Threads, NEW b \in Labels,
         SubscribeOn(t, b)
  PROVE  HandlersInv'
<1>1. PICK call \in ThreadCalls :
        /\ calls' = [calls EXCEPT ![t] = call]
        /\ call.op = "subscribe" /\ call.id = calls[t].id
        /\ call.done = calls[t].done \union {b}
  BY DEF SubscribeOn, Becomes, HandlersInv, OrchestratorTypeOK, ThreadCalls
<1>2. /\ UNCHANGED <<subscriptions, nextSubID>>
      /\ calls[t].op = "subscribe"
      /\ \A a \in Labels : handlers'[a] \subseteq
           handlers[a] \union (IF a = b THEN {calls[t].id} ELSE {})
  BY DEF SubscribeOn, tables, HandlersInv, OrchestratorTypeOK
<1>3. nextSubID <= nextSubID'
  BY <1>2, MaxSubscriptionsAssumption DEF HandlersInv, OrchestratorTypeOK
<1>4. IdsInv'
  <2>1. /\ call.id \in 1 .. nextSubID' /\ subscriptions'[call.id] = {}
        /\ \A u \in Threads \ {t} : Subscribing(u) => calls[u].id # call.id
    BY <1>1, <1>2 DEF HandlersInv, IdsInv, Subscribing
  <2> QED
    BY <1>1, <1>2, <1>3, <2>1, IdsKept
<1>5. HandlersKnown'
  <2>1. calls'[t] = call /\ \A u \in Threads \ {t} : calls'[u] = calls[u]
    BY <1>1, CallChanges DEF HandlersInv
  <2> SUFFICES ASSUME NEW a \in Labels, NEW i \in handlers'[a],
                      a \notin subscriptions'[i]
               PROVE  \E u \in Threads :
                        /\ calls'[u].id = i
                        /\ \/ calls'[u].op = "subscribe" /\ a \in calls'[u].done
                           \/ calls'[u].op = "unsubscribe" /\ a \in calls'[u].on
    BY DEF HandlersKnown
  <2>2. CASE i \in handlers[a]
    <3>1. PICK u \in Threads :
            /\ calls[u].id = i
            /\ \/ calls[u].op = "subscribe" /\ a \in calls[u].done
               \/ calls[u].op = "unsubscribe" /\ a \in calls[u].on
      BY <1>2, <2>2 DEF HandlersInv, HandlersKnown
    <3> QED
      BY <1>1, <1>2, <2>1, <3>1
  <2>3. CASE i \notin handlers[a]
    BY <1>1, <1>2, <2>1, <2>3
  <2> QED
    BY <2>2, <2>3
<1> QED
  BY <1>4, <1>5 DEF HandlersInv

LEMMA Tracks ==
  ASSUME HandlersInv, OrchestratorTypeOK', NEW t \in Threads, Track(t)
  PROVE  HandlersInv'
<1>1. PICK call \in ThreadCalls :
        /\ calls' = [calls EXCEPT ![t] = call]
        /\ call.op = "none"
  BY CallTypes DEF Track, EndCall, Becomes
<1>2. /\ UNCHANGED <<handlers, nextSubID>>
      /\ calls[t].op = "subscribe" /\ calls[t].id \in SubIds
      /\ subscriptions' = [subscriptions EXCEPT ![calls[t].id] = calls[t].done]
      /\ nextSubID <= nextSubID'
  BY MaxSubscriptionsAssumption
  DEF Track, outside, HandlersInv, OrchestratorTypeOK, ThreadCalls
<1>3. \A i \in SubIds : subscriptions'[i] = subscriptions[i]
                          \/ (Subscribing(t) /\ i = calls[t].id)
  BY <1>2 DEF Subscribing, HandlersInv, OrchestratorTypeOK
<1>4. IdsInv'
  BY <1>1, <1>2, <1>3, IdsKept
<1>5. HandlersKnown'
  <2>1. \A u \in Threads \ {t} : calls'[u] = calls[u]
    BY <1>1, CallChanges DEF HandlersInv
  <2>2. subscriptions[calls[t].id] = {}
    BY <1>2 DEF HandlersInv, IdsInv, Subscribing
  <2>3. \A u \in Threads \ {t} : Subscribing(u) => calls[u].id # calls[t].id
    BY <1>2 DEF HandlersInv, IdsInv, Subscribing
  <2> QED
    BY <1>2, <2>1, <2>2, <2>3 DEF HandlersInv, HandlersKnown, Subscribing, OrchestratorTypeOK
<1> QED
  BY <1>4, <1>5 DEF HandlersInv

LEMMA UnsubscribeStarts ==
  ASSUME HandlersInv, OrchestratorTypeOK', NEW t \in Threads, NEW i \in SubIds,
         StartUnsubscribe(t, i)
  PROVE  HandlersInv'
<1>1. PICK call \in ThreadCalls :
        /\ calls' = [calls EXCEPT ![t] = call]
        /\ call.op = "unsubscribe" /\ call.id = i /\ call.on = subscriptions[i]
  <2> DEFINE new == [NoThreadCall EXCEPT !.op = "unsubscribe", !.on = subscriptions[i],
                       !.id = i]
  <2>1. calls' = [calls EXCEPT ![t] = new]
    BY DEF StartUnsubscribe, StartCall
  <2>2. new \in ThreadCalls
    BY <2>1 DEF HandlersInv, OrchestratorTypeOK
  <2>3. new.op = "unsubscribe" /\ new.id = i /\ new.on = subscriptions[i]
    BY DEF NoThreadCall
  <2> HIDE DEF new
  <2> QED
    BY <2>1, <2>2, <2>3
<1>2. /\ UNCHANGED <<handlers, nextSubID>>
      /\ calls[t].op = "none"
      /\ subscriptions[i] # {}
      /\ subscriptions' = [subscriptions EXCEPT ![i] = {}]
      /\ nextSubID \in Nat
  BY MaxSubscriptionsAssumption, CallTypes
  DEF StartUnsubscribe, StartCall, outside, HandlersInv, OrchestratorTypeOK
<1>3. /\ \A j \in SubIds : subscriptions'[j] = {} \/ subscriptions'[j] = subscriptions[j]
      /\ subscriptions'[i] = {}
      /\ i \in 1 .. nextSubID'
      /\ nextSubID <= nextSubID'
  BY <1>2 DEF HandlersInv, OrchestratorTypeOK, IdsInv, SubIds
<1>4. \A u \in Threads : Subscribing(u) => calls[u].id # i
  BY <1>2 DEF HandlersInv, IdsInv
<1>5. IdsInv'
  BY <1>1, <1>3, <1>4, IdsKept
<1>6. HandlersKnown'
  <2>1. calls'[t] = call /\ \A u \in Threads \ {t} : calls'[u] = calls[u]
    BY <1>1, CallChanges DEF HandlersInv
  <2> QED
    BY <1>1, <1>2, <2>1 DEF HandlersInv, HandlersKnown, OrchestratorTypeOK
<1> QED
  BY <1>5, <1>6 DEF HandlersInv

LEMMA UnsubscribesFrom ==
  ASSUME HandlersInv, OrchestratorTypeOK', NEW t \in Threads, NEW b \in Labels,
         UnsubscribeFrom(t, b)
  PROVE  HandlersInv'
<1>1. PICK call \in ThreadCalls :
        /\ calls' = [calls EXCEPT ![t] = call]
        /\ \/ call.op = "none" /\ calls[t].on \ {b} = {}
           \/ call.op = "unsubscribe" /\ call.id = calls[t].id /\ call.on = calls[t].on \ {b}
  BY CallTypes
  DEF UnsubscribeFrom, EndCall, Becomes, HandlersInv, OrchestratorTypeOK, ThreadCalls
<1>2. /\ UNCHANGED <<subscriptions, nextSubID>>
      /\ calls[t].op = "unsubscribe"
      /\ handlers' = [handlers EXCEPT ![b] = @ \ {calls[t].id}]
      /\ nextSubID <= nextSubID'
  BY MaxSubscriptionsAssumption DEF UnsubscribeFrom, tables, HandlersInv, OrchestratorTypeOK
<1>3. IdsInv'
  <2>1. /\ calls[t].id \in 1 .. nextSubID' /\ subscriptions'[calls[t].id] = {}
        /\ \A u \in Threads \ {t} : Subscribing(u) => calls[u].id # calls[t].id
    BY <1>2 DEF HandlersInv, IdsInv, Subscribing
  <2> QED
    BY <1>1, <1>2, <2>1, IdsKept
<1>4. HandlersKnown'
  <2>1. calls'[t] = call /\ \A u \in Threads \ {t} : calls'[u] = calls[u]
    BY <1>1, CallChanges DEF HandlersInv
  <2> QED
    BY <1>1, <1>2, <2>1 DEF HandlersInv, HandlersKnown, OrchestratorTypeOK
<1> QED
  BY <1>3, <1>4 DEF HandlersInv

LEMMA HandlersStep == HandlersInv /\ [OrchestratorNext]_orchestratorVars => HandlersInv'
<1> SUFFICES ASSUME HandlersInv, [OrchestratorNext]_orchestratorVars PROVE HandlersInv'
  OBVIOUS
<1>1. CASE OrchestratorNext
  <2>1. OrchestratorTypeOK'
    BY <1>1, OrchestratorTypes DEF HandlersInv
  <2>2. ASSUME UNCHANGED <<subscriptions, nextSubID, handlers, calls>> PROVE HandlersInv'
    BY <2>1, <2>2 DEF HandlersInv, IdsInv, HandlersKnown, Subscribing
  <2>3. ASSUME NEW t \in Threads,
               calls[t].op \notin {"subscribe", "unsubscribe"},
               calls' = [calls EXCEPT ![t] = calls'[t]],
               calls'[t].op \notin {"subscribe", "unsubscribe"},
               UNCHANGED <<subscriptions, nextSubID>>,
               \A b \in Labels : handlers'[b] \subseteq handlers[b]
        PROVE  HandlersInv'
    <3>1. PICK call \in ThreadCalls : call = calls'[t]
      BY <2>1 DEF OrchestratorTypeOK
    <3> QED
      BY <2>1, <2>3, <3>1, HandlersKept
  <2> USE DEF StartCall, Becomes, EndCall, tables, outside
  <2>4. ASSUME NEW t \in Threads,
               (\E N \in SUBSET Names : StartCreate(t, N)) \/ CloseOrchestrator(t)
                 \/ (\E n \in Names : StartDelete(t, n))
        PROVE  HandlersInv'
    <3>1. ASSUME NEW call, calls[t] = NoThreadCall, calls' = [calls EXCEPT ![t] = call],
                 call.op \in {"resolve", "close", "none", "delete"},
                 UNCHANGED <<subscriptions, nextSubID, handlers>>
          PROVE  HandlersInv'
      <4>1. calls'[t] = call
        BY <3>1 DEF HandlersInv, OrchestratorTypeOK
      <4> QED
        BY <2>3, <3>1, <4>1, CallTypes
    <3>2. ASSUME NEW N \in SUBSET Names, StartCreate(t, N) PROVE HandlersInv'
      <4> DEFINE call == [NoThreadCall EXCEPT !.op = "resolve", !.names = N]
      <4>1. call.op = "resolve"
        BY DEF NoThreadCall
      <4>2. /\ calls[t] = NoThreadCall /\ calls' = [calls EXCEPT ![t] = call]
            /\ UNCHANGED <<subscriptions, nextSubID, handlers>>
        BY <3>2 DEF StartCreate
      <4> HIDE DEF call
      <4> QED
        BY <3>1, <4>1, <4>2
    <3>3. ASSUME NEW n \in Names, StartDelete(t, n) PROVE HandlersInv'
      <4> DEFINE call == [NoThreadCall EXCEPT !.op = "delete",
                            !.plan = [NoRoutes EXCEPT ![n] = routes[n]]]
      <4>1. call.op = "delete"
        BY DEF NoThreadCall
      <4>2. /\ calls[t] = NoThreadCall /\ calls' = [calls EXCEPT ![t] = call]
            /\ UNCHANGED <<subscriptions, nextSubID, handlers>>
        BY <3>3 DEF StartDelete
      <4> HIDE DEF call
      <4> QED
        BY <3>1, <4>1, <4>2
    <3>4. ASSUME CloseOrchestrator(t) PROVE HandlersInv'
      <4> DEFINE call == IF backends = {} THEN NoThreadCall
                         ELSE [NoThreadCall EXCEPT !.op = "close", !.on = backends]
      <4>1. call.op \in {"close", "none"}
        BY DEF NoThreadCall
      <4>2. /\ calls[t] = NoThreadCall /\ calls' = [calls EXCEPT ![t] = call]
            /\ UNCHANGED <<subscriptions, nextSubID, handlers>>
        BY <3>4 DEF CloseOrchestrator
      <4> HIDE DEF call
      <4> QED
        BY <3>1, <4>1, <4>2
    <3> QED
      BY <2>4, <3>2, <3>3, <3>4
  <2>5. ASSUME NEW t \in Threads, NEW n \in Names, ResolveOne(t, n)
        PROVE  HandlersInv'
    <3> DEFINE op == IF calls[t].names \ {n} = {} THEN "create" ELSE "resolve"
    <3>1. calls'[t].op = op
      BY <2>5 DEF ResolveOne, HandlersInv, OrchestratorTypeOK, ThreadCalls
    <3>2. op \in {"create", "resolve"}
      OBVIOUS
    <3> HIDE DEF op
    <3> QED
      BY <2>3, <2>5, <3>1, <3>2 DEF ResolveOne, HandlersInv, OrchestratorTypeOK
  <2>6. ASSUME NEW t \in Threads, NEW n \in Names, DeleteOn(t, n) \/ Unroute(t, n)
        PROVE  HandlersInv'
    <3>1. calls'[t].op \in {"unroute", "none"}
      BY <2>6, CallTypes DEF DeleteOn, Unroute, HandlersInv, OrchestratorTypeOK, ThreadCalls
    <3> QED
      BY <2>3, <2>6, <3>1 DEF DeleteOn, Unroute, HandlersInv, OrchestratorTypeOK
  <2>7. ASSUME NEW t \in Threads, NEW b \in Labels, CreateOn(t, b) \/ CloseBackend(t, b)
        PROVE  HandlersInv'
    <3>1. calls'[t].op \in {"create", "close", "none"}
      BY <2>7, CallTypes
      DEF CreateOn, CloseBackend, HandlersInv, OrchestratorTypeOK, ThreadCalls
    <3> QED
      BY <2>3, <2>7, <3>1 DEF CreateOn, CloseBackend, HandlersInv, OrchestratorTypeOK
  <2>8. ASSUME NEW t \in Threads, ResolveFails(t) \/ CreateFails(t) \/ NothingDeleted(t)
        PROVE  HandlersInv'
    BY <2>3, <2>8, CallTypes
    DEF ResolveFails, CreateFails, NothingDeleted, HandlersInv, OrchestratorTypeOK
  <2>9. ASSUME \/ \E b \in Labels : RegisterBackend(b)
               \/ \E n \in Names, b \in Labels : RouteCollection(n, b)
        PROVE  HandlersInv'
    BY <2>2, <2>9 DEF RegisterBackend, RouteCollection
  <2> QED
    BY <1>1, <2>1, <2>4, <2>5, <2>6, <2>7, <2>8, <2>9, SubscribeStarts, SubscribesOn,
       Tracks, UnsubscribeStarts, UnsubscribesFrom
    DEF OrchestratorNext
<1>2. CASE UNCHANGED orchestratorVars
  BY <1>2
  DEF orchestratorVars, HandlersInv, OrchestratorTypeOK, IdsInv, HandlersKnown, Subscribing
<1> QED
  BY <1>1, <1>2

(* HandlersTracked: every handler on a backend belongs to a subscription   *)
(* that can be found, or to a call under way, even across Close.           *)
THEOREM HandlersTheorem == OrchestratorSpec => []HandlersTracked
<1>1. HandlersInv => HandlersTracked
  BY DEF HandlersInv, HandlersKnown, HandlersTracked
<1> QED
  BY <1>1, OrchestratorInitially, HandlersStep, PTL DEF OrchestratorSpec

=============================================================================
