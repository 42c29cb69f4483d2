------------------------------- MODULE Events ------------------------------
(***************************************************************************)
(* The events of collection operations: eventsCollection, EventEmitter,    *)
(* the queue of deferred actions and the adapter of the go-events bus,     *)
(* with one transaction some of the operations run in.                     *)
(*                                                                         *)
(* An operation emits its start event, runs, and emits success or failure; *)
(* inside a transaction the success of a write waits, in a queue of the    *)
(* operation's own, for the commit, while Read, which goes to the emitter  *)
(* without a queue, emits it at once.  Every event is published under its  *)
(* type and under "*", and once more with the type "*" itself.             *)
(***************************************************************************)
EXTENDS Sequences, Naturals, FiniteSets

CONSTANTS
  Operations,      \* the calls of collection operations
  OpKind,          \* OpKind[o]: create, read, update or delete
  InTransaction,   \* the operations made in the transaction
  Subscribers,     \* the subscriptions
  Pattern          \* Pattern[s]: the types its pattern stands for, and
                   \* whether it is the plain name of one ("*" is none)

ASSUME InTransactionAssumption == InTransaction \subseteq Operations

(* The operations whose success waits for the commit.                      *)
Deferring == {o \in InTransaction : OpKind[o] # "read"}

Stages == {"start", "success", "failed"}
AnyType == <<"*", "*">>
EventTypes ==
  {<<OpKind[o], st>> : o \in Operations, st \in Stages} \union {AnyType}

ASSUME PatternAssumption ==
  /\ Pattern \in [Subscribers -> [exact : BOOLEAN, types : SUBSET EventTypes]]
  /\ \A s \in Subscribers :
       Pattern[s].exact => \E t \in EventTypes \ {AnyType} : Pattern[s].types = {t}

VARIABLES
  stage,       \* stage[o]: how far operation o is
  deferred,    \* deferred[o]: the actions in o's queue
  hooks,       \* the operations whose hooks the transaction has yet to run
  txStatus,    \* the transaction
  delivered    \* delivered[<<s, o, type>>]: how often the handler of s has
               \* been called with an event, of those it was called with

eventVars == <<stage, deferred, hooks, txStatus, delivered>>

EventsInit ==
  /\ stage = [o \in Operations |-> "none"]
  /\ deferred = [o \in Operations |-> <<>>]
  /\ hooks = <<>>
  /\ txStatus = "open"
  /\ delivered = [told \in {} |-> 0]

----------------------------------------------------------------------------
(* Emission and delivery.                                                  *)

Publication(o, type, topic) == [op |-> o, type |-> type, topic |-> topic]

(* EmitEvent publishes an event under its type and under "*".              *)
EmitEvent(o, type) == <<Publication(o, type, type), Publication(o, type, AnyType)>>

(* Mutant: the type is added a second time instead of "*".                 *)
EmittedTwice(o, s) ==
  EmitEvent(o, <<OpKind[o], s>>) \o EmitEvent(o, <<OpKind[o], s>>)

(* ensureWildcard adds "*" to the types an operation emits.                *)
Emitted(o, s) == EmitEvent(o, <<OpKind[o], s>>) \o EmitEvent(o, AnyType)

(* A pattern subscribes to "*" and filters, a name to its own topic.       *)
Topic(s) ==
  IF Pattern[s].exact THEN CHOOSE t \in Pattern[s].types : TRUE ELSE AnyType

(* The type a filter finds in its context.  The adapter's Emit drops the   *)
(* context the emitter has put it in: the handler runs in the bus's own.   *)
NoType == <<"", "">>
ContextType(p) == NoType

FilterPasses(s, p) ==
  \/ Pattern[s].exact
  \/ ContextType(p) = NoType
  \/ ContextType(p) \in Pattern[s].types

(* The publications that reach the handler of s with the event e.          *)
Reaching(publications, s, e) ==
  {i \in DOMAIN publications :
     LET p == publications[i]
     IN  <<p.op, p.type>> = e /\ p.topic = Topic(s) /\ FilterPasses(s, p)}

(* How often s has been told of o under a type.                            *)
Told(s, o, type) ==
  IF <<s, o, type>> \in DOMAIN delivered THEN delivered[<<s, o, type>>] ELSE 0

ThenTold(publications, s, o, type) ==
  Told(s, o, type) + Cardinality(Reaching(publications, s, <<o, type>>))

Deliver(publications) ==
  delivered' =
    [e \in {f \in Subscribers \X Operations \X EventTypes :
              ThenTold(publications, f[1], f[2], f[3]) # 0} |->
       ThenTold(publications, e[1], e[2], e[3])]

----------------------------------------------------------------------------
(* The operations.                                                         *)

(* A write's hooks are registered, and the start emitted, whatever follows.*)
StartOperation(o) ==
  /\ stage[o] = "none"
  /\ o \in InTransaction => txStatus = "open"
  /\ stage' = [stage EXCEPT ![o] = "running"]
  /\ hooks' = IF o \in Deferring THEN Append(hooks, o) ELSE hooks
  /\ Deliver(Emitted(o, "start"))
  /\ UNCHANGED <<deferred, txStatus>>

OperationFails(o) ==
  /\ stage[o] = "running"
  /\ stage' = [stage EXCEPT ![o] = "failed"]
  /\ Deliver(Emitted(o, "failed"))
  /\ UNCHANGED <<deferred, hooks, txStatus>>

Hooked(o) == \E i \in DOMAIN hooks : hooks[i] = o

(* Mutant: the success of a write is emitted at once too.                  *)
OperationSucceedsAtOnce(o) ==
  /\ stage[o] = "running"
  /\ stage' = [stage EXCEPT ![o] = "succeeded"]
  /\ Deliver(Emitted(o, "success"))
  /\ UNCHANGED <<deferred, hooks, txStatus>>

(* A write that returns after its hook has run adds its success to a  *)
(* queue nobody empties any more.                                          *)
OperationSucceeds(o) ==
  /\ stage[o] = "running"
  /\ stage' = [stage EXCEPT ![o] =
       IF o \in Deferring /\ ~Hooked(o) THEN "late" ELSE "succeeded"]
  /\ IF o \in Deferring
     THEN /\ deferred' = [deferred EXCEPT ![o] = @ \o Emitted(o, "success")]
          /\ UNCHANGED delivered
     ELSE /\ Deliver(Emitted(o, "success"))
          /\ UNCHANGED deferred
  /\ UNCHANGED <<hooks, txStatus>>

----------------------------------------------------------------------------
(* The transaction: its hooks run, in their order, once it is over.        *)

TransactionEnds ==
  /\ txStatus = "open"
  /\ txStatus' \in {"committed", "rolled back"}
  /\ UNCHANGED <<stage, deferred, hooks, delivered>>

RunHook ==
  /\ txStatus # "open"
  /\ hooks # <<>>
  /\ hooks' = Tail(hooks)
  /\ deferred' = [deferred EXCEPT ![Head(hooks)] = <<>>]
  /\ IF txStatus = "committed" THEN Deliver(deferred[Head(hooks)])
     ELSE UNCHANGED delivered
  /\ UNCHANGED <<stage, txStatus>>

EventsNext ==
  \/ \E o \in Operations :
       StartOperation(o) \/ OperationFails(o) \/ OperationSucceeds(o)
  \/ TransactionEnds
  \/ RunHook

EventsSpec == EventsInit /\ [][EventsNext]_eventVars

----------------------------------------------------------------------------
(* Properties.                                                             *)

Expected(o, type) ==
  CASE type[2] = "start" -> stage[o] # "none"
    [] type[2] = "failed" -> stage[o] = "failed"
    [] type[2] = "success" ->
         /\ stage[o] = "succeeded"
         /\ o \in Deferring => txStatus = "committed"

(* Whoever has subscribed to a type by its name is told of each operation  *)
(* exactly once per stage it has reached: of a write's success in the      *)
(* transaction after the commit and never without one, of a read's at once *)
(* and whatever becomes of the transaction, whatever has run beside them.  *)
ToldExactlyOnce ==
  \A s \in Subscribers : Pattern[s].exact =>
    \A o \in Operations, type \in Pattern[s].types :
      IF type[1] = OpKind[o] /\ Expected(o, type)
      THEN \/ Told(s, o, type) = 1
           \/ type[2] = "success" /\ Told(s, o, type) = 0 /\ Hooked(o)
      ELSE Told(s, o, type) = 0

=============================================================================
