---------------------------- MODULE Transaction ----------------------------
(***************************************************************************)
(* transaction.Execute on a fresh interactor: the coordinator that starts  *)
(* the database transaction, runs the callback, waits for every operation  *)
(* registered with AddOperation, finalizes once, and runs the hooks of one *)
(* side.  Operations run in the callback's goroutine (nested Execute), in  *)
(* goroutines started by Persistence.Async, or in goroutines the callback  *)
(* started by itself; they share tx.pending, tx.errChan, the hook lists    *)
(* and the interactor.                                                     *)
(***************************************************************************)
EXTENDS NativeTransaction, Naturals, FiniteSets

CONSTANTS
  Root,            \* the callback itself, as the parent of operations
  Kinds,           \* the kinds of operations this instance's callback uses
  SchemaFailures   \* whether an operation may be a CreateCollection that fails

(***************************************************************************)
(* The kinds of operations.                                                *)
(*   "nested"  a collection write with the transaction in its context: the *)
(*             events wrapper registers hooks, the nested Execute registers*)
(*             an operation; its caller waits for it.                      *)
(*   "async"   the body given to Persistence.Async: registered by the      *)
(*             caller's goroutine, run in its own, writing only through    *)
(*             nested operations.                                          *)
(*   "stray"   a nested operation run by a goroutine the callback started  *)
(*             with a plain go statement: nobody waits for it to register. *)
(*   "foreign" a write through the transactional interactor with a context *)
(*             that does not carry the transaction: the unmanaged Execute, *)
(*             whose own hooks and errors never reach this coordinator.    *)
(***************************************************************************)
AllKinds == {"nested", "async", "stray", "foreign"}

ASSUME OpsAssumption == IsFiniteSet(Ops) /\ Root \notin Ops
ASSUME KindsAssumption == Kinds \subseteq AllKinds
ASSUME SchemaFailuresAssumption == SchemaFailures \in BOOLEAN

VARIABLES
  pc,            \* where Execute stands
  st,            \* st[o]: where operation o stands
  kind,          \* kind[o]: o's kind, "none" before it starts
  parent,        \* parent[o]: who started o
  counted,       \* the operations AddOperation counted
  failed,        \* the operations that ended with an error
  pending,       \* tx.pending
  gen,           \* generation of tx.changed: closing it makes a new one
  seen,          \* the generation WaitForOperations blocks on
  errChan,       \* tx.errChan holds an error
  errOnce,       \* tx.errOnce has fired
  finalized,     \* tx.committed
  commitHooks,   \* tx.onCommitHooks, by the operation that registered them
  rollbackHooks, \* tx.onRollbackHooks
  commitRan,     \* the operations whose commit hook has run
  rollbackRan,   \* the operations whose rollback hook has run
  cbErr,         \* the callback returned an error
  opErr,         \* WaitForOperations returned an error
  result         \* what Execute returned: "none" while it runs, "ok", "error"

opVars == <<st, kind, parent, counted, failed>>
waitVars == <<pending, gen, seen, errChan, errOnce>>
hookVars == <<commitHooks, rollbackHooks, commitRan, rollbackRan>>
exeVars == <<pc, finalized, cbErr, opErr, result>>
vars == <<dbVars, opVars, waitVars, hookVars, exeVars>>

PCs == {"idle", "callback", "wait", "blocked", "decide", "rollback",
        "commitHooks", "rollbackHooks", "done"}
OpStates == {"idle", "spawned", "hooked", "running", "worked", "reported", "done"}

TypeOK ==
  /\ DbTypeOK
  /\ pc \in PCs
  /\ st \in [Ops -> OpStates]
  /\ kind \in [Ops -> Kinds \union {"none"}]
  /\ parent \in [Ops -> Ops \union {Root}]
  /\ counted \subseteq Ops
  /\ failed \subseteq Ops
  /\ pending \in Nat
  /\ gen \in Nat
  /\ seen \in Nat
  /\ errChan \in BOOLEAN
  /\ errOnce \in BOOLEAN
  /\ finalized \in BOOLEAN
  /\ commitHooks \subseteq Ops
  /\ rollbackHooks \subseteq Ops
  /\ commitRan \subseteq Ops
  /\ rollbackRan \subseteq Ops
  /\ cbErr \in BOOLEAN
  /\ opErr \in BOOLEAN
  /\ result \in {"none", "ok", "error"}

Init ==
  /\ DbInit
  /\ pc = "idle"
  /\ st = [o \in Ops |-> "idle"]
  /\ kind = [o \in Ops |-> "none"]
  /\ parent = [o \in Ops |-> Root]
  /\ counted = {}
  /\ failed = {}
  /\ pending = 0
  /\ gen = 0
  /\ seen = 0
  /\ errChan = FALSE
  /\ errOnce = FALSE
  /\ finalized = FALSE
  /\ commitHooks = {}
  /\ rollbackHooks = {}
  /\ commitRan = {}
  /\ rollbackRan = {}
  /\ cbErr = FALSE
  /\ opErr = FALSE
  /\ result = "none"

-----------------------------------------------------------------------------
(* Operations.                                                             *)

(* p's goroutine is inside a call to one of its operations.                *)
Blocked(p) ==
  \E o \in Ops : /\ kind[o] \in {"nested", "foreign"}
                 /\ parent[o] = p
                 /\ st[o] # "done"

(* p's code is executing and may start another operation.                  *)
CanCall(p) ==
  /\ IF p = Root THEN pc = "callback"
                 ELSE kind[p] = "async" /\ st[p] = "running"
  /\ ~Blocked(p)

(* AddOperation: counts o unless the transaction is finalized, in which    *)
(* case the caller gets a clean-up that does nothing and goes on.          *)
AddOperation(o) ==
  IF finalized
  THEN UNCHANGED <<pending, counted>>
  ELSE /\ pending' = pending + 1
       /\ counted' = counted \union {o}

(* Mutant: Async registers in its goroutine instead of its caller's.       *)
StartOpUnregistered(o, p, k) ==
  /\ st[o] = "idle"
  /\ CanCall(p)
  /\ kind' = [kind EXCEPT ![o] = k]
  /\ parent' = [parent EXCEPT ![o] = p]
  /\ st' = [st EXCEPT ![o] = IF k = "async" THEN "hooked" ELSE "spawned"]
  /\ UNCHANGED <<dbVars, counted, failed, waitVars, hookVars, exeVars>>

(* Start an operation of kind k.  Async registers before its goroutine     *)
(* exists; the others do so later, by themselves.                          *)
StartOp(o, p, k) ==
  /\ st[o] = "idle"
  /\ CanCall(p)
  /\ kind' = [kind EXCEPT ![o] = k]
  /\ parent' = [parent EXCEPT ![o] = p]
  /\ IF k = "async"
     THEN /\ AddOperation(o)
          /\ st' = [st EXCEPT ![o] = "running"]
     ELSE /\ UNCHANGED <<pending, counted>>
          /\ st' = [st EXCEPT ![o] = "spawned"]
  /\ UNCHANGED <<dbVars, failed, gen, seen, errChan, errOnce, hookVars, exeVars>>

(* withEventEmission finds the transaction in the context and registers a  *)
(* commit hook and a rollback hook.  Whether they will ever run is not     *)
(* checked: OnCommit and OnRollback only append.                           *)
RegisterHooks(o) ==
  /\ st[o] = "spawned"
  /\ kind[o] \in {"nested", "stray"}
  /\ st' = [st EXCEPT ![o] = "hooked"]
  /\ commitHooks' = commitHooks \union {o}
  /\ rollbackHooks' = rollbackHooks \union {o}
  /\ UNCHANGED <<dbVars, kind, parent, counted, failed, waitVars, commitRan,
                 rollbackRan, exeVars>>

(* The nested Execute joins the transaction.                               *)
JoinTransaction(o) ==
  /\ st[o] = "hooked"
  /\ AddOperation(o)
  /\ st' = [st EXCEPT ![o] = "running"]
  /\ UNCHANGED <<dbVars, kind, parent, failed, gen, seen, errChan, errOnce,
                 hookVars, exeVars>>

(* The unmanaged Execute: no transaction in the context, but the           *)
(* interactor has one, so it neither starts nor finishes anything.         *)
EnterUnmanaged(o) ==
  /\ st[o] = "spawned"
  /\ kind[o] = "foreign"
  /\ st' = [st EXCEPT ![o] = "running"]
  /\ UNCHANGED <<dbVars, kind, parent, counted, failed, waitVars, hookVars, exeVars>>

(* The operation's own work.  An async body makes no statement of its own  *)
(* and chooses its error; a foreign write's context is not the cancelled   *)
(* one; any statement may fail.                                            *)
Work(o) ==
  /\ st[o] = "running"
  /\ ~Blocked(o)
  /\ st' = [st EXCEPT ![o] = "worked"]
  /\ \/ /\ kind[o] # "async"
        /\ WriteSucceeds(o, kind[o] = "foreign" \/ ~cancelled)
        /\ UNCHANGED failed
     \/ /\ kind[o] = "async"
        /\ UNCHANGED <<dbVars, failed>>
     \/ /\ failed' = failed \union {o}
        /\ UNCHANGED dbVars
     \/ /\ SchemaFailures
        /\ kind[o] # "async"
        /\ failed' = failed \union {o}
        /\ CreateCollectionFails
  /\ UNCHANGED <<kind, parent, counted, waitVars, hookVars, exeVars>>

(* The first half of the clean-up: the first error ever reported goes to   *)
(* errChan.                                                                *)
ReportError(o) ==
  /\ st[o] = "worked"
  /\ st' = [st EXCEPT ![o] = "reported"]
  /\ IF o \in counted /\ o \in failed /\ ~errOnce
     THEN errOnce' = TRUE /\ errChan' = TRUE
     ELSE UNCHANGED <<errOnce, errChan>>
  /\ UNCHANGED <<dbVars, kind, parent, counted, failed, pending, gen, seen,
                 hookVars, exeVars>>

(* Mutant: every clean-up decrements, that of a late operation too.        *)
FinishOpUncounted(o) ==
  /\ st[o] = "reported"
  /\ st' = [st EXCEPT ![o] = "done"]
  /\ pending' = pending - 1
  /\ gen' = IF pending = 1 THEN gen + 1 ELSE gen
  /\ UNCHANGED <<dbVars, kind, parent, counted, failed, seen, errChan, errOnce,
                 hookVars, exeVars>>

(* Mutant: tx.changed is not closed when the count reaches zero.           *)
FinishOpSilent(o) ==
  /\ st[o] = "reported"
  /\ st' = [st EXCEPT ![o] = "done"]
  /\ IF o \in counted THEN pending' = pending - 1 ELSE UNCHANGED pending
  /\ UNCHANGED <<dbVars, kind, parent, counted, failed, gen, seen, errChan,
                 errOnce, hookVars, exeVars>>

(* The second half: the count goes down, and at zero tx.changed is closed  *)
(* and replaced.                                                           *)
FinishOp(o) ==
  /\ st[o] = "reported"
  /\ st' = [st EXCEPT ![o] = "done"]
  /\ IF o \in counted
     THEN /\ pending' = pending - 1
          /\ gen' = IF pending = 1 THEN gen + 1 ELSE gen
     ELSE UNCHANGED <<pending, gen>>
  /\ UNCHANGED <<dbVars, kind, parent, counted, failed, seen, errChan, errOnce,
                 hookVars, exeVars>>

-----------------------------------------------------------------------------
(* Execute.                                                                *)

Begin ==
  /\ pc = "idle"
  /\ \/ /\ StartTransaction
        /\ pc' = "callback"
        /\ UNCHANGED result
     \/ /\ pc' = "done"
        /\ result' = "error"
        /\ UNCHANGED dbVars
  /\ UNCHANGED <<opVars, waitVars, hookVars, finalized, cbErr, opErr>>

CallbackReturns ==
  /\ pc = "callback"
  /\ ~Blocked(Root)
  /\ cbErr' \in BOOLEAN
  /\ pc' = "wait"
  /\ UNCHANGED <<dbVars, opVars, waitVars, hookVars, finalized, opErr, result>>

(* WaitForOperations reads pending and changed under the lock; with        *)
(* nothing pending it takes the error.                                     *)
WaitChecks ==
  /\ pc = "wait"
  /\ IF pending = 0
     THEN /\ pc' = "decide"
          /\ opErr' = errChan
          /\ errChan' = FALSE
          /\ UNCHANGED seen
     ELSE /\ pc' = "blocked"
          /\ seen' = gen
          /\ UNCHANGED <<opErr, errChan>>
  /\ UNCHANGED <<dbVars, opVars, pending, gen, errOnce, hookVars, finalized,
                 cbErr, result>>

(* Mutant: a closed channel is taken for "all done, no error".             *)
WaitWakesOnce ==
  /\ pc = "blocked"
  /\ gen # seen
  /\ pc' = "decide"
  /\ UNCHANGED <<dbVars, opVars, waitVars, hookVars, finalized, cbErr, opErr, result>>

(* The channel it holds has been closed: look again.                       *)
WaitWakes ==
  /\ pc = "blocked"
  /\ gen # seen
  /\ pc' = "wait"
  /\ UNCHANGED <<dbVars, opVars, waitVars, hookVars, finalized, cbErr, opErr, result>>

(* Mutant: the deadline only counts once the operations are through.       *)
WaitTimesOutLate ==
  /\ pc = "blocked"
  /\ cancelled
  /\ pending = 0
  /\ pc' = "decide"
  /\ opErr' = TRUE
  /\ UNCHANGED <<dbVars, opVars, waitVars, hookVars, finalized, cbErr, result>>

(* ctx.Done while operations are still running.                            *)
WaitTimesOut ==
  /\ pc = "blocked"
  /\ cancelled
  /\ pc' = "decide"
  /\ opErr' = TRUE
  /\ UNCHANGED <<dbVars, opVars, waitVars, hookVars, finalized, cbErr, result>>

(* Mutant: the hooks run whatever the interactor answered.                 *)
CommitTxUnconditional ==
  /\ pc = "decide"
  /\ ~cbErr
  /\ ~opErr
  /\ finalized' = TRUE
  /\ CommitSucceeds \/ CommitFails
  /\ pc' = "commitHooks"
  /\ UNCHANGED <<opVars, waitVars, hookVars, cbErr, opErr, result>>

(* No error: tx.Commit.  finalize sets committed whatever the interactor   *)
(* answers; a failed commit goes on to tx.Rollback.                        *)
CommitTx ==
  /\ pc = "decide"
  /\ ~cbErr
  /\ ~opErr
  /\ finalized' = TRUE
  /\ \/ CommitSucceeds /\ pc' = "commitHooks"
     \/ CommitFails /\ pc' = "rollback"
  /\ UNCHANGED <<opVars, waitVars, hookVars, cbErr, opErr, result>>

(* tx.Rollback, for an error or after a failed commit: the second          *)
(* finalization does not reach the interactor, but Rollback runs its       *)
(* hooks either way.                                                       *)
RollbackTx ==
  /\ \/ pc = "rollback"
     \/ pc = "decide" /\ (cbErr \/ opErr)
  /\ IF finalized THEN UNCHANGED dbVars ELSE Rollback
  /\ finalized' = TRUE
  /\ pc' = "rollbackHooks"
  /\ UNCHANGED <<opVars, waitVars, hookVars, cbErr, opErr, result>>

(* runHooks takes both lists and runs one of them.                         *)
RunCommitHooks ==
  /\ pc = "commitHooks"
  /\ commitRan' = commitRan \union commitHooks
  /\ commitHooks' = {}
  /\ rollbackHooks' = {}
  /\ pc' = "done"
  /\ result' = "ok"
  /\ UNCHANGED <<dbVars, opVars, waitVars, rollbackRan, finalized, cbErr, opErr>>

(* Mutant: Rollback skips its hooks, as Commit does, when finalize failed. *)
RunRollbackHooksIfRolledBack ==
  /\ pc = "rollbackHooks"
  /\ rollbackRan' = IF cbErr \/ opErr THEN rollbackRan \union rollbackHooks
                                      ELSE rollbackRan
  /\ commitHooks' = {}
  /\ rollbackHooks' = {}
  /\ pc' = "done"
  /\ result' = "error"
  /\ UNCHANGED <<dbVars, opVars, waitVars, commitRan, finalized, cbErr, opErr>>

RunRollbackHooks ==
  /\ pc = "rollbackHooks"
  /\ rollbackRan' = rollbackRan \union rollbackHooks
  /\ commitHooks' = {}
  /\ rollbackHooks' = {}
  /\ pc' = "done"
  /\ result' = "error"
  /\ UNCHANGED <<dbVars, opVars, waitVars, commitRan, finalized, cbErr, opErr>>

-----------------------------------------------------------------------------
(* The specification.                                                      *)

Session == /\ \/ ContextCancelled
              \/ WatcherTakesDone
              \/ WatcherRollsBack
              \/ SqlContextRollback
           /\ UNCHANGED <<opVars, waitVars, hookVars, exeVars>>

OpStep(o) == \/ RegisterHooks(o)
             \/ JoinTransaction(o)
             \/ EnterUnmanaged(o)
             \/ Work(o)
             \/ ReportError(o)
             \/ FinishOp(o)

ExecuteStep == \/ Begin
               \/ CallbackReturns
               \/ WaitChecks
               \/ WaitWakes
               \/ WaitTimesOut
               \/ CommitTx
               \/ RollbackTx
               \/ RunCommitHooks
               \/ RunRollbackHooks

Next ==
  \/ Session
  \/ ExecuteStep
  \/ \E o \in Ops : OpStep(o)
  \/ \E o \in Ops, p \in Ops \union {Root}, k \in Kinds : StartOp(o, p, k)

Spec == Init /\ [][Next]_vars

(* Execute's own goroutine always runs on, and so does every operation:    *)
(* database calls and user functions return.                               *)
FairExecute == WF_vars(ExecuteStep)
FairOps == \A o \in Ops : WF_vars(OpStep(o))

(* The operations get no fairness from the specification, they may hang;   *)
(* the properties that need them to end say so.                            *)
FairSpec == Spec /\ FairExecute

-----------------------------------------------------------------------------
(* Properties.                                                             *)

Started(o) == st[o] # "idle"

(* The callback keeps to the API: every operation goes through the context *)
(* it was given or through Async, and no CreateCollection fails.           *)
Disciplined == Kinds \subseteq {"nested", "async"} /\ ~SchemaFailures

(* The hooks of at most one side ever run, and it is the side of the       *)
(* database's outcome: no commit hook (a success event) before or without  *)
(* the commit, no rollback hook for a transaction that is or will be       *)
(* committed - whoever wins done, whatever the callback does.              *)
HooksMatchOutcome ==
  /\ commitRan # {} => sqlTx = "committed" /\ rollbackRan = {}
  /\ rollbackRan # {} => sqlTx # "committed" /\ Done

(* Execute returns no error only if the database committed, and an error   *)
(* only if it has not and never will (done is taken).                      *)
ResultTruthful ==
  /\ result = "ok" => sqlTx = "committed"
  /\ result = "error" => sqlTx = "none" \/ (sqlTx # "committed" /\ Done)

(* tx.pending is the number of operations that AddOperation counted and    *)
(* whose clean-up has not finished: late operations, whose clean-up does   *)
(* nothing, leave no trace in it.                                          *)
PendingIsAccurate ==
  pending = Cardinality({o \in counted : st[o] # "done"})

(* A commit covers everything: when the database commits, every operation  *)
(* of the callback has run to its end without an error, and all their      *)
(* writes are durable, none left in flight.                                *)
CommitIsComplete ==
  sqlTx = "committed" =>
    /\ \A o \in Ops : Started(o) => st[o] = "done" /\ o \notin failed
    /\ durable = {o \in Ops : kind[o] = "nested"}

(* If Execute returns an error none of the callback's writes is in the     *)
(* database, nor gets there later from an operation still running (the     *)
(* comments of Collection.Transact and of Persistence.Transact).           *)
RollbackLeavesNothing == result = "error" => durable = {}

(* The hooks of every operation that registered them run, on one side:     *)
(* after a commit always, after an error unless the wait was cut short.    *)
HooksComplete ==
  \A o \in Ops :
    kind[o] = "nested" /\ st[o] \notin {"idle", "spawned"} =>
      /\ result = "ok" => o \in commitRan
      /\ result = "error" /\ ~cancelled => o \in rollbackRan

(* WaitForOperations loses no wake-up: if every operation ends, Execute    *)
(* returns.                                                                *)
Terminates == FairOps => ((pc = "callback") ~> (pc = "done"))

(* Cancelling the context releases Execute even if operations hang.        *)
CancelReleasesWait ==
  (pc \in {"wait", "blocked"} /\ cancelled) ~> (pc = "done")

(* The abstract transaction.  It is aborted from the moment done is taken  *)
(* without a commit: nothing written into the sql.Tx after that counts.    *)
Outcome == IF sqlTx = "committed" THEN "committed"
           ELSE IF Done \/ sqlTx = "rolledback" THEN "aborted"
           ELSE "active"

Atomic == INSTANCE AtomicTransaction WITH
            outcome <- Outcome,
            active  <- {o \in counted : st[o] # "done"},
            joined  <- counted,
            doomed  <- counted \intersect failed # {},
            staged  <- IF Outcome = "active" THEN buffered ELSE {},
            visible <- durable,
            reply   <- IF sqlTx = "none" THEN "none" ELSE result

AtomicSpec == Atomic!Spec

=============================================================================
