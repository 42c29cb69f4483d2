------------------------- MODULE TransactionProofs -------------------------
(***************************************************************************)
(* Proofs about Transaction, for any finite set of operations.             *)
(***************************************************************************)
EXTENDS Transaction, FiniteSetTheorems, TLAPS

Unfinished == {o \in counted : st[o] # "done"}

(* An operation is counted no earlier than its registration.               *)
CountedAreRunning ==
  \A o \in counted : st[o] \in {"running", "worked", "reported", "done"}

(* TypeOK is not inductive by itself: that pending never goes below zero   *)
(* rests on its being the number of unfinished counted operations.         *)
CountInv == TypeOK /\ CountedAreRunning /\ PendingIsAccurate

LEMMA UnfinishedFinite ==
  ASSUME counted \subseteq Ops
  PROVE  IsFiniteSet(Unfinished) /\ Cardinality(Unfinished) \in Nat
  BY OpsAssumption, FS_Subset, FS_CardinalityType DEF Unfinished

(* Cleaning up an unfinished operation takes exactly one from the count.   *)
LEMMA CountDown ==
  ASSUME CountInv, NEW o \in counted, st[o] # "done",
         counted' = counted, st' = [st EXCEPT ![o] = "done"]
  PROVE  /\ pending \in Nat \ {0}
         /\ Cardinality(Unfinished') = pending - 1
<1>1. o \in Unfinished /\ Unfinished' = Unfinished \ {o}
  BY DEF Unfinished, CountInv, TypeOK
<1>2. IsFiniteSet(Unfinished) /\ Cardinality(Unfinished) \in Nat
  BY UnfinishedFinite DEF CountInv, TypeOK
<1>3. Cardinality(Unfinished \ {o}) = Cardinality(Unfinished) - 1
  BY <1>1, <1>2, FS_RemoveElement
<1>4. Cardinality(Unfinished) # 0
  BY <1>1, <1>2, FS_EmptySet
<1> QED
  BY <1>1, <1>2, <1>3, <1>4 DEF CountInv, PendingIsAccurate, Unfinished

(* Registering an operation adds exactly one to the count.                 *)
LEMMA CountUp ==
  ASSUME CountInv, NEW o \in Ops, o \notin counted, NEW s \in OpStates \ {"done"},
         counted' = counted \union {o}, st' = [st EXCEPT ![o] = s]
  PROVE  Cardinality(Unfinished') = pending + 1
<1>1. o \notin Unfinished /\ Unfinished' = Unfinished \union {o}
  BY DEF Unfinished, CountInv, TypeOK, OpStates
<1>2. IsFiniteSet(Unfinished) /\ Cardinality(Unfinished) \in Nat
  BY UnfinishedFinite DEF CountInv, TypeOK
<1> QED
  BY <1>1, <1>2, FS_AddElement DEF CountInv, PendingIsAccurate, Unfinished

(* A step of an operation that neither registers nor finishes it.          *)
LEMMA CountSame ==
  ASSUME CountInv, NEW o \in Ops, st[o] # "done", NEW s \in OpStates \ {"done"},
         counted' = counted, pending' = pending, st' = [st EXCEPT ![o] = s]
  PROVE  PendingIsAccurate'
<1>1. Unfinished' = Unfinished
  BY DEF Unfinished, CountInv, TypeOK, OpStates
<1> QED
  BY <1>1 DEF CountInv, PendingIsAccurate, Unfinished

-----------------------------------------------------------------------------

LEMMA SessionTypes ==
  ASSUME TypeOK
  PROVE  /\ StartTransaction => DbTypeOK'
         /\ CommitSucceeds => DbTypeOK'
         /\ CommitFails => DbTypeOK'
         /\ Rollback => DbTypeOK'
         /\ Session => DbTypeOK'
         /\ UNCHANGED dbVars => DbTypeOK'
  BY DEF TypeOK, DbTypeOK, StartTransaction, CommitSucceeds, CommitFails, Rollback,
         Session, DiscardBuffer, ContextCancelled, WatcherTakesDone,
         WatcherRollsBack, SqlContextRollback, dbVars, Done

LEMMA WriteTypes ==
  ASSUME TypeOK, NEW o \in Ops, NEW live \in BOOLEAN, WriteSucceeds(o, live)
  PROVE  DbTypeOK'
  BY DEF TypeOK, DbTypeOK, WriteSucceeds

THEOREM CountInit == Init => CountInv
<1> SUFFICES ASSUME Init PROVE CountInv
  OBVIOUS
<1>1. TypeOK
  BY DEF Init, DbInit, TypeOK, DbTypeOK, PCs, OpStates
<1>2. CountedAreRunning
  BY DEF Init, CountedAreRunning
<1>3. {o \in counted : st[o] # "done"} = {}
  BY DEF Init
<1> QED
  BY <1>1, <1>2, <1>3, FS_EmptySet DEF CountInv, PendingIsAccurate, Init

LEMMA OpStepCounts ==
  ASSUME CountInv, NEW o \in Ops, OpStep(o)
  PROVE  CountInv'
<1> USE DEF CountInv
<1>1. CASE RegisterHooks(o)
  <2>1. TypeOK'
    BY <1>1, SessionTypes DEF RegisterHooks, TypeOK, opVars, waitVars, exeVars, OpStates
  <2>2. CountedAreRunning'
    BY <1>1 DEF RegisterHooks, CountedAreRunning, TypeOK
  <2>3. PendingIsAccurate'
    BY <1>1, CountSame DEF RegisterHooks, waitVars, OpStates
  <2> QED BY <2>1, <2>2, <2>3
<1>2. CASE JoinTransaction(o)
  <2>1. o \notin counted
    BY <1>2 DEF JoinTransaction, CountedAreRunning
  <2>2. TypeOK'
    BY <1>2, SessionTypes
    DEF JoinTransaction, AddOperation, TypeOK, hookVars, exeVars, OpStates
  <2>3. CountedAreRunning'
    BY <1>2 DEF JoinTransaction, AddOperation, CountedAreRunning, TypeOK
  <2>4. PendingIsAccurate'
    <3>1. CASE finalized
      BY <1>2, <3>1, CountSame DEF JoinTransaction, AddOperation, OpStates
    <3>2. CASE ~finalized
      <4>1. Cardinality(Unfinished') = pending + 1
        BY <1>2, <2>1, <3>2, CountUp DEF JoinTransaction, AddOperation, OpStates
      <4> QED
        BY <1>2, <3>2, <4>1
        DEF JoinTransaction, AddOperation, PendingIsAccurate, Unfinished
    <3> QED BY <3>1, <3>2
  <2> QED BY <2>2, <2>3, <2>4
<1>3. CASE EnterUnmanaged(o)
  <2>1. TypeOK'
    BY <1>3, SessionTypes
    DEF EnterUnmanaged, TypeOK, waitVars, hookVars, exeVars, OpStates
  <2>2. CountedAreRunning'
    BY <1>3 DEF EnterUnmanaged, CountedAreRunning, TypeOK
  <2>3. PendingIsAccurate'
    BY <1>3, CountSame DEF EnterUnmanaged, waitVars, OpStates
  <2> QED BY <2>1, <2>2, <2>3
<1>4. CASE Work(o)
  <2>1. DbTypeOK'
    <3>1. (kind[o] = "foreign" \/ ~cancelled) \in BOOLEAN
      OBVIOUS
    <3> QED
      BY <1>4, <3>1, SessionTypes, WriteTypes DEF Work, CreateCollectionFails, dbVars
  <2>2. TypeOK'
    BY <1>4, <2>1
    DEF Work, TypeOK, waitVars, hookVars, exeVars, OpStates
  <2>3. CountedAreRunning'
    BY <1>4 DEF Work, CountedAreRunning, TypeOK
  <2>4. PendingIsAccurate'
    BY <1>4, CountSame DEF Work, waitVars, OpStates
  <2> QED BY <2>2, <2>3, <2>4
<1>5. CASE ReportError(o)
  <2>1. TypeOK'
    BY <1>5, SessionTypes DEF ReportError, TypeOK, hookVars, exeVars, OpStates
  <2>2. CountedAreRunning'
    BY <1>5 DEF ReportError, CountedAreRunning, TypeOK
  <2>3. PendingIsAccurate'
    BY <1>5, CountSame DEF ReportError, OpStates
  <2> QED BY <2>1, <2>2, <2>3
<1>6. CASE FinishOp(o)
  <2>1. CASE o \in counted
    <3>1. pending \in Nat \ {0} /\ Cardinality(Unfinished') = pending - 1
      BY <1>6, <2>1, CountDown DEF FinishOp
    <3>2. pending' = pending - 1 /\ pending' \in Nat /\ gen' \in Nat
      BY <1>6, <2>1, <3>1 DEF FinishOp, TypeOK
    <3>3. TypeOK'
      BY <1>6, <3>2, SessionTypes DEF FinishOp, TypeOK, hookVars, exeVars, OpStates
    <3>4. CountedAreRunning'
      BY <1>6 DEF FinishOp, CountedAreRunning, TypeOK
    <3> QED
      BY <3>1, <3>2, <3>3, <3>4 DEF PendingIsAccurate, Unfinished
  <2>2. CASE o \notin counted
    <3>1. TypeOK'
      BY <1>6, <2>2, SessionTypes DEF FinishOp, TypeOK, hookVars, exeVars, OpStates
    <3>2. CountedAreRunning'
      BY <1>6 DEF FinishOp, CountedAreRunning, TypeOK
    <3>3. Unfinished' = Unfinished
      BY <1>6, <2>2 DEF FinishOp, Unfinished, TypeOK
    <3> QED
      BY <1>6, <2>2, <3>1, <3>2, <3>3 DEF FinishOp, PendingIsAccurate, Unfinished
  <2> QED BY <2>1, <2>2
<1> QED
  BY <1>1, <1>2, <1>3, <1>4, <1>5, <1>6 DEF OpStep

LEMMA StartOpCounts ==
  ASSUME CountInv, NEW o \in Ops, NEW p \in Ops \union {Root}, NEW k \in Kinds,
         StartOp(o, p, k)
  PROVE  CountInv'
<1> USE DEF CountInv
<1>1. o \notin counted
  BY DEF StartOp, CountedAreRunning
<1>2. TypeOK'
  BY SessionTypes DEF StartOp, AddOperation, TypeOK, hookVars, exeVars, OpStates
<1>3. CountedAreRunning'
  BY <1>1 DEF StartOp, AddOperation, CountedAreRunning, TypeOK
<1>4. PendingIsAccurate'
  <2>1. CASE k = "async" /\ ~finalized
    <3>1. Cardinality(Unfinished') = pending + 1
      BY <1>1, <2>1, CountUp DEF StartOp, AddOperation, OpStates
    <3> QED
      BY <2>1, <3>1 DEF StartOp, AddOperation, PendingIsAccurate, Unfinished
  <2>2. CASE ~(k = "async" /\ ~finalized)
    BY <2>2, CountSame DEF StartOp, AddOperation, OpStates
  <2> QED BY <2>1, <2>2
<1> QED BY <1>2, <1>3, <1>4

LEMMA ExecuteCounts ==
  ASSUME CountInv, ExecuteStep
  PROVE  CountInv'
<1> USE DEF CountInv
<1>1. pending' = pending /\ counted' = counted /\ st' = st
  BY DEF ExecuteStep, Begin, CallbackReturns, WaitChecks, WaitWakes, WaitTimesOut,
         CommitTx, RollbackTx, RunCommitHooks, RunRollbackHooks, opVars, waitVars
<1>2. CountedAreRunning' /\ PendingIsAccurate'
  BY <1>1 DEF CountedAreRunning, PendingIsAccurate
<1>3. TypeOK'
  <2> USE DEF TypeOK, opVars, waitVars, hookVars, PCs
  <2>1. CASE Begin BY <2>1, SessionTypes DEF Begin
  <2>2. CASE CallbackReturns BY <2>2, SessionTypes DEF CallbackReturns
  <2>3. CASE WaitChecks BY <2>3, SessionTypes DEF WaitChecks
  <2>4. CASE WaitWakes BY <2>4, SessionTypes DEF WaitWakes
  <2>5. CASE WaitTimesOut BY <2>5, SessionTypes DEF WaitTimesOut
  <2>6. CASE CommitTx BY <2>6, SessionTypes DEF CommitTx
  <2>7. CASE RollbackTx BY <2>7, SessionTypes DEF RollbackTx
  <2>8. CASE RunCommitHooks BY <2>8, SessionTypes DEF RunCommitHooks
  <2>9. CASE RunRollbackHooks BY <2>9, SessionTypes DEF RunRollbackHooks
  <2> QED
    BY <2>1, <2>2, <2>3, <2>4, <2>5, <2>6, <2>7, <2>8, <2>9 DEF ExecuteStep
<1> QED BY <1>2, <1>3

LEMMA SessionCounts ==
  ASSUME CountInv, Session \/ UNCHANGED vars
  PROVE  CountInv'
<1> USE DEF CountInv
<1>1. UNCHANGED <<opVars, waitVars, hookVars, exeVars>>
  BY DEF Session, vars
<1>2. DbTypeOK'
  BY SessionTypes DEF vars
<1> QED
  BY <1>1, <1>2 DEF TypeOK, CountedAreRunning, PendingIsAccurate, opVars, waitVars,
                    hookVars, exeVars

THEOREM CountStep == CountInv /\ [Next]_vars => CountInv'
  BY OpStepCounts, StartOpCounts, ExecuteCounts, SessionCounts DEF Next

(* tx.pending always is the number of counted operations still running, so *)
(* it is never negative and the wait ends exactly when they all ended.     *)
THEOREM PendingTheorem == Spec => [](TypeOK /\ PendingIsAccurate)
<1>1. CountInv => TypeOK /\ PendingIsAccurate
  BY DEF CountInv
<1> QED
  BY <1>1, CountInit, CountStep, PTL DEF Spec

-----------------------------------------------------------------------------
(* The outcome seen from Execute's program counter.  Before finalization   *)
(* nothing has run and nothing is committed; once past it done is taken,   *)
(* so the sql.Tx can no longer change its mind.                            *)
OutcomeInv ==
  /\ DbTypeOK
  /\ pc \in PCs
  /\ pc = "idle" => sqlTx = "none"
  /\ pc \in {"idle", "callback", "wait", "blocked", "decide"} =>
       /\ ~finalized
       /\ sqlTx # "committed"
       /\ commitRan = {}
       /\ rollbackRan = {}
       /\ result = "none"
  /\ pc \in {"rollback", "rollbackHooks", "commitHooks"} =>
       /\ finalized
       /\ Done
       /\ commitRan = {}
       /\ rollbackRan = {}
       /\ result = "none"
  /\ pc \in {"rollback", "rollbackHooks"} => sqlTx # "committed"
  /\ pc = "commitHooks" => sqlTx = "committed"
  /\ pc = "done" =>
       \/ result = "ok" /\ sqlTx = "committed" /\ rollbackRan = {}
       \/ result = "error" /\ sqlTx # "committed" /\ Done /\ commitRan = {}
       \/ result = "error" /\ sqlTx = "none" /\ commitRan = {} /\ rollbackRan = {}
  /\ sqlTx = "committed" => Done

THEOREM OutcomeInit == Init => OutcomeInv
  BY DEF Init, DbInit, OutcomeInv, DbTypeOK, PCs

(* Nothing but CommitSucceeds commits, and nothing takes done back.        *)
LEMMA OutcomeKept ==
  ASSUME OutcomeInv,
         DbTypeOK',
         sqlTx' = "committed" <=> sqlTx = "committed",
         sqlTx' = "none" <=> sqlTx = "none",
         Done => Done',
         UNCHANGED <<pc, finalized, commitRan, rollbackRan, result>>
  PROVE  OutcomeInv'
  BY DEF OutcomeInv

LEMMA OutcomeExecute ==
  ASSUME TypeOK, OutcomeInv, ExecuteStep
  PROVE  OutcomeInv'
<1>1. DbTypeOK'
  BY SessionTypes DEF ExecuteStep, Begin, CallbackReturns, WaitChecks, WaitWakes,
     WaitTimesOut, CommitTx, RollbackTx, RunCommitHooks, RunRollbackHooks
<1>2. CASE Begin
  BY <1>1, <1>2 DEF Begin, StartTransaction, OutcomeInv, PCs, hookVars, dbVars, Done
<1>3. CASE CallbackReturns
  BY <1>1, <1>3 DEF CallbackReturns, OutcomeInv, PCs, hookVars, dbVars, Done
<1>4. CASE WaitChecks
  BY <1>1, <1>4 DEF WaitChecks, OutcomeInv, PCs, hookVars, dbVars, Done
<1>5. CASE WaitWakes
  BY <1>1, <1>5 DEF WaitWakes, OutcomeInv, PCs, hookVars, dbVars, Done
<1>6. CASE WaitTimesOut
  BY <1>1, <1>6 DEF WaitTimesOut, OutcomeInv, PCs, hookVars, dbVars, Done
<1>7. CASE CommitTx
  <2>1. CASE CommitSucceeds /\ pc' = "commitHooks"
    BY <1>1, <1>7, <2>1 DEF CommitTx, CommitSucceeds, OutcomeInv, PCs, hookVars, Done
  <2>2. CASE CommitFails /\ pc' = "rollback"
    BY <1>1, <1>7, <2>2 DEF CommitTx, CommitFails, DiscardBuffer, OutcomeInv, PCs,
       hookVars, dbVars, Done
  <2> QED BY <1>7, <2>1, <2>2 DEF CommitTx
<1>8. CASE RollbackTx
  BY <1>1, <1>8 DEF RollbackTx, Rollback, DiscardBuffer, OutcomeInv, PCs, hookVars,
     dbVars, Done
<1>9. CASE RunCommitHooks
  BY <1>1, <1>9 DEF RunCommitHooks, OutcomeInv, PCs, dbVars, Done
<1>10. CASE RunRollbackHooks
  BY <1>1, <1>10 DEF RunRollbackHooks, OutcomeInv, PCs, dbVars, Done
<1> QED
  BY <1>2, <1>3, <1>4, <1>5, <1>6, <1>7, <1>8, <1>9, <1>10 DEF ExecuteStep

LEMMA OutcomeOps ==
  ASSUME TypeOK, TypeOK', OutcomeInv,
         NEW o \in Ops, OpStep(o)
  PROVE  OutcomeInv'
<1>1. DbTypeOK'
  BY DEF TypeOK
<1>2. UNCHANGED <<pc, finalized, commitRan, rollbackRan, result>>
  BY DEF OpStep, RegisterHooks, JoinTransaction, EnterUnmanaged, Work, ReportError,
         FinishOp, exeVars, hookVars
<1>3. /\ sqlTx' = "committed" <=> sqlTx = "committed"
      /\ sqlTx' = "none" <=> sqlTx = "none"
      /\ Done => Done'
  <2>1. CASE UNCHANGED dbVars
    BY <2>1 DEF dbVars, Done
  <2>2. CASE Work(o)
    BY <2>2 DEF Work, WriteSucceeds, CreateCollectionFails, Rollback, DiscardBuffer,
       dbVars, Done
  <2> QED
    BY <2>1, <2>2 DEF OpStep, RegisterHooks, JoinTransaction, EnterUnmanaged,
       ReportError, FinishOp
<1> QED BY <1>1, <1>2, <1>3, OutcomeKept

LEMMA OutcomeOthers ==
  ASSUME TypeOK, TypeOK', OutcomeInv,
         \/ Session
         \/ UNCHANGED vars
         \/ \E o \in Ops, p \in Ops \union {Root}, k \in Kinds : StartOp(o, p, k)
  PROVE  OutcomeInv'
<1>1. DbTypeOK'
  BY DEF TypeOK
<1>2. UNCHANGED <<pc, finalized, commitRan, rollbackRan, result>>
  BY DEF Session, StartOp, exeVars, hookVars, vars
<1>3. /\ sqlTx' = "committed" <=> sqlTx = "committed"
      /\ sqlTx' = "none" <=> sqlTx = "none"
      /\ Done => Done'
  <2>1. CASE UNCHANGED dbVars
    BY <2>1 DEF dbVars, Done
  <2>2. CASE Session
    BY <2>2 DEF Session, ContextCancelled, WatcherTakesDone, WatcherRollsBack,
       SqlContextRollback, DiscardBuffer, Done
  <2> QED BY <2>1, <2>2 DEF StartOp, vars
<1> QED BY <1>1, <1>2, <1>3, OutcomeKept

THEOREM OutcomeStep == TypeOK /\ TypeOK' /\ OutcomeInv /\ [Next]_vars => OutcomeInv'
  BY OutcomeExecute, OutcomeOps, OutcomeOthers DEF Next

LEMMA OutcomeImplies == OutcomeInv => HooksMatchOutcome /\ ResultTruthful
  BY DEF OutcomeInv, HooksMatchOutcome, ResultTruthful, PCs

(* Whatever the callback does, the hooks that run and the value Execute    *)
(* returns are those of what the database really did.                      *)
THEOREM OutcomeTheorem == Spec => [](HooksMatchOutcome /\ ResultTruthful)
<1>1. Spec => []TypeOK
  BY PendingTheorem, PTL
<1> QED
  BY <1>1, OutcomeInit, OutcomeStep, OutcomeImplies, PTL DEF Spec

-----------------------------------------------------------------------------
(* Atomicity of a disciplined callback.                                    *)

Late == pc \in {"decide", "rollback", "commitHooks", "rollbackHooks", "done"}
AllDone == \A o \in Ops : st[o] \in {"idle", "done"}

(* A nested operation runs inside its parent's goroutine.                  *)
TreeInv ==
  \A o \in Ops :
    /\ st[o] = "idle" <=> kind[o] = "none"
    /\ kind[o] = "async" => st[o] \notin {"spawned", "hooked"}
    /\ kind[o] = "nested" /\ st[o] # "done" =>
         IF parent[o] = Root
         THEN pc = "callback"
         ELSE kind[parent[o]] = "async" /\ st[parent[o]] = "running"

(* Until Execute finalizes, every operation under way is counted.          *)
RegisteredInv ==
  /\ finalized => Late
  /\ \A o \in Ops :
       st[o] \in {"running", "worked", "reported", "done"} =>
         o \in counted \/ finalized

(* The session: done is taken late or after a cancellation, and the        *)
(* executor loses its sql.Tx only then.                                    *)
SessionInv ==
  /\ sqlTx = "none" =>
       /\ pc \in {"idle", "done"}
       /\ \A o \in Ops : st[o] = "idle"
       /\ buffered = {} /\ durable = {}
  /\ sqlTx # "none" /\ ~exTx => finishing = "finished"
  /\ Done => Late \/ cancelled
  /\ Late /\ sqlTx # "none" => cancelled \/ AllDone

(* Where the writes are.                                                   *)
WritesInv ==
  /\ sqlTx # "committed" => durable = {}
  /\ sqlTx = "open" /\ ~Done =>
       buffered = {o \in Ops : /\ kind[o] = "nested"
                               /\ st[o] \in {"worked", "reported", "done"}
                               /\ o \notin failed}

(* No reported error is forgotten before Execute decides.                  *)
ErrorsInv ==
  /\ \A o \in failed : st[o] \in {"worked", "reported", "done"}
  /\ \A o \in failed \intersect counted : st[o] \in {"reported", "done"} => errOnce
  /\ errOnce => errChan \/ opErr
  /\ opErr => Late
  /\ pc = "decide" /\ ~opErr => AllDone /\ failed = {}

CommittedInv ==
  sqlTx = "committed" =>
    /\ AllDone
    /\ failed = {}
    /\ durable = {o \in Ops : kind[o] = "nested"}

AtomInv == /\ CountInv
           /\ OutcomeInv
           /\ TreeInv
           /\ RegisteredInv
           /\ SessionInv
           /\ WritesInv
           /\ ErrorsInv
           /\ CommittedInv

AtomParts == TreeInv /\ RegisteredInv /\ SessionInv /\ WritesInv /\ ErrorsInv
             /\ CommittedInv

(* An operation whose code is executing, or about to, rules out the late   *)
(* states, except those after a cancellation.                              *)
LEMMA BusyOp ==
  ASSUME AtomInv, NEW o \in Ops, st[o] \notin {"idle", "done"}
  PROVE  /\ sqlTx \in {"open", "rolledback"}
         /\ Late => cancelled
         /\ Done => cancelled
         /\ ~cancelled => exTx /\ ~finalized
  BY DEF AtomInv, OutcomeInv, DbTypeOK, SessionInv, CommittedInv, RegisteredInv,
         AllDone, Done

LEMMA AtomInit == Init => AtomParts
  BY DEF Init, DbInit, AtomParts, TreeInv, RegisteredInv, SessionInv, WritesInv,
         ErrorsInv, CommittedInv, AllDone, Late, Done

LEMMA AtomStart ==
  ASSUME Disciplined, AtomInv, NEW o \in Ops, NEW p \in Ops \union {Root},
         NEW k \in Kinds, StartOp(o, p, k)
  PROVE  AtomParts'
<1> USE DEF AtomInv, CountInv
<1>1. /\ k \in {"nested", "async"}
      /\ st[o] = "idle" /\ kind[o] = "none" /\ o \notin counted /\ o \notin failed
      /\ \E s \in {"running", "spawned"} : st' = [st EXCEPT ![o] = s]
      /\ kind' = [kind EXCEPT ![o] = k]
      /\ parent' = [parent EXCEPT ![o] = p]
      /\ UNCHANGED <<dbVars, failed, errOnce, errChan, exeVars>>
  BY DEF StartOp, Disciplined, TreeInv, CountedAreRunning, ErrorsInv
<1>2. p # o /\ st' \in [Ops -> OpStates] /\ kind' \in [Ops -> Kinds \union {"none"}]
  BY <1>1, OpsAssumption DEF StartOp, CanCall, TypeOK, OpStates
<1>3. sqlTx \in {"open", "rolledback"} /\ (Late => cancelled)
  <2>1. CASE p = Root
    BY <2>1 DEF StartOp, CanCall, SessionInv, OutcomeInv, DbTypeOK, Late
  <2>2. CASE p # Root
    BY <2>2, BusyOp DEF StartOp, CanCall
  <2> QED BY <2>1, <2>2
<1>4. TreeInv'
  <2>1. IF p = Root THEN pc = "callback" ELSE kind[p] = "async" /\ st[p] = "running"
    BY DEF StartOp, CanCall
  <2> SUFFICES ASSUME NEW q \in Ops
               PROVE (/\ st[q] = "idle" <=> kind[q] = "none"
                      /\ kind[q] = "async" => st[q] \notin {"spawned", "hooked"}
                      /\ kind[q] = "nested" /\ st[q] # "done" =>
                           IF parent[q] = Root
                           THEN pc = "callback"
                           ELSE kind[parent[q]] = "async" /\ st[parent[q]] = "running")'
    BY DEF TreeInv
  <2>2. CASE q = o
    BY <1>1, <1>2, <2>1, <2>2 DEF StartOp, TypeOK, exeVars
  <2>3. CASE q # o
    BY <1>1, <1>2, <2>3 DEF TreeInv, TypeOK, exeVars
  <2> QED BY <2>2, <2>3
<1>5. RegisteredInv'
  BY <1>1 DEF StartOp, AddOperation, RegisteredInv, TypeOK, Late, exeVars
<1>6. SessionInv'
  BY <1>1, <1>3 DEF SessionInv, Late, Done, dbVars, exeVars
<1>7. WritesInv'
  BY <1>1 DEF WritesInv, TypeOK, Done, dbVars
<1>8. ErrorsInv'
  <2>1. pc = "decide" => opErr
    BY <1>3, <1>1, OpsAssumption DEF StartOp, CanCall, ErrorsInv, AllDone
  <2>2. \A q \in failed' : st'[q] \in {"worked", "reported", "done"}
    BY <1>1 DEF ErrorsInv, TypeOK
  <2>3. \A q \in failed' \intersect counted' :
          st'[q] \in {"reported", "done"} => errOnce'
    BY <1>1 DEF StartOp, AddOperation, ErrorsInv, TypeOK
  <2> QED
    BY <1>1, <2>1, <2>2, <2>3 DEF ErrorsInv, Late, exeVars
<1>9. CommittedInv'
  BY <1>1, <1>3 DEF CommittedInv, dbVars
<1> QED BY <1>4, <1>5, <1>6, <1>7, <1>8, <1>9 DEF AtomParts

(* A step of an operation that writes nothing and does not finish it.      *)
LEMMA AtomQuietOp ==
  ASSUME AtomInv, NEW o \in Ops, st[o] \notin {"idle", "done"},
         NEW s \in OpStates \ {"idle"}, st' = [st EXCEPT ![o] = s],
         UNCHANGED <<dbVars, kind, parent, failed, exeVars, errChan>>,
         counted \subseteq counted', counted' \subseteq counted \union {o},
         kind[o] = "async" => s \notin {"spawned", "hooked"},
         s \in {"running", "worked", "reported", "done"} => o \in counted' \/ finalized,
         kind[o] = "async" /\ st[o] = "running" => s = "running" \/ ~Blocked(o),
         o \notin failed \/ (st[o] \in {"worked", "reported"} /\ s \in {"reported", "done"}),
         s \in {"worked", "reported", "done"}
           <=> st[o] \in {"worked", "reported"},
         errOnce' = errOnce
  PROVE  TreeInv' /\ RegisteredInv' /\ SessionInv' /\ WritesInv' /\ CommittedInv'
<1> USE DEF AtomInv, CountInv
<1>1. TreeInv'
  BY DEF TreeInv, TypeOK, exeVars, Blocked
<1>2. RegisteredInv'
  BY DEF RegisteredInv, TypeOK, Late, exeVars
<1>3. SessionInv'
  BY BusyOp DEF SessionInv, TypeOK, OutcomeInv, Late, Done, dbVars, exeVars
<1>4. WritesInv'
  BY DEF WritesInv, TypeOK, Done, dbVars
<1>5. CommittedInv'
  BY BusyOp DEF CommittedInv, dbVars
<1> QED BY <1>1, <1>2, <1>3, <1>4, <1>5

LEMMA AtomOp ==
  ASSUME Disciplined, AtomInv, NEW o \in Ops, OpStep(o)
  PROVE  AtomParts'
<1> USE DEF AtomInv, CountInv
<1>0. /\ st[o] \notin {"idle", "done"}
      /\ kind[o] \in {"nested", "async"}
      /\ pc = "decide" => opErr
  <2>1. st[o] \notin {"idle", "done"}
    BY DEF OpStep, RegisterHooks, JoinTransaction, EnterUnmanaged, Work, ReportError,
           FinishOp
  <2>2. kind[o] # "none"
    BY <2>1 DEF TreeInv
  <2>3. kind[o] \in {"nested", "async"}
    BY <2>2 DEF TypeOK, Disciplined
  <2>4. pc = "decide" => opErr
    BY <2>1 DEF ErrorsInv, AllDone
  <2> QED BY <2>1, <2>3, <2>4
<1>1. CASE RegisterHooks(o)
  <2>1. TreeInv' /\ RegisteredInv' /\ SessionInv' /\ WritesInv' /\ CommittedInv'
    <3>1. o \notin failed
      BY <1>1 DEF RegisterHooks, ErrorsInv
    <3> QED
      BY <1>0, <1>1, <3>1, AtomQuietOp DEF RegisterHooks, waitVars, OpStates
  <2>2. ErrorsInv'
    BY <1>0, <1>1 DEF RegisterHooks, ErrorsInv, TypeOK, waitVars, exeVars, Late
  <2> QED BY <2>1, <2>2 DEF AtomParts
<1>2. CASE JoinTransaction(o)
  <2>1. o \notin failed /\ o \notin counted
    BY <1>2 DEF JoinTransaction, ErrorsInv, CountedAreRunning
  <2>2. TreeInv' /\ RegisteredInv' /\ SessionInv' /\ WritesInv' /\ CommittedInv'
    BY <1>0, <1>2, <2>1, AtomQuietOp DEF JoinTransaction, AddOperation, OpStates
  <2>3. ErrorsInv'
    BY <1>0, <1>2, <2>1
    DEF JoinTransaction, AddOperation, ErrorsInv, TypeOK, exeVars, Late
  <2> QED BY <2>2, <2>3 DEF AtomParts
<1>3. CASE EnterUnmanaged(o)
  BY <1>0, <1>3 DEF EnterUnmanaged
<1>4. CASE Work(o)
  <2>1. /\ st' = [st EXCEPT ![o] = "worked"]
        /\ UNCHANGED <<kind, parent, counted, errOnce, errChan, exeVars>>
        /\ st[o] = "running" /\ ~Blocked(o) /\ o \notin failed
    BY <1>4 DEF Work, waitVars, ErrorsInv
  <2>2. TreeInv'
    BY <2>1 DEF TreeInv, TypeOK, exeVars, Blocked
  <2>3. RegisteredInv'
    BY <2>1 DEF RegisteredInv, TypeOK, Late, exeVars
  <2>4. CASE /\ kind[o] = "nested"
             /\ WriteSucceeds(o, ~cancelled)
             /\ UNCHANGED failed
    <3>1. /\ exTx /\ sqlTx = "open" /\ ~cancelled /\ ~Done
          /\ buffered' = buffered \union {o}
          /\ UNCHANGED <<durable, cancelled, finishing, exTx, sqlTx>>
      BY <1>0, <2>4, BusyOp DEF WriteSucceeds
    <3>2. SessionInv'
      BY <1>0, <2>1, <3>1, BusyOp DEF SessionInv, Done, Late, exeVars
    <3>3. WritesInv'
      BY <2>1, <2>4, <3>1 DEF WritesInv, TypeOK, Done
    <3>4. ErrorsInv'
      BY <1>0, <2>1, <2>4 DEF ErrorsInv, TypeOK, exeVars, Late
    <3>5. CommittedInv'
      BY <3>1 DEF CommittedInv
    <3> QED BY <2>2, <2>3, <3>2, <3>3, <3>4, <3>5 DEF AtomParts
  <2>5. CASE /\ UNCHANGED dbVars
             /\ \/ kind[o] = "async" /\ UNCHANGED failed
                \/ failed' = failed \union {o}
    <3>1. SessionInv'
      BY <1>0, <2>1, <2>5, BusyOp DEF SessionInv, TypeOK, Done, Late, exeVars, dbVars
    <3>2. WritesInv'
      BY <2>1, <2>5 DEF WritesInv, TypeOK, Done, dbVars
    <3>3. ErrorsInv'
      BY <1>0, <2>1, <2>5 DEF ErrorsInv, TypeOK, exeVars, Late
    <3>4. CommittedInv'
      BY <1>0, <2>5, BusyOp DEF CommittedInv, dbVars
    <3> QED BY <2>2, <2>3, <3>1, <3>2, <3>3, <3>4 DEF AtomParts
  <2> QED
    BY <1>0, <1>4, <2>4, <2>5 DEF Work, Disciplined
<1>5. CASE ReportError(o)
  <2>1. /\ st' = [st EXCEPT ![o] = "reported"] /\ st[o] = "worked"
        /\ UNCHANGED <<dbVars, kind, parent, counted, failed, exeVars>>
    BY <1>5 DEF ReportError
  <2>2. TreeInv' /\ RegisteredInv'
    BY <2>1 DEF TreeInv, RegisteredInv, TypeOK, Late, exeVars
  <2>3. SessionInv' /\ CommittedInv'
    BY <1>0, <2>1, BusyOp
    DEF SessionInv, CommittedInv, TypeOK, Done, Late, exeVars, dbVars
  <2>4. WritesInv'
    BY <2>1 DEF WritesInv, TypeOK, Done, dbVars
  <2>5. ErrorsInv'
    BY <1>0, <1>5, <2>1 DEF ReportError, ErrorsInv, TypeOK, exeVars, Late
  <2> QED BY <2>2, <2>3, <2>4, <2>5 DEF AtomParts
<1>6. CASE FinishOp(o)
  <2>1. /\ st' = [st EXCEPT ![o] = "done"] /\ st[o] = "reported"
        /\ UNCHANGED <<dbVars, kind, parent, counted, failed, errOnce, errChan, exeVars>>
    BY <1>6 DEF FinishOp
  <2>2. TreeInv' /\ RegisteredInv'
    BY <2>1 DEF TreeInv, RegisteredInv, TypeOK, Late, exeVars
  <2>3. SessionInv' /\ CommittedInv'
    BY <1>0, <2>1, BusyOp
    DEF SessionInv, CommittedInv, TypeOK, Done, Late, exeVars, dbVars
  <2>4. WritesInv'
    BY <2>1 DEF WritesInv, TypeOK, Done, dbVars
  <2>5. ErrorsInv'
    BY <1>0, <2>1 DEF ErrorsInv, TypeOK, exeVars, Late
  <2> QED BY <2>2, <2>3, <2>4, <2>5 DEF AtomParts
<1> QED
  BY <1>1, <1>2, <1>3, <1>4, <1>5, <1>6 DEF OpStep

(* With nothing pending when WaitForOperations looks, nothing is running:  *)
(* a nested operation that has not registered yet would have a caller that *)
(* is counted, or be the callback's own.                                   *)
LEMMA WaitOver ==
  ASSUME Disciplined, AtomInv, pc = "wait", pending = 0
  PROVE  AllDone /\ failed \subseteq counted
<1> USE DEF AtomInv, CountInv
<1>1. ~finalized
  BY DEF RegisteredInv, Late
<1>2. Unfinished = {}
  BY UnfinishedFinite, FS_EmptySet DEF PendingIsAccurate, Unfinished, TypeOK
<1>3. ASSUME NEW o \in Ops, st[o] \notin {"idle", "done"}
      PROVE  FALSE
  <2>1. o \notin counted
    BY <1>2, <1>3 DEF Unfinished
  <2>2. st[o] \in {"spawned", "hooked"}
    BY <1>1, <1>3, <2>1 DEF RegisteredInv, TypeOK, OpStates
  <2>3. kind[o] = "nested"
    <3>1. kind[o] # "none" /\ kind[o] # "async"
      BY <2>2 DEF TreeInv
    <3> QED BY <3>1 DEF Disciplined, TypeOK
  <2>4. parent[o] \in Ops /\ st[parent[o]] = "running"
    BY <2>2, <2>3 DEF TreeInv, TypeOK
  <2>5. parent[o] \in counted
    BY <1>1, <2>4 DEF RegisteredInv
  <2> QED BY <1>2, <2>4, <2>5 DEF Unfinished
<1>4. failed \subseteq counted
  BY <1>1 DEF ErrorsInv, RegisteredInv, TypeOK
<1> QED BY <1>3, <1>4 DEF AllDone

LEMMA AtomExecute ==
  ASSUME Disciplined, AtomInv, CountInv', OutcomeInv', ExecuteStep
  PROVE  AtomParts'
<1> USE DEF AtomInv, CountInv
<1>0. UNCHANGED <<st, kind, parent, counted, failed, errOnce>>
  BY DEF ExecuteStep, Begin, CallbackReturns, WaitChecks, WaitWakes, WaitTimesOut,
         CommitTx, RollbackTx, RunCommitHooks, RunRollbackHooks, opVars, waitVars
<1>1. TreeInv'
  <2>1. CASE Begin
    BY <1>0, <2>1 DEF Begin, TreeInv, OutcomeInv, SessionInv
  <2>2. CASE CallbackReturns
    BY <1>0, <2>2 DEF CallbackReturns, TreeInv, Blocked, TypeOK
  <2>3. CASE pc \notin {"idle", "callback"} /\ pc' # "callback"
    BY <1>0, <2>3 DEF TreeInv
  <2> QED
    BY <2>1, <2>2, <2>3
    DEF ExecuteStep, WaitChecks, WaitWakes, WaitTimesOut, CommitTx, RollbackTx,
        RunCommitHooks, RunRollbackHooks
<1>2. RegisteredInv'
  BY <1>0
  DEF ExecuteStep, Begin, CallbackReturns, WaitChecks, WaitWakes, WaitTimesOut,
      CommitTx, RollbackTx, RunCommitHooks, RunRollbackHooks, RegisteredInv, Late,
      OutcomeInv, DbTypeOK, PCs
<1>3. CASE Begin
  <2>1. \A o \in Ops : st[o] = "idle" /\ kind[o] = "none"
    BY <1>3 DEF Begin, OutcomeInv, SessionInv, TreeInv
  <2>2. /\ sqlTx = "none" /\ durable = {} /\ buffered = {}
        /\ UNCHANGED <<durable, buffered, finishing, cancelled, opErr, errChan>>
        /\ \/ sqlTx' = "open" /\ exTx' = TRUE /\ pc' = "callback"
           \/ sqlTx' = sqlTx /\ pc' = "done"
    BY <1>3 DEF Begin, OutcomeInv, SessionInv, StartTransaction, dbVars, waitVars
  <2>3. SessionInv'
    BY <1>0, <1>3, <2>1, <2>2 DEF Begin, SessionInv, Late, Done, AllDone
  <2>4. WritesInv' /\ ErrorsInv' /\ CommittedInv'
    BY <1>0, <1>3, <2>1, <2>2
    DEF Begin, WritesInv, ErrorsInv, CommittedInv, Done, Late
  <2> QED BY <1>1, <1>2, <2>3, <2>4 DEF AtomParts
<1>4. CASE /\ UNCHANGED dbVars
           /\ \/ CallbackReturns \/ WaitChecks \/ WaitWakes \/ WaitTimesOut
              \/ RunCommitHooks \/ RunRollbackHooks
  <2>1. WritesInv' /\ CommittedInv'
    BY <1>0, <1>4 DEF WritesInv, CommittedInv, AllDone, Done, dbVars
  <2>2. pc' = "decide" => AllDone \/ (cancelled /\ opErr')
    BY <1>4, WaitOver
    DEF CallbackReturns, WaitChecks, WaitWakes, WaitTimesOut, RunCommitHooks,
        RunRollbackHooks
  <2>3. SessionInv'
    <3>1. Late' => Late \/ pc' = "decide"
      BY <1>4 DEF CallbackReturns, WaitChecks, WaitWakes, WaitTimesOut,
         RunCommitHooks, RunRollbackHooks, Late
    <3>2. Late => Late'
      BY <1>4 DEF CallbackReturns, WaitChecks, WaitWakes, WaitTimesOut,
         RunCommitHooks, RunRollbackHooks, Late
    <3>3. sqlTx = "none" => pc' \in {"idle", "done"}
      BY <1>4 DEF CallbackReturns, WaitChecks, WaitWakes, WaitTimesOut,
         RunCommitHooks, RunRollbackHooks, SessionInv
    <3> QED
      BY <1>0, <1>4, <2>2, <3>1, <3>2, <3>3 DEF SessionInv, AllDone, Done, dbVars
  <2>4. ErrorsInv'
    <3>1. CASE WaitChecks
      <4>1. pc = "wait" /\ ~opErr
        BY <3>1 DEF WaitChecks, ErrorsInv, Late
      <4>2. CASE pending = 0
        <5>1. AllDone /\ failed \subseteq counted
          BY <4>1, <4>2, WaitOver
        <5>2. failed # {} => errChan
          BY <4>1, <5>1 DEF ErrorsInv, AllDone, TypeOK
        <5>3. pc' = "decide" /\ opErr' = errChan
          BY <3>1, <4>2 DEF WaitChecks
        <5> QED
          BY <1>0, <4>1, <5>1, <5>2, <5>3 DEF ErrorsInv, Late, AllDone
      <4>3. CASE pending # 0
        BY <1>0, <3>1, <4>3 DEF WaitChecks, ErrorsInv, Late, AllDone
      <4> QED BY <4>2, <4>3
    <3>2. CASE WaitTimesOut
      BY <1>0, <3>2 DEF WaitTimesOut, ErrorsInv, Late, waitVars
    <3>3. CASE CallbackReturns \/ WaitWakes \/ RunCommitHooks \/ RunRollbackHooks
      BY <1>0, <3>3 DEF CallbackReturns, WaitWakes, RunCommitHooks, RunRollbackHooks,
         ErrorsInv, Late, waitVars
    <3> QED BY <1>4, <3>1, <3>2, <3>3
  <2> QED BY <1>1, <1>2, <2>1, <2>3, <2>4 DEF AtomParts
<1>5. CASE CommitTx
  <2>1. pc = "decide" /\ ~opErr /\ ~finalized /\ AllDone /\ failed = {}
    BY <1>5 DEF CommitTx, OutcomeInv, ErrorsInv
  <2>2. SessionInv'
    BY <1>0, <1>5, <2>1
    DEF CommitTx, CommitSucceeds, CommitFails, DiscardBuffer, SessionInv, AllDone,
        Late, Done, dbVars
  <2>3. ErrorsInv'
    BY <1>0, <1>5, <2>1 DEF CommitTx, ErrorsInv, Late, AllDone, waitVars
  <2>4. CASE CommitSucceeds
    <3>1. durable' = {o \in Ops : kind'[o] = "nested"}
      BY <1>0, <2>1, <2>4
      DEF CommitSucceeds, WritesInv, TreeInv, AllDone, Done
    <3> QED
      BY <1>0, <1>1, <1>2, <2>1, <2>2, <2>3, <2>4, <3>1
      DEF CommitSucceeds, WritesInv, CommittedInv, AllDone, AtomParts
  <2>5. CASE CommitFails
    BY <1>0, <1>1, <1>2, <2>1, <2>2, <2>3, <2>5
    DEF CommitFails, DiscardBuffer, WritesInv, CommittedInv, AllDone, AtomParts,
        dbVars, Done
  <2> QED BY <1>5, <2>4, <2>5 DEF CommitTx
<1>6. CASE RollbackTx
  <2>1. Late /\ pc' = "rollbackHooks"
    BY <1>6 DEF RollbackTx, Late
  <2>2. SessionInv'
    BY <1>0, <1>6, <2>1
    DEF RollbackTx, Rollback, DiscardBuffer, SessionInv, AllDone, Late, Done, dbVars
  <2>3. ErrorsInv'
    BY <1>0, <1>6, <2>1 DEF RollbackTx, ErrorsInv, Late, waitVars
  <2>4. WritesInv' /\ CommittedInv'
    BY <1>0, <1>6
    DEF RollbackTx, Rollback, DiscardBuffer, WritesInv, CommittedInv, AllDone, Done,
        dbVars
  <2> QED BY <1>1, <1>2, <2>2, <2>3, <2>4 DEF AtomParts
<1> QED
  BY <1>3, <1>4, <1>5, <1>6
  DEF ExecuteStep, CallbackReturns, WaitChecks, WaitWakes, WaitTimesOut,
      RunCommitHooks, RunRollbackHooks

LEMMA AtomSession ==
  ASSUME AtomInv, Session \/ UNCHANGED vars
  PROVE  AtomParts'
<1> USE DEF AtomInv
<1>1. UNCHANGED <<opVars, waitVars, exeVars, durable>>
  BY DEF Session, ContextCancelled, WatcherTakesDone, WatcherRollsBack,
         SqlContextRollback, vars, dbVars
<1>2. TreeInv' /\ RegisteredInv' /\ ErrorsInv'
  BY <1>1 DEF TreeInv, RegisteredInv, ErrorsInv, Late, AllDone, opVars, waitVars, exeVars
<1>3. SessionInv' /\ WritesInv' /\ CommittedInv'
  <2>1. CASE UNCHANGED dbVars
    BY <1>1, <2>1 DEF SessionInv, WritesInv, CommittedInv, Late, AllDone, Done, opVars,
       exeVars, dbVars
  <2>2. CASE ContextCancelled
    BY <1>1, <2>2 DEF ContextCancelled, SessionInv, WritesInv, CommittedInv, Late,
       AllDone, Done, opVars, exeVars
  <2>3. CASE WatcherTakesDone
    BY <1>1, <2>3 DEF WatcherTakesDone, SessionInv, WritesInv, CommittedInv, Late,
       AllDone, Done, opVars, exeVars
  <2>4. CASE WatcherRollsBack
    BY <1>1, <2>4 DEF WatcherRollsBack, DiscardBuffer, SessionInv, WritesInv,
       CommittedInv, Late, AllDone, Done, opVars, exeVars
  <2>5. CASE SqlContextRollback
    BY <1>1, <2>5 DEF SqlContextRollback, DiscardBuffer, SessionInv, WritesInv,
       CommittedInv, Late, AllDone, Done, opVars, exeVars
  <2> QED BY <2>1, <2>2, <2>3, <2>4, <2>5 DEF Session, vars
<1> QED BY <1>2, <1>3 DEF AtomParts

LEMMA AtomStep ==
  ASSUME Disciplined, AtomInv, [Next]_vars
  PROVE  AtomInv'
<1>1. CountInv' /\ OutcomeInv'
  <2>1. CountInv'
    BY CountStep DEF AtomInv
  <2> QED BY <2>1, OutcomeStep DEF AtomInv, CountInv
<1>2. AtomParts'
  BY <1>1, AtomStart, AtomOp, AtomExecute, AtomSession DEF Next
<1> QED BY <1>1, <1>2 DEF AtomInv, AtomParts

LEMMA AtomImplies == AtomInv => CommitIsComplete /\ RollbackLeavesNothing
<1> SUFFICES ASSUME AtomInv PROVE CommitIsComplete /\ RollbackLeavesNothing
  OBVIOUS
<1>1. CommitIsComplete
  BY DEF AtomInv, CommittedInv, AllDone, CommitIsComplete, Started
<1>2. RollbackLeavesNothing
  BY DEF AtomInv, OutcomeInv, PCs, WritesInv, RollbackLeavesNothing
<1> QED BY <1>1, <1>2

(* A callback that keeps to its context and to Async gets an atomic        *)
(* transaction, for any number of operations, whatever is cancelled when:  *)
(* everything it did is committed, or nothing it did is in the database.   *)
THEOREM AtomicityTheorem ==
  ASSUME Disciplined
  PROVE  Spec => [](CommitIsComplete /\ RollbackLeavesNothing)
<1>1. Init => AtomInv
  BY CountInit, OutcomeInit, AtomInit DEF AtomInv, AtomParts
<1>2. AtomInv /\ [Next]_vars => AtomInv'
  BY AtomStep
<1> QED
  BY <1>1, <1>2, AtomImplies, PTL DEF Spec

-----------------------------------------------------------------------------
(* The hooks of a disciplined callback.                                    *)

Hooked(o) == kind[o] = "nested" /\ st[o] \notin {"idle", "spawned"}

(* Until the hooks are run they are registered, on both sides.             *)
HooksInv ==
  \A o \in Ops : Hooked(o) =>
    /\ pc # "done" => o \in commitHooks /\ o \in rollbackHooks
    /\ result = "ok" => o \in commitRan
    /\ result = "error" /\ ~cancelled => o \in rollbackRan

LEMMA HooksStep ==
  ASSUME Disciplined, AtomInv, HooksInv, [Next]_vars
  PROVE  HooksInv'
<1>1. TypeOK /\ (result # "none" => pc = "done")
  BY DEF AtomInv, CountInv, OutcomeInv, PCs
<1>2. ASSUME Session PROVE HooksInv'
  BY <1>2
  DEF Session, ContextCancelled, WatcherTakesDone, WatcherRollsBack, SqlContextRollback,
      HooksInv, Hooked, opVars, hookVars, exeVars
<1>3. ASSUME NEW o \in Ops, OpStep(o) PROVE HooksInv'
  <2>1. st[o] \notin {"idle", "done"}
    BY <1>3 DEF OpStep, RegisterHooks, JoinTransaction, EnterUnmanaged, Work, ReportError,
                FinishOp
  <2>2. /\ sqlTx # "committed"
        /\ Late => cancelled
    BY <2>1, BusyOp
  <2>3. result # "ok" /\ (result = "error" => cancelled)
    BY <1>1, <2>2 DEF AtomInv, OutcomeInv, Late
  <2>4. /\ UNCHANGED <<kind, exeVars, commitRan, rollbackRan>>
        /\ \A p \in Ops \ {o} : st'[p] = st[p]
        /\ cancelled' = cancelled
    BY <1>1, <1>3
    DEF OpStep, RegisterHooks, JoinTransaction, EnterUnmanaged, Work, ReportError, FinishOp,
        TypeOK, dbVars, hookVars, WriteSucceeds, CreateCollectionFails, Rollback
  <2>5. CASE RegisterHooks(o)
    BY <1>1, <2>3, <2>4, <2>5 DEF RegisterHooks, HooksInv, Hooked, exeVars
  <2>6. CASE ~RegisterHooks(o)
    <3>1. /\ UNCHANGED <<commitHooks, rollbackHooks>>
          /\ Hooked(o)' => Hooked(o)
      BY <1>1, <1>3, <2>6
      DEF OpStep, JoinTransaction, EnterUnmanaged, Work, ReportError, FinishOp, Hooked,
          TypeOK, hookVars
    <3> QED
      BY <2>3, <2>4, <3>1 DEF HooksInv, Hooked, exeVars
  <2> QED
    BY <2>5, <2>6
<1>4. ASSUME NEW o \in Ops, NEW p \in Ops \union {Root}, NEW k \in Kinds, StartOp(o, p, k)
      PROVE  HooksInv'
  <2>1. k \in {"nested", "async"}
    BY DEF Disciplined
  <2>2. ~Hooked(o)' /\ \A q \in Ops \ {o} : kind'[q] = kind[q] /\ st'[q] = st[q]
    BY <1>1, <1>4, <2>1 DEF StartOp, Hooked, TypeOK
  <2> QED
    BY <1>4, <2>2 DEF StartOp, HooksInv, Hooked, dbVars, hookVars, exeVars
<1>5. ASSUME ExecuteStep PROVE HooksInv'
  <2>1. CASE Begin
    BY <2>1 DEF Begin, StartTransaction, AtomInv, OutcomeInv, SessionInv, HooksInv, Hooked,
                opVars, hookVars, PCs
  <2>2. CASE RunCommitHooks
    BY <1>1, <2>2 DEF RunCommitHooks, HooksInv, Hooked, opVars, dbVars
  <2>3. CASE RunRollbackHooks
    BY <1>1, <2>3 DEF RunRollbackHooks, HooksInv, Hooked, opVars, dbVars
  <2>4. CASE ~Begin /\ ~RunCommitHooks /\ ~RunRollbackHooks
    <3>1. /\ pc # "done" /\ UNCHANGED <<opVars, hookVars, result, cancelled>>
      BY <1>5, <2>4
      DEF ExecuteStep, CallbackReturns, WaitChecks, WaitWakes, WaitTimesOut, CommitTx,
          RollbackTx, CommitSucceeds, CommitFails, Rollback, dbVars
    <3> QED
      BY <1>1, <3>1 DEF HooksInv, Hooked, opVars, hookVars
  <2> QED
    BY <2>1, <2>2, <2>3, <2>4
<1>6. ASSUME UNCHANGED vars PROVE HooksInv'
  BY <1>6 DEF vars, HooksInv, Hooked, dbVars, opVars, hookVars, exeVars
<1> QED
  BY <1>2, <1>3, <1>4, <1>5, <1>6 DEF Next

(* HooksComplete: the hooks of every operation of a disciplined callback   *)
(* run, all of them, on the side Execute reports.                          *)
THEOREM HooksTheorem ==
  ASSUME Disciplined
  PROVE  Spec => []HooksComplete
<1>1. Init => AtomInv /\ HooksInv
  BY CountInit, OutcomeInit, AtomInit DEF AtomInv, AtomParts, Init, HooksInv, Hooked
<1>2. AtomInv /\ HooksInv /\ [Next]_vars => AtomInv' /\ HooksInv'
  BY AtomStep, HooksStep
<1>3. HooksInv => HooksComplete
  BY DEF HooksInv, Hooked, HooksComplete
<1> QED
  BY <1>1, <1>2, <1>3, PTL DEF Spec

-----------------------------------------------------------------------------
(* The abstract transaction: the steps of Execute, of its operations and   *)
(* of the session are steps of AtomicTransaction, or leave it alone.       *)

AbstractActive == {o \in counted : st[o] # "done"}
AbstractStaged == IF Outcome = "active" THEN buffered ELSE {}
AbstractReply == IF sqlTx = "none" THEN "none" ELSE result

LEMMA AbstractStutters ==
  ASSUME UNCHANGED Outcome, UNCHANGED AbstractActive, UNCHANGED counted,
         UNCHANGED (counted \intersect failed # {}), UNCHANGED AbstractStaged,
         UNCHANGED durable, UNCHANGED AbstractReply
  PROVE  [Atomic!Next]_(Atomic!avars)
BY DEF Atomic!avars, AbstractActive, AbstractStaged, AbstractReply

LEMMA AbstractInit == Init => Atomic!Init
BY DEF Init, DbInit, Atomic!Init, Outcome, Done

(* A session's own step aborts what is under way, or changes nothing.      *)
LEMMA AbstractSession ==
  ASSUME AtomInv, Session
  PROVE  [Atomic!Next]_(Atomic!avars)
<1>1. /\ UNCHANGED <<AbstractActive, counted, counted \intersect failed # {}, durable, result>>
      /\ sqlTx' = "none" <=> sqlTx = "none"
      /\ sqlTx' = "committed" <=> sqlTx = "committed"
      /\ Done => Done'
      /\ sqlTx = "rolledback" => sqlTx' = "rolledback"
  BY DEF Session, ContextCancelled, WatcherTakesDone, WatcherRollsBack, SqlContextRollback,
         DiscardBuffer, opVars, exeVars, AbstractActive, Done
<1>2. UNCHANGED AbstractReply
  BY <1>1 DEF AbstractReply
<1>3. CASE Outcome' = Outcome
  <2>1. UNCHANGED AbstractStaged
    BY <1>3 DEF Session, ContextCancelled, WatcherTakesDone, WatcherRollsBack,
                SqlContextRollback, DiscardBuffer, AbstractStaged, Outcome, Done
  <2> QED
    BY <1>1, <1>2, <1>3, <2>1, AbstractStutters
<1>4. CASE Outcome' # Outcome
  <2>1. Outcome = "active" /\ Outcome' = "aborted"
    BY <1>1, <1>4 DEF Outcome
  <2> QED
    BY <1>1, <1>2, <2>1 DEF Atomic!Next, Atomic!Abort, AbstractActive, AbstractStaged,
                            AbstractReply
<1> QED
  BY <1>3, <1>4

(* What an operation does reaches the abstract transaction only if it has  *)
(* joined, and a statement only while the outcome is open.                 *)
LEMMA AbstractOp ==
  ASSUME Disciplined, AtomInv, AtomInv', NEW o \in Ops, OpStep(o)
  PROVE  [Atomic!Next]_(Atomic!avars)
<1>1. TypeOK /\ TypeOK' /\ CountedAreRunning
  BY DEF AtomInv, CountInv
<1>2. CASE RegisterHooks(o) \/ EnterUnmanaged(o) \/ ReportError(o)
  <2>1. UNCHANGED <<dbVars, counted, failed, result>>
    BY <1>2 DEF RegisterHooks, EnterUnmanaged, ReportError, exeVars
  <2>2. UNCHANGED AbstractActive
    BY <1>1, <1>2, <2>1 DEF RegisterHooks, EnterUnmanaged, ReportError, AbstractActive, TypeOK
  <2>3. UNCHANGED <<Outcome, AbstractStaged, AbstractReply>>
    BY <2>1 DEF Outcome, Done, AbstractStaged, AbstractReply, dbVars
  <2> QED
    BY <2>1, <2>2, <2>3, AbstractStutters DEF dbVars
<1>3. CASE JoinTransaction(o)
  <2>1. UNCHANGED <<dbVars, failed, result>> /\ st[o] = "hooked" /\ o \notin counted
    BY <1>1, <1>3 DEF JoinTransaction, exeVars, CountedAreRunning
  <2>2. UNCHANGED <<Outcome, AbstractStaged, AbstractReply, durable>>
    BY <2>1 DEF Outcome, Done, AbstractStaged, AbstractReply, dbVars
  <2>3. CASE finalized
    <3>1. UNCHANGED <<counted, AbstractActive>>
      BY <1>1, <1>3, <2>1, <2>3 DEF JoinTransaction, AddOperation, AbstractActive, TypeOK
    <3> QED
      BY <2>1, <2>2, <3>1, AbstractStutters
  <2>4. CASE ~finalized
    <3>1. /\ counted' = counted \union {o}
          /\ AbstractActive' = AbstractActive \union {o}
      BY <1>1, <1>3, <2>1, <2>4 DEF JoinTransaction, AddOperation, AbstractActive, TypeOK
    <3>2. Outcome # "committed"
      BY <2>1, BusyOp DEF Outcome
    <3>3. UNCHANGED (counted \intersect failed # {})
      BY <1>1, <2>1, <3>1 DEF AtomInv, ErrorsInv
    <3> QED
      BY <2>1, <2>2, <3>1, <3>2, <3>3
      DEF Atomic!Next, Atomic!Join, AbstractActive, AbstractStaged, AbstractReply
  <2> QED
    BY <2>3, <2>4
<1>4. CASE Work(o)
  <2>1. /\ st[o] = "running" /\ UNCHANGED <<counted, result>>
        /\ ~SchemaFailures
        /\ kind[o] \in {"nested", "async"}
    <3>1. st[o] = "running" /\ UNCHANGED <<counted, result>>
      BY <1>4 DEF Work, exeVars
    <3>2. kind[o] # "none"
      BY <3>1 DEF AtomInv, TreeInv
    <3> QED
      BY <1>1, <3>1, <3>2 DEF Disciplined, TypeOK
  <2>2. UNCHANGED AbstractActive
    BY <1>1, <1>4 DEF Work, AbstractActive, TypeOK
  <2>3. o \in AbstractActive \/ Outcome # "active"
    <3>1. sqlTx # "none" /\ (o \in counted \/ finalized)
      BY <2>1, BusyOp DEF AtomInv, RegisteredInv
    <3>2. finalized => Done
      BY <3>1 DEF AtomInv, OutcomeInv, PCs
    <3> QED
      BY <2>1, <3>1, <3>2 DEF AbstractActive, Outcome
  <2>4. CASE UNCHANGED dbVars
    <3>1. UNCHANGED <<Outcome, AbstractStaged, AbstractReply, durable>>
      BY <2>1, <2>4 DEF Outcome, Done, AbstractStaged, AbstractReply, dbVars
    <3>2. CASE UNCHANGED (counted \intersect failed # {})
      BY <2>1, <2>2, <3>1, <3>2, AbstractStutters
    <3>3. CASE ~UNCHANGED (counted \intersect failed # {})
      <4>1. failed' = failed \union {o} /\ o \in counted
        BY <1>4, <2>1, <3>3 DEF Work
      <4>2. o \in AbstractActive /\ counted' \intersect failed' # {}
        BY <2>1, <4>1 DEF AbstractActive
      <4> QED
        BY <2>1, <2>2, <3>1, <4>2
        DEF Atomic!Next, Atomic!Fail, AbstractActive, AbstractStaged, AbstractReply
    <3> QED
      BY <3>2, <3>3
  <2>5. CASE WriteSucceeds(o, ~cancelled) /\ UNCHANGED failed
    <3>1. ~cancelled /\ exTx
      BY <2>1, <2>5, BusyOp DEF WriteSucceeds
    <3>2. /\ buffered' = buffered \union {o}
          /\ UNCHANGED <<durable, finishing, sqlTx>>
      BY <2>5, <3>1 DEF WriteSucceeds
    <3>3. UNCHANGED <<Outcome, AbstractReply>>
      BY <2>1, <3>2 DEF Outcome, Done, AbstractReply
    <3>4. CASE Outcome = "active"
      <4>1. AbstractStaged' = AbstractStaged \union {o}
        BY <3>2, <3>3, <3>4 DEF AbstractStaged
      <4> QED
        BY <2>1, <2>2, <2>3, <2>5, <3>2, <3>3, <3>4, <4>1
        DEF Atomic!Next, Atomic!Stage, AbstractActive, AbstractStaged, AbstractReply
    <3>5. CASE Outcome # "active"
      <4>1. UNCHANGED AbstractStaged
        BY <3>3, <3>5 DEF AbstractStaged
      <4> QED
        BY <2>1, <2>2, <2>5, <3>2, <3>3, <4>1, AbstractStutters
    <3> QED
      BY <3>4, <3>5
  <2> QED
    BY <1>4, <2>1, <2>4, <2>5 DEF Work
<1>5. CASE FinishOp(o)
  <2>1. UNCHANGED <<dbVars, counted, failed, result>> /\ st[o] = "reported"
    BY <1>5 DEF FinishOp, exeVars
  <2>2. UNCHANGED <<Outcome, AbstractStaged, AbstractReply, durable>>
    BY <2>1 DEF Outcome, Done, AbstractStaged, AbstractReply, dbVars
  <2>3. AbstractActive' = AbstractActive \ {o}
    BY <1>1, <1>5, <2>1 DEF FinishOp, AbstractActive, TypeOK
  <2>4. CASE o \in counted
    <3>1. o \in AbstractActive
      BY <2>1, <2>4 DEF AbstractActive
    <3> QED
      BY <2>1, <2>2, <2>3, <3>1
      DEF Atomic!Next, Atomic!Leave, AbstractActive, AbstractStaged, AbstractReply
  <2>5. CASE o \notin counted
    <3>1. UNCHANGED AbstractActive
      BY <2>3, <2>5 DEF AbstractActive
    <3> QED
      BY <2>1, <2>2, <3>1, AbstractStutters
  <2> QED
    BY <2>4, <2>5
<1> QED
  BY <1>2, <1>3, <1>4, <1>5 DEF OpStep

(* Starting an operation joins it if it is registered there and then.      *)
LEMMA AbstractStart ==
  ASSUME Disciplined, AtomInv, NEW o \in Ops, NEW p \in Ops \union {Root}, NEW k \in Kinds,
         StartOp(o, p, k)
  PROVE  [Atomic!Next]_(Atomic!avars)
<1>1. /\ UNCHANGED <<dbVars, failed, result>> /\ st[o] = "idle" /\ o \notin counted
      /\ TypeOK /\ o \notin failed
  BY DEF StartOp, exeVars, AtomInv, CountInv, CountedAreRunning, ErrorsInv
<1>2. UNCHANGED <<Outcome, AbstractStaged, AbstractReply, durable>>
  BY <1>1 DEF Outcome, Done, AbstractStaged, AbstractReply, dbVars
<1>3. CASE k # "async" \/ finalized
  <2>1. UNCHANGED <<counted, AbstractActive>>
    BY <1>1, <1>3 DEF StartOp, AddOperation, AbstractActive, TypeOK
  <2> QED
    BY <1>1, <1>2, <2>1, AbstractStutters
<1>4. CASE k = "async" /\ ~finalized
  <2>1. /\ counted' = counted \union {o}
        /\ AbstractActive' = AbstractActive \union {o}
    BY <1>1, <1>4 DEF StartOp, AddOperation, AbstractActive, TypeOK
  <2>2. Outcome # "committed"
    <3>1. CASE p = Root
      BY <3>1 DEF StartOp, CanCall, AtomInv, OutcomeInv, Outcome
    <3>2. CASE p # Root
      BY <3>2, BusyOp DEF StartOp, CanCall, Outcome
    <3> QED
      BY <3>1, <3>2
  <2>3. UNCHANGED (counted \intersect failed # {})
    BY <1>1, <2>1
  <2> QED
    BY <1>1, <1>2, <2>1, <2>2, <2>3
    DEF Atomic!Next, Atomic!Join, AbstractActive, AbstractStaged, AbstractReply
<1> QED
  BY <1>3, <1>4

(* Execute commits when nobody is active and nobody failed, and answers    *)
(* once the outcome is there.                                              *)
LEMMA AbstractExecute ==
  ASSUME Disciplined, AtomInv, AtomInv', ExecuteStep
  PROVE  [Atomic!Next]_(Atomic!avars)
<1>1. UNCHANGED <<st, counted, failed>>
  BY DEF ExecuteStep, Begin, CallbackReturns, WaitChecks, WaitWakes, WaitTimesOut,
         CommitTx, RollbackTx, RunCommitHooks, RunRollbackHooks, opVars
<1>2. UNCHANGED <<counted, AbstractActive, counted \intersect failed # {}>>
  BY <1>1 DEF AbstractActive
<1>3. CASE Begin
  <2>1. UNCHANGED <<Outcome, durable, buffered>>
    BY <1>3 DEF Begin, StartTransaction, AtomInv, OutcomeInv, Outcome, Done, dbVars
  <2>2. UNCHANGED AbstractReply
    BY <1>3 DEF Begin, StartTransaction, AtomInv, OutcomeInv, AbstractReply, dbVars
  <2> QED
    BY <1>2, <2>1, <2>2, AbstractStutters DEF AbstractStaged
<1>4. CASE CallbackReturns \/ WaitChecks \/ WaitWakes \/ WaitTimesOut
  <2>1. UNCHANGED <<dbVars, result>>
    BY <1>4 DEF CallbackReturns, WaitChecks, WaitWakes, WaitTimesOut
  <2>2. UNCHANGED <<Outcome, AbstractStaged, AbstractReply, durable>>
    BY <2>1 DEF Outcome, Done, AbstractStaged, AbstractReply, dbVars
  <2> QED
    BY <1>2, <2>2, AbstractStutters
<1>5. ASSUME CommitFails \/ Rollback, UNCHANGED result, sqlTx # "none", sqlTx # "committed"
      PROVE  [Atomic!Next]_(Atomic!avars)
  <2>1. CASE UNCHANGED dbVars
    <3>1. UNCHANGED <<Outcome, AbstractStaged, AbstractReply, durable>>
      BY <1>5, <2>1 DEF Outcome, Done, AbstractStaged, AbstractReply, dbVars
    <3> QED
      BY <1>2, <3>1, AbstractStutters
  <2>2. CASE ~UNCHANGED dbVars
    <3>1. /\ ~Done /\ Done' /\ sqlTx' # "committed" /\ sqlTx' # "none"
          /\ UNCHANGED <<durable, result>>
          /\ sqlTx = "rolledback" => sqlTx' = "rolledback"
      BY <1>5, <2>2 DEF CommitFails, Rollback, DiscardBuffer, Done
    <3>2. Outcome' = "aborted" /\ Outcome # "committed" /\ UNCHANGED AbstractReply
      BY <1>5, <3>1 DEF Outcome, AbstractReply
    <3>3. AbstractStaged' = {}
      BY <3>2 DEF AbstractStaged
    <3>4. CASE Outcome = "active"
      BY <1>2, <3>1, <3>2, <3>3, <3>4
      DEF Atomic!Next, Atomic!Abort, AbstractActive, AbstractStaged, AbstractReply
    <3>5. CASE Outcome # "active"
      <4>1. UNCHANGED Outcome /\ UNCHANGED AbstractStaged
        BY <3>2, <3>3, <3>5 DEF Outcome, AbstractStaged
      <4> QED
        BY <1>2, <3>1, <3>2, <4>1, AbstractStutters
    <3> QED
      BY <3>4, <3>5
  <2> QED
    BY <2>1, <2>2
<1>6. CASE CommitTx
  <2>1. /\ pc = "decide" /\ UNCHANGED result
        /\ sqlTx # "none" /\ sqlTx # "committed"
        /\ CommitSucceeds \/ CommitFails
        /\ ~opErr
    BY <1>6 DEF CommitTx, AtomInv, SessionInv, OutcomeInv
  <2>2. CASE CommitSucceeds
    <3>1. AbstractActive = {} /\ counted \intersect failed = {}
      <4>1. AllDone /\ failed = {} /\ counted \subseteq Ops /\ CountedAreRunning
        BY <2>1 DEF AtomInv, ErrorsInv, CountInv, TypeOK
      <4> QED
        BY <4>1 DEF AllDone, AbstractActive, CountedAreRunning
    <3>2. Outcome = "active" /\ Outcome' = "committed" /\ UNCHANGED AbstractReply
      BY <2>1, <2>2 DEF CommitSucceeds, Outcome, Done, AbstractReply
    <3>3. durable' = AbstractStaged /\ AbstractStaged' = {}
      BY <2>1, <2>2, <3>2 DEF CommitSucceeds, AbstractStaged, AtomInv, WritesInv
    <3> QED
      BY <1>2, <3>1, <3>2, <3>3
      DEF Atomic!Next, Atomic!Commit, AbstractActive, AbstractStaged, AbstractReply
  <2> QED
    BY <1>5, <2>1, <2>2
<1>7. CASE RollbackTx
  <2>1. /\ UNCHANGED result
        /\ sqlTx # "none" /\ sqlTx # "committed"
        /\ UNCHANGED dbVars \/ Rollback
    BY <1>7 DEF RollbackTx, AtomInv, SessionInv, OutcomeInv
  <2>2. CASE UNCHANGED dbVars
    <3>1. UNCHANGED <<Outcome, AbstractStaged, AbstractReply, durable>>
      BY <2>1, <2>2 DEF Outcome, Done, AbstractStaged, AbstractReply, dbVars
    <3> QED
      BY <1>2, <3>1, AbstractStutters
  <2> QED
    BY <1>5, <2>1, <2>2
<1>8. CASE RunCommitHooks \/ RunRollbackHooks
  <2>1. /\ UNCHANGED dbVars /\ result = "none" /\ sqlTx # "none"
        /\ \/ result' = "ok" /\ sqlTx = "committed"
           \/ result' = "error" /\ sqlTx # "committed" /\ Done
    BY <1>8 DEF RunCommitHooks, RunRollbackHooks, AtomInv, OutcomeInv, SessionInv
  <2>2. UNCHANGED <<Outcome, AbstractStaged, durable>>
    BY <2>1 DEF Outcome, Done, AbstractStaged, dbVars
  <2>3. /\ AbstractReply = "none"
        /\ \/ Outcome = "committed" /\ AbstractReply' = "ok"
           \/ Outcome = "aborted" /\ AbstractReply' = "error"
    BY <2>1 DEF Outcome, AbstractReply, dbVars
  <2> QED
    BY <1>2, <2>2, <2>3
    DEF Atomic!Next, Atomic!Reply, AbstractActive, AbstractStaged, AbstractReply
<1> QED
  BY <1>3, <1>4, <1>6, <1>7, <1>8 DEF ExecuteStep

LEMMA AbstractStep ==
  ASSUME Disciplined, AtomInv, AtomInv', [Next]_vars
  PROVE  [Atomic!Next]_(Atomic!avars)
<1>1. CASE UNCHANGED vars
  <2>1. UNCHANGED <<Outcome, AbstractActive, AbstractStaged, AbstractReply, durable, counted,
                    counted \intersect failed # {}>>
    BY <1>1 DEF vars, dbVars, opVars, exeVars, Outcome, Done, AbstractActive, AbstractStaged,
                AbstractReply
  <2> QED
    BY <2>1, AbstractStutters
<1> QED
  BY <1>1, AbstractSession, AbstractExecute, AbstractOp, AbstractStart DEF Next

(* Execute implements AtomicTransaction for a disciplined callback: what   *)
(* joins is all in one outcome, and the reply tells which.                 *)
THEOREM RefinementTheorem ==
  ASSUME Disciplined
  PROVE  Spec => AtomicSpec
<1>1. Init => AtomInv
  BY CountInit, OutcomeInit, AtomInit DEF AtomInv, AtomParts
<1>2. AtomInv /\ [Next]_vars => AtomInv'
  BY AtomStep
<1>3. AtomInv /\ AtomInv' /\ [Next]_vars => [Atomic!Next]_(Atomic!avars)
  BY AbstractStep
<1> QED
  BY <1>1, <1>2, <1>3, AbstractInit, PTL DEF Spec, AtomicSpec, Atomic!Spec

(* ResultTruthful: what Execute returns is what the database did.          *)
THEOREM ResultTheorem == Spec => []ResultTruthful
  BY OutcomeTheorem, PTL

=============================================================================
