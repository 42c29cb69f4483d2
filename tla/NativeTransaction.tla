------------------------- MODULE NativeTransaction -------------------------
(***************************************************************************)
(* One transaction of the database session: the interactor returned by     *)
(* NativeInteractor.StartTransaction, the SQLite executor behind it and    *)
(* the sql.Tx that executor holds.                                         *)
(*                                                                         *)
(* The interactor outlives its sql.Tx.  After Commit or Rollback the       *)
(* executor forgets the sql.Tx (tx = nil) and runner() falls back to the   *)
(* connection pool: a statement issued through the same interactor from    *)
(* then on is an autocommitted one.  Whoever finishes the transaction      *)
(* first wins the compare-and-swap on done; the losers get an error.       *)
(*                                                                         *)
(* The operators below are the interactor's methods; Transaction composes  *)
(* them with the coordinator that calls them.                              *)
(***************************************************************************)
CONSTANT Ops                \* the operations that may write

VARIABLES
  cancelled,   \* the context given to StartTransaction is Done
  finishing,   \* "no": done is false; "watcher": the cancellation watcher won
               \* done and has not rolled back yet; "finished": done, tx is nil
  exTx,        \* the executor's tx field is not nil
  sqlTx,       \* the sql.Tx: "none", "open", "committed" or "rolledback"
  buffered,    \* the operations whose writes the open sql.Tx holds
  durable      \* the operations whose writes are in the database

dbVars == <<cancelled, finishing, exTx, sqlTx, buffered, durable>>

DbTypeOK ==
  /\ cancelled \in BOOLEAN
  /\ finishing \in {"no", "watcher", "finished"}
  /\ exTx \in BOOLEAN
  /\ sqlTx \in {"none", "open", "committed", "rolledback"}
  /\ buffered \subseteq Ops
  /\ durable \subseteq Ops

DbInit ==
  /\ cancelled = FALSE
  /\ finishing = "no"
  /\ exTx = FALSE
  /\ sqlTx = "none"
  /\ buffered = {}
  /\ durable = {}

(* done.CompareAndSwap(false, true) would fail.                            *)
Done == finishing # "no"

(* StartTransaction on the root interactor: BeginTx succeeded.             *)
StartTransaction ==
  /\ sqlTx = "none"
  /\ sqlTx' = "open"
  /\ exTx' = TRUE
  /\ UNCHANGED <<cancelled, finishing, buffered, durable>>

(* The sql.Tx is finished without committing.                              *)
DiscardBuffer ==
  /\ sqlTx' = IF sqlTx = "open" THEN "rolledback" ELSE sqlTx
  /\ buffered' = {}

(* Commit wins done and the database commits.  database/sql refuses to     *)
(* commit once the context is cancelled.                                   *)
CommitSucceeds ==
  /\ ~Done
  /\ sqlTx = "open"
  /\ ~cancelled
  /\ sqlTx' = "committed"
  /\ durable' = durable \union buffered
  /\ buffered' = {}
  /\ finishing' = "finished"
  /\ exTx' = FALSE
  /\ UNCHANGED cancelled

(* Commit loses done, or wins it and the database refuses: the executor    *)
(* forgets the sql.Tx either way, and the driver rolls it back - at once,  *)
(* or, after a cancellation, in SqlContextRollback.                        *)
CommitFails ==
  \/ /\ Done
     /\ UNCHANGED dbVars
  \/ /\ ~Done
     /\ finishing' = "finished"
     /\ exTx' = FALSE
     /\ \/ DiscardBuffer
        \/ cancelled /\ UNCHANGED <<sqlTx, buffered>>
     /\ UNCHANGED <<cancelled, durable>>

(* Rollback: a no-op with an error when done is already set.               *)
Rollback ==
  \/ /\ Done
     /\ UNCHANGED dbVars
  \/ /\ ~Done
     /\ finishing' = "finished"
     /\ exTx' = FALSE
     /\ DiscardBuffer
     /\ UNCHANGED <<cancelled, durable>>

(* The watcher goroutine of StartTransaction, woken by ctx.Done: it takes  *)
(* done in one step and reaches the executor in a later one, and the       *)
(* coordinator may run in between.                                         *)
WatcherTakesDone ==
  /\ cancelled
  /\ sqlTx # "none"
  /\ ~Done
  /\ finishing' = "watcher"
  /\ UNCHANGED <<cancelled, exTx, sqlTx, buffered, durable>>

WatcherRollsBack ==
  /\ finishing = "watcher"
  /\ finishing' = "finished"
  /\ exTx' = FALSE
  /\ DiscardBuffer
  /\ UNCHANGED <<cancelled, durable>>

(* database/sql rolls back by itself a transaction begun with a context    *)
(* that is cancelled.                                                      *)
SqlContextRollback ==
  /\ cancelled
  /\ sqlTx = "open"
  /\ DiscardBuffer
  /\ UNCHANGED <<cancelled, finishing, exTx, durable>>

(* The caller cancels the context, or its deadline passes.                 *)
ContextCancelled ==
  /\ ~cancelled
  /\ cancelled' = TRUE
  /\ UNCHANGED <<finishing, exTx, sqlTx, buffered, durable>>

(* One statement of operation o that succeeds, through runner(): in the    *)
(* sql.Tx while the executor holds it, on the pool (autocommit) when it    *)
(* does not.  With a cancelled context (live = FALSE) no statement runs.   *)
WriteSucceeds(o, live) ==
  /\ live
  /\ IF exTx THEN /\ sqlTx = "open"
                  /\ buffered' = buffered \union {o}
                  /\ UNCHANGED durable
             ELSE /\ durable' = durable \union {o}
                  /\ UNCHANGED buffered
  /\ UNCHANGED <<cancelled, finishing, exTx, sqlTx>>

(* CreateCollection fails inside the transaction: StartTransaction handed  *)
(* it this very interactor, so its clean-up Rollback finishes the whole    *)
(* transaction under the other operations.                                 *)
CreateCollectionFails == Rollback

=============================================================================
