--------------------------- MODULE EphemeralStore ---------------------------
(***************************************************************************)
(* The in-memory backend.  StartTransaction clones every collection of the *)
(* root store; Commit replaces the root's collections by the clone;        *)
(* Rollback forgets it.  Three locks are involved:                         *)
(*   persistMu  basePersistence.txMu, taken by Persistence.Transact because*)
(*              the backend asks for serialized transactions               *)
(*   storeMu    ephemeralStore.mu of the root store                        *)
(*   txMu       the root interactor's txMu, taken by StartTransaction while*)
(*              it holds storeMu and released by Commit, which needs       *)
(*              storeMu to get there, or by Rollback; a StartTransaction   *)
(*              whose Clone fails returns with it locked, and no           *)
(*              transaction that could unlock it                           *)
(* Only Transact takes persistMu: a collection write outside Transact and  *)
(* the registry's own transactions go straight to StartTransaction.        *)
(***************************************************************************)
EXTENDS Naturals

CONSTANTS
  Goroutines,   \* goroutines, each making one call on the persistence
  Uses,         \* the kinds of calls they may make
  None          \* nobody: a lock that is free

(***************************************************************************)
(* The kinds of calls.                                                     *)
(*   "transact"  Persistence.Transact                                      *)
(*   "write"     a collection write, or a registry update, of its own      *)
(*   "direct"    in-place DDL of a migration: on the root's collection,    *)
(*               outside any transaction                                   *)
(*   "read"      a query outside any transaction                           *)
(***************************************************************************)
Transactional == {"transact", "write"}
AllUses == Transactional \union {"direct", "read"}

ASSUME NoneAssumption == None \notin Goroutines
ASSUME UsesAssumption == Uses \subseteq AllUses

VARIABLES
  pc,         \* pc[c]: where client c's call stands
  use,        \* use[c]: the call it makes, "none" before
  persistMu,
  storeMu,
  txMu,
  rootData,   \* the clients whose writes the root's collections hold
  gen,        \* counts the replacements of the root's collections
  snap,       \* snap[c]: the same of c's transaction
  wrote,      \* the clients whose transaction has written
  fetchedAt,  \* fetchedAt[c]: the gen at which a direct call fetched the root's
              \* collection
  result      \* result[c]: "none", "ok", "error" (rolled back) or "refused"
              \* (StartTransaction failed)

locks == <<persistMu, storeMu, txMu>>
storeVars == <<pc, use, locks, rootData, gen, snap, wrote, fetchedAt, result>>

Results == {"none", "ok", "error", "refused"}

PcValues == {"idle", "persist", "start", "clone", "callback", "commit",
             "rollback", "return", "fetch", "apply", "read", "done"}

StoreTypeOK ==
  /\ pc \in [Goroutines -> PcValues]
  /\ use \in [Goroutines -> Uses \union {"none"}]
  /\ persistMu \in Goroutines \union {None}
  /\ storeMu \in Goroutines \union {None}
  /\ txMu \in Goroutines \union {None}
  /\ rootData \subseteq Goroutines
  /\ gen \in Nat
  /\ snap \in [Goroutines -> SUBSET Goroutines]
  /\ wrote \subseteq Goroutines
  /\ fetchedAt \in [Goroutines -> Nat]
  /\ result \in [Goroutines -> Results]

StoreInit ==
  /\ pc = [c \in Goroutines |-> "idle"]
  /\ use = [c \in Goroutines |-> "none"]
  /\ persistMu = None
  /\ storeMu = None
  /\ txMu = None
  /\ rootData = {}
  /\ gen = 0
  /\ snap = [c \in Goroutines |-> {}]
  /\ wrote = {}
  /\ fetchedAt = [c \in Goroutines |-> 0]
  /\ result = [c \in Goroutines |-> "none"]

Goto(c, from, to) ==
  /\ pc[c] = from
  /\ pc' = [pc EXCEPT ![c] = to]

Arrive(c, u) ==
  /\ Goto(c, "idle", CASE u = "transact" -> "persist"
                       [] u = "write" -> "start"
                       [] u = "direct" -> "fetch"
                       [] u = "read" -> "read")
  /\ use' = [use EXCEPT ![c] = u]
  /\ UNCHANGED <<locks, rootData, gen, snap, wrote, fetchedAt, result>>

(* Transact takes the persistence's mutex around the whole transaction.    *)
LockPersistence(c) ==
  /\ Goto(c, "persist", "start")
  /\ persistMu = None
  /\ persistMu' = c
  /\ UNCHANGED <<use, storeMu, txMu, rootData, gen, snap, wrote, fetchedAt, result>>

(* StartTransaction: the store's mutex first ...                           *)
LockStore(c) ==
  /\ Goto(c, "start", "clone")
  /\ storeMu = None
  /\ storeMu' = c
  /\ UNCHANGED <<use, persistMu, txMu, rootData, gen, snap, wrote, fetchedAt, result>>

(* Mutant: the transaction mutex is not taken.                             *)
LockTxAndCloneUnlocked(c) ==
  /\ Goto(c, "clone", "callback")
  /\ txMu' = c
  /\ snap' = [snap EXCEPT ![c] = rootData]
  /\ storeMu' = None
  /\ UNCHANGED <<use, persistMu, rootData, gen, wrote, fetchedAt, result>>

(* ... then, still holding it, the transaction mutex; the collections are  *)
(* cloned and the store's mutex released.                                  *)
LockTxAndClone(c) ==
  /\ Goto(c, "clone", "callback")
  /\ txMu = None
  /\ txMu' = c
  /\ snap' = [snap EXCEPT ![c] = rootData]
  /\ storeMu' = None
  /\ UNCHANGED <<use, persistMu, rootData, gen, wrote, fetchedAt, result>>

(* A collection's Clone fails: the store's mutex is released on the way    *)
(* out, the transaction mutex stays locked, and Execute returns without a  *)
(* transaction to end.                                                     *)
CloneFails(c) ==
  /\ Goto(c, "clone", "return")
  /\ txMu = None
  /\ txMu' = c
  /\ storeMu' = None
  /\ result' = [result EXCEPT ![c] = "refused"]
  /\ UNCHANGED <<use, persistMu, rootData, gen, snap, wrote, fetchedAt>>

(* Mutant: the clone shares its documents with the root.                   *)
TxWriteShared(c) ==
  /\ pc[c] = "callback"
  /\ snap' = [snap EXCEPT ![c] = @ \union {c}]
  /\ rootData' = rootData \union {c}
  /\ wrote' = wrote \union {c}
  /\ UNCHANGED <<pc, use, locks, gen, fetchedAt, result>>

(* The callback writes to the clone.                                       *)
TxWrite(c) ==
  /\ pc[c] = "callback"
  /\ snap' = [snap EXCEPT ![c] = @ \union {c}]
  /\ wrote' = wrote \union {c}
  /\ UNCHANGED <<pc, use, locks, rootData, gen, fetchedAt, result>>

CallbackReturns(c) ==
  /\ \/ Goto(c, "callback", "commit")
     \/ Goto(c, "callback", "rollback")
  /\ UNCHANGED <<use, locks, rootData, gen, snap, wrote, fetchedAt, result>>

(* Commit: under the root store's mutex, the clone replaces the root's     *)
(* collections and the transaction mutex is released.                      *)
CommitTx(c) ==
  /\ Goto(c, "commit", "return")
  /\ storeMu = None
  /\ rootData' = snap[c]
  /\ gen' = gen + 1
  /\ txMu' = None
  /\ result' = [result EXCEPT ![c] = "ok"]
  /\ UNCHANGED <<use, persistMu, storeMu, snap, wrote, fetchedAt>>

RollbackTx(c) ==
  /\ Goto(c, "rollback", "return")
  /\ txMu' = None
  /\ result' = [result EXCEPT ![c] = "error"]
  /\ UNCHANGED <<use, persistMu, storeMu, rootData, gen, snap, wrote, fetchedAt>>

(* Mutant: the deferred unlock is missing.                                 *)
ReturnLocked(c) ==
  /\ Goto(c, "return", "done")
  /\ UNCHANGED <<use, locks, rootData, gen, snap, wrote, fetchedAt, result>>

(* The call returns; Transact's deferred unlock runs.                      *)
Return(c) ==
  /\ Goto(c, "return", "done")
  /\ persistMu' = IF use[c] = "transact" THEN None ELSE persistMu
  /\ UNCHANGED <<use, storeMu, txMu, rootData, gen, snap, wrote, fetchedAt, result>>

(* In-place DDL: getCollection under the read lock, then the change to the *)
(* collection fetched, which a Commit may have replaced since.             *)
DirectFetch(c) ==
  /\ Goto(c, "fetch", "apply")
  /\ storeMu = None
  /\ fetchedAt' = [fetchedAt EXCEPT ![c] = gen]
  /\ UNCHANGED <<use, locks, rootData, gen, snap, wrote, result>>

DirectApply(c) ==
  /\ Goto(c, "apply", "done")
  /\ rootData' = IF fetchedAt[c] = gen THEN rootData \union {c} ELSE rootData
  /\ result' = [result EXCEPT ![c] = "ok"]
  /\ UNCHANGED <<use, locks, gen, snap, wrote, fetchedAt>>

Read(c) ==
  /\ Goto(c, "read", "done")
  /\ storeMu = None
  /\ result' = [result EXCEPT ![c] = "ok"]
  /\ UNCHANGED <<use, locks, rootData, gen, snap, wrote, fetchedAt>>

StoreStep(c) ==
  \/ LockPersistence(c) \/ LockStore(c)
  \/ LockTxAndClone(c) \/ CloneFails(c)
  \/ TxWrite(c) \/ CallbackReturns(c)
  \/ CommitTx(c) \/ RollbackTx(c) \/ Return(c)
  \/ DirectFetch(c) \/ DirectApply(c) \/ Read(c)

StoreNext == \E c \in Goroutines : StoreStep(c) \/ \E u \in Uses : Arrive(c, u)

StoreSpec == StoreInit /\ [][StoreNext]_storeVars

(* Every goroutine runs on until it waits for a lock, and a lock that is   *)
(* free again and again is eventually taken by each that waits for it (Go  *)
(* hands a contended mutex over in order).  The callback returns.          *)
FairStoreSpec ==
  /\ StoreSpec
  /\ \A c \in Goroutines :
       /\ SF_storeVars(LockPersistence(c)) /\ SF_storeVars(LockStore(c))
       /\ SF_storeVars(LockTxAndClone(c)) /\ SF_storeVars(CommitTx(c))
       /\ SF_storeVars(DirectFetch(c)) /\ SF_storeVars(Read(c))
       /\ WF_storeVars(CallbackReturns(c)) /\ WF_storeVars(RollbackTx(c))
       /\ WF_storeVars(Return(c)) /\ WF_storeVars(DirectApply(c))

----------------------------------------------------------------------------
Active(c) == pc[c] \in {"callback", "commit", "rollback"}

(* However many callers bypass Transact, no two clones of the root live    *)
(* side by side, and the clone of the one transaction that runs holds      *)
(* every transaction committed before: its Commit, which replaces the      *)
(* whole root, is built on the latest root.                                *)
TransactionsSerialized ==
  \A c \in Goroutines :
    Active(c) =>
      \A d \in Goroutines \ {c} :
        /\ ~Active(d)
        /\ use[d] \in Transactional /\ d \in rootData => d \in snap[c]

(* Replacing the root's collections as a whole loses no committed          *)
(* transaction, shows nothing of an unfinished one, and leaves nothing of  *)
(* one that was rolled back: the root holds what transaction c wrote       *)
(* exactly if c wrote and c was committed.                                 *)
CommitsAccumulate ==
  \A c \in Goroutines :
    use[c] \in Transactional =>
      (c \in rootData <=> c \in wrote /\ result[c] = "ok")

(* Each lock is held by the call that has something left to do before it   *)
(* releases it, and by no other: storeMu inside StartTransaction, persistMu*)
(* inside Transact, txMu from StartTransaction to Commit or Rollback, which*)
(* are other calls.  The one exception is a StartTransaction whose Clone   *)
(* failed: it keeps txMu for ever.                                         *)
LocksOwned ==
  /\ \A c \in Goroutines : storeMu = c <=> pc[c] = "clone"
  /\ \A c \in Goroutines :
       persistMu = c <=> /\ use[c] = "transact"
                         /\ pc[c] \notin {"idle", "persist", "done"}
  /\ \A c \in Goroutines : txMu = c <=> Active(c) \/ result[c] = "refused"

(* Capabilities.RequiresTransactionSerialization "forces all transactions  *)
(* to be serialized with a mutex": then every call gets its turn.          *)
EveryCallReturns ==
  \A c \in Goroutines : pc[c] # "idle" ~> pc[c] = "done"

=============================================================================
