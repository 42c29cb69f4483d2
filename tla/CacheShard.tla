----------------------------- MODULE CacheShard -----------------------------
(***************************************************************************)
(* cacheShard: one lock's worth of the cache.  Every operation runs under  *)
(* the shard's lock, so each is an operator from a shard to a shard.       *)
(*                                                                         *)
(* A shard is a record of                                                  *)
(*   items   the map: a function from the cached keys to their entries     *)
(*   order   the list, front first, of the keys of its elements            *)
(*   hand    clockHand: the key of an element, or NoHand for nil           *)
(*   added   what this shard has added to the cache-wide counter           *)
(*           globalSize, which is the sum of these                         *)
(*   held    per key, the artifacts handed to the cache that were neither  *)
(*           passed to onEvict nor replaced by a newer one (not in the     *)
(*           code: it counts what the code owes its caller)                *)
(* Time is abstracted to whether an entry has expired: "live" entries have *)
(* a deadline ahead of them, "never" is the zero expiresAt.                *)
(***************************************************************************)
EXTENDS Integers, FiniteSets, Sequences, SequencesExt

CONSTANTS
  Keys,        \* the keys in use
  NoHand,      \* clockHand = nil
  MaxEntries   \* the shard's hard cap, 0 for none

ASSUME NoHandAssumption == NoHand \notin Keys
ASSUME MaxEntriesAssumption == MaxEntries \in Nat

Ttls == {"never", "live", "expired"}
Entries == [notAvailable : BOOLEAN, ttl : Ttls, accessed : BOOLEAN]

EmptyShard ==
  [items |-> [k \in {} |-> {}], order |-> <<>>, hand |-> NoHand,
   added |-> 0, held |-> [k \in Keys |-> 0]]

Cached(sh) == DOMAIN sh.items
Expired(sh, k) == sh.items[k].ttl = "expired"
Positive(sh, k) == ~sh.items[k].notAvailable

Without(items, k) ==
  [j \in DOMAIN items \ {k} |-> items[j]]

Place(order, k) == CHOOSE i \in DOMAIN order : order[i] = k
Dropped(order, k) == RemoveAt(order, Place(order, k))

(* onEvict, called for a positive entry.                                   *)
OnEvict(held, k) == [held EXCEPT ![k] = @ - 1]

(* Mutant: the hand stays on the removed element.                          *)
RemoveElementKeepingHand(sh, k) ==
  [sh EXCEPT !.items = Without(@, k),
             !.order = Dropped(@, k),
             !.added = @ - 1,
             !.held = IF Positive(sh, k) THEN OnEvict(@, k) ELSE @]

(* removeElementLocked: a hand on the element steps to its Prev, or to its *)
(* Next at the front of the list.                                          *)
RemoveElement(sh, k) ==
  LET p == Place(sh.order, k)
      beside == CASE p > 1 -> sh.order[p - 1]
                  [] p = 1 /\ Len(sh.order) > 1 -> sh.order[2]
                  [] OTHER -> NoHand
  IN  [sh EXCEPT !.items = Without(@, k),
                 !.order = Dropped(@, k),
                 !.hand = IF @ = k THEN beside ELSE @,
                 !.added = @ - 1,
                 !.held = IF Positive(sh, k) THEN OnEvict(@, k) ELSE @]

(* The keys in the order one pass of the scan meets them: from the hand    *)
(* (Back when nil) towards the front, wrapping to the back.                *)
ScanOrder(sh) ==
  LET n == Len(sh.order)
      start == IF sh.hand = NoHand THEN n ELSE Place(sh.order, sh.hand)
  IN  [i \in 1 .. n |-> sh.order[((start - i) % n) + 1]]

(* Mutant: the entry under the hand goes, read or not.                     *)
EvictOneCLOCKFirst(sh) ==
  IF sh.order = <<>> THEN sh ELSE RemoveElement(sh, ScanOrder(sh)[1])

(* evictOneCLOCK: the first entry of the pass whose accessed bit is clear  *)
(* goes; those before it lose the bit.  If a whole pass finds none, the    *)
(* hand is back where it started and that entry goes.                      *)
EvictOneCLOCK(sh) ==
  IF sh.order = <<>> THEN sh
  ELSE LET scan == ScanOrder(sh)
           unread == {i \in DOMAIN scan : ~sh.items[scan[i]].accessed}
           v == IF unread = {} THEN 1
                ELSE CHOOSE i \in unread : \A j \in unread : i <= j
           passed == {scan[i] : i \in IF unread = {} THEN DOMAIN scan
                                      ELSE 1 .. v - 1}
           spared == [k \in Cached(sh) |->
                        IF k \in passed
                        THEN [sh.items[k] EXCEPT !.accessed = FALSE]
                        ELSE sh.items[k]]
       IN  RemoveElement([sh EXCEPT !.items = spared, !.hand = scan[v]],
                         scan[v])

(* upsertLocked of an existing key; the value it replaces is not passed to *)
(* onEvict (nullify has done so for itself).                               *)
Overwrite(sh, k, e) ==
  [sh EXCEPT !.items[k] = e,
             !.order = <<k>> \o Dropped(@, k)]

(* upsertLocked of a new key, up to the capacity check.                    *)
Insert(sh, k, e) ==
  [sh EXCEPT !.items = [j \in Cached(sh) \union {k} |->
                          IF j = k THEN e ELSE sh.items[j]],
             !.order = <<k>> \o @,
             !.added = @ + 1]

(* Mutant: the cap is compared off by one.                                 *)
UpsertOverCap(sh, k, e) ==
  IF k \in Cached(sh) THEN Overwrite(sh, k, e)
  ELSE LET new == Insert(sh, k, e)
       IN  IF MaxEntries > 0 /\ Cardinality(Cached(new)) > MaxEntries + 1
           THEN EvictOneCLOCK(new) ELSE new

Upsert(sh, k, e) ==
  IF k \in Cached(sh) THEN Overwrite(sh, k, e)
  ELSE LET new == Insert(sh, k, e)
       IN  IF MaxEntries > 0 /\ Cardinality(Cached(new)) > MaxEntries
           THEN EvictOneCLOCK(new) ELSE new

FreshEntry(notAvailable, ttl) ==
  [notAvailable |-> notAvailable, ttl |-> ttl, accessed |-> FALSE]

(* set: the artifact given to the cache is from now on held for the caller.*)
SetEntry(sh, k, ttl) ==
  Upsert(IF k \in Cached(sh) /\ Positive(sh, k)
         THEN sh ELSE [sh EXCEPT !.held[k] = @ + 1],
         k, FreshEntry(FALSE, ttl))

(* Mutant: nullify overwrites a positive entry without calling onEvict.    *)
NullifySilently(sh, k, ttl) == Upsert(sh, k, FreshEntry(TRUE, ttl))

Nullify(sh, k, ttl) ==
  Upsert(IF k \in Cached(sh) /\ Positive(sh, k)
         THEN [sh EXCEPT !.held = OnEvict(@, k)] ELSE sh,
         k, FreshEntry(TRUE, ttl))

(* getStatus: an expired entry stays where it is.                          *)
GetStatus(sh, k) ==
  IF k \in Cached(sh) /\ ~Expired(sh, k)
  THEN [sh EXCEPT !.items = [@ EXCEPT ![k].accessed = TRUE]] ELSE sh

Evict(sh, k) == IF k \in Cached(sh) THEN RemoveElement(sh, k) ELSE sh

(* clear: onEvict for every positive entry, then everything is new.        *)
Clear(sh) ==
  [items |-> [k \in {} |-> {}], order |-> <<>>, hand |-> NoHand,
   added |-> sh.added - Cardinality(Cached(sh)),
   held |-> [k \in Keys |-> IF k \in Cached(sh) /\ Positive(sh, k)
                            THEN sh.held[k] - 1 ELSE sh.held[k]]]

Persist(sh, k) ==
  CASE k \notin Cached(sh) -> sh
    [] k \in Cached(sh) /\ Expired(sh, k) -> RemoveElement(sh, k)
    [] OTHER -> [sh EXCEPT !.items = [@ EXCEPT ![k].ttl = "never"]]

(* sweepExpiredBounded: from the back of the list, limit elements at most; *)
(* swept[i] is the shard once the last i of them have been looked at.      *)
SweepExpired(sh, limit) ==
  LET n == Len(sh.order)
      swept[i \in 0 .. n] ==
        IF i = 0 THEN sh
        ELSE LET k == sh.order[n + 1 - i]
             IN  IF Expired(sh, k) THEN RemoveElement(swept[i - 1], k) ELSE swept[i - 1]
  IN  swept[IF limit < n THEN limit ELSE n]

=============================================================================
