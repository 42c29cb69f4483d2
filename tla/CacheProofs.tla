---------------------------- MODULE CacheProofs ----------------------------
(***************************************************************************)
(* The managed cache, for every number of shards, keys and writers, every  *)
(* cap, watermark and batch: whichever of the writers, the evictor, the    *)
(* janitor and Clear works on a shard, the list, the map, the clock hand   *)
(* and the counter agree, the cap holds, each artifact is given back once, *)
(* and the clock spares what was read.                                     *)
(*                                                                         *)
(* The invariant is one predicate on a shard, Tidy.  Each operation of     *)
(* CacheShard has a lemma that says it keeps a shard tidy and which keys   *)
(* it takes out; the steps of the cache then follow by these lemmas.       *)
(***************************************************************************)
EXTENDS ManagedCache, SequenceTheorems, FiniteSetTheorems,
        WellFoundedInduction, TLAPS

----------------------------------------------------------------------------
(* Numbers and sequences.                                                  *)

LEMMA LeastOf ==
  ASSUME NEW T \in SUBSET Nat, T # {}
  PROVE  \E m \in T : \A n \in T : m <= n
<1>. DEFINE R == {ss \in Nat \X Nat : ss[1] < ss[2]}
<1>1. IsWellFoundedOn(R, Nat)
  BY NatLessThanWellFounded, Zenon DEF OpToRel
<1>2. \A x, y \in Nat : <<y, x>> \in R <=> y < x
  OBVIOUS
<1>. HIDE DEF R
<1>3. PICK x \in T : \A y \in T : ~ (<<y, x>> \in R)
  BY <1>1, WFMin
<1>4. \A y \in T : x \in Nat /\ y \in Nat /\ ~(y < x)
  BY <1>2, <1>3
<1>5. \A y \in T : x <= y
  BY <1>4
<1> QED
  BY <1>5

LEMMA Modulo ==
  ASSUME NEW n \in Nat \ {0}, NEW x \in Int
  PROVE  /\ x % n \in 0 .. n - 1
         /\ x \in 0 .. n - 1 => x % n = x
         /\ x + n \in 0 .. n - 1 => x % n = x + n
<1>1. x % n \in 0 .. n - 1
  OBVIOUS
<1>2. x \in 0 .. n - 1 => x % n = x
  OBVIOUS
<1>3. x + n \in 0 .. n - 1 => x % n = x + n
  OBVIOUS
<1> QED
  BY <1>1, <1>2, <1>3

(* RemoveAt closes the gap.                                                *)
LEMMA RemoveAtIs ==
  ASSUME NEW order \in Seq(Keys), NEW p \in DOMAIN order
  PROVE  /\ RemoveAt(order, p) \in Seq(Keys)
         /\ Len(RemoveAt(order, p)) = Len(order) - 1
         /\ \A i \in 1 .. p - 1 : RemoveAt(order, p)[i] = order[i]
         /\ \A i \in p .. Len(order) - 1 :
              RemoveAt(order, p)[i] = order[i + 1]
<1>. DEFINE front == SubSeq(order, 1, p - 1)
            back == SubSeq(order, p + 1, Len(order))
<1>0. /\ p \in 1 .. Len(order)
      /\ Len(order) \in Nat
      /\ \A i \in 1 .. Len(order) : order[i] \in Keys
  OBVIOUS
<1>1. /\ front \in Seq(Keys)
      /\ Len(front) = p - 1
      /\ \A i \in 1 .. p - 1 : front[i] = order[i]
  BY <1>0, SubSeqProperties
<1>2. /\ back \in Seq(Keys)
      /\ Len(back) = Len(order) - p
      /\ \A i \in 1 .. Len(order) - p : back[i] = order[i + p]
  BY <1>0, SubSeqProperties
<1>. HIDE DEF front, back
<1>3. /\ front \o back \in Seq(Keys)
      /\ Len(front \o back) = Len(front) + Len(back)
      /\ \A i \in 1 .. Len(front) + Len(back) :
           (front \o back)[i] = IF i <= Len(front) THEN front[i]
                                ELSE back[i - Len(front)]
  BY <1>1, <1>2, ConcatProperties
<1>4. RemoveAt(order, p) = front \o back
  BY DEF RemoveAt, front, back
<1>5. /\ RemoveAt(order, p) \in Seq(Keys)
      /\ Len(RemoveAt(order, p)) = Len(order) - 1
  <2>1. Len(front) + Len(back) = Len(order) - 1
    BY <1>0, <1>1, <1>2
  <2>2. front \o back \in Seq(Keys) /\ Len(front \o back) = Len(order) - 1
    BY <1>3, <2>1
  <2> QED
    BY <1>4, <2>2
<1>6. ASSUME NEW i \in 1 .. p - 1
      PROVE  RemoveAt(order, p)[i] = order[i]
  <2>1. i \in 1 .. Len(front) + Len(back) /\ i <= Len(front)
    BY <1>0, <1>1, <1>2
  <2>2. (front \o back)[i] = front[i] /\ front[i] = order[i]
    BY <1>1, <1>3, <2>1
  <2> QED
    BY <1>4, <2>2
<1>7. ASSUME NEW i \in p .. Len(order) - 1
      PROVE  RemoveAt(order, p)[i] = order[i + 1]
  <2>1. /\ i - (p - 1) \in 1 .. Len(order) - p
        /\ (i - (p - 1)) + p = i + 1
        /\ ~(i <= p - 1)
        /\ i \in 1 .. (p - 1) + (Len(order) - p)
    BY <1>0
  <2> QED
    BY <2>1, <1>1, <1>2, <1>3, <1>4
<1> QED
  BY <1>5, <1>6, <1>7

LEMMA PlaceIs ==
  ASSUME NEW order \in Seq(Keys), NEW k \in ToSet(order)
  PROVE  Place(order, k) \in DOMAIN order /\ order[Place(order, k)] = k
BY DEF ToSet, Place

(* A list without repetition loses one key and keeps the others.           *)
LEMMA DroppedIs ==
  ASSUME NEW order \in Seq(Keys), NEW k \in ToSet(order), IsInjective(order)
  PROVE  /\ Dropped(order, k) \in Seq(Keys)
         /\ ToSet(Dropped(order, k)) = ToSet(order) \ {k}
         /\ IsInjective(Dropped(order, k))
<1>. DEFINE p == Place(order, k)
            n == Len(order)
            d == RemoveAt(order, p)
<1>1. /\ n \in Nat
      /\ DOMAIN order = 1 .. n
      /\ p \in 1 .. n
      /\ order[p] = k
      /\ \A a, b \in 1 .. n : order[a] = order[b] => a = b
      /\ Dropped(order, k) = d
  <2>1. n \in Nat /\ DOMAIN order = 1 .. n
    OBVIOUS
  <2>2. Dropped(order, k) = d
    BY DEF Dropped
  <2>. HIDE DEF n, p, d
  <2>3. p \in DOMAIN order /\ order[p] = k
    BY PlaceIs, Zenon DEF p
  <2>4. \A a, b \in 1 .. n : order[a] = order[b] => a = b
    BY <2>1 DEF IsInjective
  <2> QED
    BY <2>1, <2>2, <2>3, <2>4
<1>2. /\ d \in Seq(Keys)
      /\ Len(d) = n - 1
      /\ DOMAIN d = 1 .. n - 1
      /\ \A i \in 1 .. p - 1 : d[i] = order[i]
      /\ \A i \in p .. n - 1 : d[i] = order[i + 1]
  <2>. HIDE DEF p
  <2>1. p \in DOMAIN order
    BY <1>1
  <2>2. /\ d \in Seq(Keys)
        /\ Len(d) = n - 1
        /\ \A i \in 1 .. p - 1 : d[i] = order[i]
        /\ \A i \in p .. n - 1 : d[i] = order[i + 1]
    BY <2>1, RemoveAtIs, Zenon
  <2>. HIDE DEF d, n
  <2>3. DOMAIN d = 1 .. Len(d)
    BY <2>2
  <2> QED
    BY <2>2, <2>3, Zenon
<1>. HIDE DEF p, n, d
<1>3. \A i \in 1 .. n - 1 : \E j \in 1 .. n :
        /\ d[i] = order[j]
        /\ j # p
        /\ j = IF i < p THEN i ELSE i + 1
  BY <1>1, <1>2
<1>4. \A j \in 1 .. n : j # p => \E i \in 1 .. n - 1 : d[i] = order[j]
  <2>. SUFFICES ASSUME NEW j \in 1 .. n, j # p
                PROVE  \E i \in 1 .. n - 1 : d[i] = order[j]
    OBVIOUS
  <2>1. CASE j < p
    BY <2>1, <1>1, <1>2
  <2>2. CASE j > p
    <3>1. j - 1 \in p .. n - 1 /\ j - 1 \in 1 .. n - 1 /\ (j - 1) + 1 = j
      BY <2>2, <1>1
    <3> QED
      BY <3>1, <1>2
  <2> QED
    BY <2>1, <2>2, <1>1
<1>5. ToSet(d) = ToSet(order) \ {k}
  <2>1. ASSUME NEW x \in ToSet(d) PROVE x \in ToSet(order) \ {k}
    <3>1. PICK i \in 1 .. n - 1 : x = d[i]
      BY <2>1, <1>2 DEF ToSet
    <3>2. PICK j \in 1 .. n : x = order[j] /\ j # p
      BY <3>1, <1>3
    <3>3. x # k
      BY <3>2, <1>1
    <3> QED
      BY <3>2, <3>3, <1>1 DEF ToSet
  <2>2. ASSUME NEW x \in ToSet(order) \ {k} PROVE x \in ToSet(d)
    <3>1. PICK j \in 1 .. n : x = order[j]
      BY <2>2, <1>1 DEF ToSet
    <3>2. j # p
      BY <3>1, <2>2, <1>1
    <3>3. PICK i \in 1 .. n - 1 : d[i] = x
      BY <3>1, <3>2, <1>4
    <3> QED
      BY <3>3, <1>2 DEF ToSet
  <2> QED
    BY <2>1, <2>2
<1>6. IsInjective(d)
  <2>. SUFFICES ASSUME NEW a \in 1 .. n - 1, NEW b \in 1 .. n - 1,
                       d[a] = d[b]
                PROVE  a = b
    BY <1>2 DEF IsInjective
  <2>1. PICK i \in 1 .. n : d[a] = order[i] /\ i = IF a < p THEN a ELSE a + 1
    BY <1>3
  <2>2. PICK j \in 1 .. n : d[b] = order[j] /\ j = IF b < p THEN b ELSE b + 1
    BY <1>3
  <2>3. i = j
    BY <2>1, <2>2, <1>1
  <2> QED
    BY <2>1, <2>2, <2>3, <1>1
<1> QED
  BY <1>1, <1>2, <1>5, <1>6

(* A key the list does not hold goes to its front.                         *)
LEMMA PushedIs ==
  ASSUME NEW order \in Seq(Keys), NEW k \in Keys, k \notin ToSet(order),
         IsInjective(order)
  PROVE  /\ <<k>> \o order \in Seq(Keys)
         /\ ToSet(<<k>> \o order) = ToSet(order) \union {k}
         /\ IsInjective(<<k>> \o order)
         /\ <<k>> \o order # <<>>
<1>. DEFINE n == Len(order)
            d == <<k>> \o order
<1>1. n \in Nat /\ DOMAIN order = 1 .. n
  OBVIOUS
<1>2. /\ d \in Seq(Keys)
      /\ Len(d) = n + 1
      /\ \A i \in 1 .. n + 1 : d[i] = IF i = 1 THEN k ELSE order[i - 1]
  OBVIOUS
<1>3. DOMAIN d = 1 .. n + 1
  BY <1>2
<1>. HIDE DEF n, d
<1>4. ToSet(d) = ToSet(order) \union {k}
  <2>1. ASSUME NEW x \in ToSet(d) PROVE x \in ToSet(order) \union {k}
    <3>1. PICK i \in 1 .. n + 1 : x = d[i]
      BY <2>1, <1>3 DEF ToSet
    <3>2. CASE i = 1
      BY <3>1, <3>2, <1>2
    <3>3. CASE i # 1
      <4>1. i - 1 \in 1 .. n /\ x = order[i - 1]
        BY <3>1, <3>3, <1>1, <1>2
      <4> QED
        BY <4>1, <1>1 DEF ToSet
    <3> QED
      BY <3>2, <3>3
  <2>2. ASSUME NEW j \in 1 .. n PROVE order[j] \in ToSet(d)
    <3>1. j + 1 \in 1 .. n + 1 /\ j + 1 # 1 /\ (j + 1) - 1 = j
      BY <1>1
    <3>2. d[j + 1] = order[j]
      BY <3>1, <1>2
    <3> QED
      BY <3>1, <3>2, <1>3 DEF ToSet
  <2>3. k \in ToSet(d)
    BY <1>1, <1>2, <1>3 DEF ToSet
  <2> QED
    BY <2>1, <2>2, <2>3, <1>1 DEF ToSet
<1>5. IsInjective(d)
  <2>. SUFFICES ASSUME NEW a \in 1 .. n + 1, NEW b \in 1 .. n + 1,
                       d[a] = d[b]
                PROVE  a = b
    BY <1>3 DEF IsInjective
  <2>1. \A i \in 1 .. n : order[i] # k
    BY <1>1 DEF ToSet
  <2>2. \A i, j \in 1 .. n : order[i] = order[j] => i = j
    BY <1>1 DEF IsInjective
  <2>3. a # 1 => a - 1 \in 1 .. n
    BY <1>1
  <2>4. b # 1 => b - 1 \in 1 .. n
    BY <1>1
  <2>5. a = 1 <=> b = 1
    BY <1>2, <2>1, <2>3, <2>4
  <2>6. a # 1 /\ b # 1 => a - 1 = b - 1
    BY <1>2, <2>2, <2>3, <2>4
  <2> QED
    BY <2>5, <2>6, <1>1
<1>6. d # <<>>
  BY <1>1, <1>2
<1> QED
  BY <1>2, <1>4, <1>5, <1>6 DEF d

(* One pass of the clock meets every key of the list, and nothing else.    *)
LEMMA ScanIs ==
  ASSUME NEW sh, sh.order \in Seq(Keys), sh.order # <<>>,
         sh.hand \in ToSet(sh.order) \union {NoHand}
  PROVE  LET scan == ScanOrder(sh) IN
         /\ DOMAIN scan = 1 .. Len(sh.order)
         /\ Len(sh.order) \in Nat \ {0}
         /\ \A i \in DOMAIN scan : scan[i] \in ToSet(sh.order)
         /\ \A x \in ToSet(sh.order) : \E i \in DOMAIN scan : scan[i] = x
<1>. DEFINE n == Len(sh.order)
            start == IF sh.hand = NoHand THEN n ELSE Place(sh.order, sh.hand)
            scan == [i \in 1 .. n |-> sh.order[((start - i) % n) + 1]]
<1>1. n \in Nat \ {0} /\ DOMAIN sh.order = 1 .. n
  BY EmptySeq
<1>2. start \in 1 .. n
  BY <1>1, PlaceIs
<1>. HIDE DEF n, start
<1>3. \A i \in 1 .. n : ((start - i) % n) + 1 \in 1 .. n
  <2>. SUFFICES ASSUME NEW i \in 1 .. n
                PROVE  ((start - i) % n) + 1 \in 1 .. n
    OBVIOUS
  <2>. DEFINE x == start - i
  <2>0. x \in Int
    BY <1>1, <1>2
  <2>. HIDE DEF x
  <2>2. x % n \in 0 .. n - 1
    BY <2>0, <1>1, Modulo
  <2>1. (start - i) % n \in 0 .. n - 1
    BY <2>2 DEF x
  <2> QED
    BY <2>1, <1>1
<1>4. ASSUME NEW p \in 1 .. n
      PROVE  \E i \in 1 .. n : scan[i] = sh.order[p]
  <2>1. CASE p <= start
    <3>1. /\ start - p + 1 \in 1 .. n
          /\ start - (start - p + 1) = p - 1
          /\ p - 1 \in 0 .. n - 1
      BY <2>1, <1>1, <1>2
    <3>. DEFINE x == p - 1
                i == start - p + 1
    <3>2. x \in 0 .. n - 1 /\ x \in Int /\ start - i = x /\ x + 1 = p
      BY <3>1, <1>1
    <3>3. i \in 1 .. n
      BY <3>1
    <3>. HIDE DEF x, i
    <3>4. x % n = x
      BY <3>2, <1>1, Modulo
    <3>5. ((start - i) % n) + 1 = p
      BY <3>2, <3>4
    <3> QED
      BY <3>3, <3>5
  <2>2. CASE p > start
    <3>1. /\ start - p + 1 + n \in 1 .. n
          /\ start - (start - p + 1 + n) = (p - 1) - n
          /\ (p - 1) - n \in Int
          /\ ((p - 1) - n) + n = p - 1
          /\ p - 1 \in 0 .. n - 1
      BY <2>2, <1>1, <1>2
    <3>2. ((p - 1) - n) % n = p - 1
      BY <3>1, <1>1, Modulo
    <3>3. ((start - (start - p + 1 + n)) % n) + 1 = p
      BY <3>1, <3>2, <1>1
    <3> QED
      BY <3>1, <3>3
  <2> QED
    BY <2>1, <2>2, <1>1, <1>2
<1>5. ScanOrder(sh) = scan
  BY DEF ScanOrder, n, start
<1>6. \A i \in 1 .. n : scan[i] \in ToSet(sh.order)
  BY <1>1, <1>3 DEF ToSet
<1>7. \A x \in ToSet(sh.order) : \E i \in 1 .. n : scan[i] = x
  BY <1>1, <1>4 DEF ToSet
<1>8. DOMAIN scan = 1 .. n
  OBVIOUS
<1>. HIDE DEF scan
<1> QED
  BY <1>1, <1>5, <1>6, <1>7, <1>8 DEF n

----------------------------------------------------------------------------
(* Shards.                                                                 *)

ItemMaps == UNION {[D -> Entries] : D \in SUBSET Keys}
ShardRecords ==
  [items : ItemMaps, order : Seq(Keys), hand : Keys \union {NoHand},
   added : Int, held : [Keys -> Int]]

(* What every operation keeps, held aside: the list and the map hold the   *)
(* same keys and the shard's share of the counter is their number.         *)
Shaped(sh) ==
  /\ sh \in ShardRecords
  /\ ListMatchesMap(sh)
  /\ IsFiniteSet(Cached(sh))
  /\ sh.added = Cardinality(Cached(sh))

(* What is held for the caller, if key k now had the entry e.              *)
Owed(sh, k, e) ==
  \A j \in Keys :
    sh.held[j] = IF j = k THEN (IF e.notAvailable THEN 0 ELSE 1)
                 ELSE IF j \in Cached(sh) /\ Positive(sh, j) THEN 1 ELSE 0

Settled(sh) ==
  \A j \in Keys :
    sh.held[j] = IF j \in Cached(sh) /\ Positive(sh, j) THEN 1 ELSE 0

Tidy(sh) == Shaped(sh) /\ Settled(sh)

Capped(sh) == MaxEntries > 0 => Cardinality(Cached(sh)) <= MaxEntries

LEMMA ItemMap ==
  ASSUME NEW f
  PROVE  f \in ItemMaps <=> /\ f = [k \in DOMAIN f |-> f[k]]
                            /\ DOMAIN f \subseteq Keys
                            /\ \A k \in DOMAIN f : f[k] \in Entries
BY DEF ItemMaps

LEMMA RecordIs ==
  ASSUME NEW sh \in ShardRecords
  PROVE  /\ sh.items \in ItemMaps
         /\ Cached(sh) \subseteq Keys
         /\ \A k \in Cached(sh) :
              /\ sh.items[k] \in Entries
              /\ sh.items[k].notAvailable \in BOOLEAN
         /\ sh.order \in Seq(Keys)
         /\ sh.hand \in Keys \union {NoHand}
         /\ sh.added \in Int
         /\ sh.held \in [Keys -> Int]
<1>1. /\ sh.items \in ItemMaps
      /\ sh.order \in Seq(Keys)
      /\ sh.hand \in Keys \union {NoHand}
      /\ sh.added \in Int
      /\ sh.held \in [Keys -> Int]
  BY DEF ShardRecords
<1>2. /\ Cached(sh) \subseteq Keys
      /\ \A k \in Cached(sh) : sh.items[k] \in Entries
  BY <1>1, ItemMap DEF Cached
<1>3. \A e \in Entries : e.notAvailable \in BOOLEAN
  BY DEF Entries
<1> QED
  BY <1>1, <1>2, <1>3

(* removeElementLocked, field by field.                                    *)
LEMMA RemoveFields ==
  ASSUME NEW sh \in ShardRecords, NEW k
  PROVE  LET new == RemoveElement(sh, k) IN
         /\ new.items = Without(sh.items, k)
         /\ new.order = Dropped(sh.order, k)
         /\ new.hand = LET p == Place(sh.order, k) IN
              IF sh.hand = k
              THEN CASE p > 1 -> sh.order[p - 1]
                     [] p = 1 /\ Len(sh.order) > 1 -> sh.order[2]
                     [] OTHER -> NoHand
              ELSE sh.hand
         /\ new.added = sh.added - 1
         /\ new.held = IF Positive(sh, k) THEN OnEvict(sh.held, k)
                       ELSE sh.held
         /\ new = [items |-> new.items, order |-> new.order,
                   hand |-> new.hand, added |-> new.added,
                   held |-> new.held]
<1>. DEFINE p == Place(sh.order, k)
            beside == CASE p > 1 -> sh.order[p - 1]
                        [] p = 1 /\ Len(sh.order) > 1 -> sh.order[2]
                        [] OTHER -> NoHand
            held == IF Positive(sh, k) THEN OnEvict(sh.held, k) ELSE sh.held
            items == Without(sh.items, k)
            order == Dropped(sh.order, k)
            hand == IF sh.hand = k THEN beside ELSE sh.hand
            new == [items |-> items, order |-> order, hand |-> hand,
                    added |-> sh.added - 1, held |-> held]
<1>1. sh = [items |-> sh.items, order |-> sh.order, hand |-> sh.hand,
            added |-> sh.added, held |-> sh.held]
  BY DEF ShardRecords
<1>2. RemoveElement(sh, k)
        = [sh EXCEPT !.items = items, !.order = order, !.hand = hand,
                     !.added = sh.added - 1, !.held = held]
  BY DEF RemoveElement
<1>. HIDE DEF p, beside, held, items, order, hand
<1>3. RemoveElement(sh, k) = new
  BY <1>1, <1>2
<1> QED
  BY <1>3 DEF p, beside, held, items, order, hand

LEMMA RemoveKeeps ==
  ASSUME NEW sh, Shaped(sh), NEW k \in Cached(sh)
  PROVE  LET new == RemoveElement(sh, k) IN
         /\ Shaped(new)
         /\ Cached(new) = Cached(sh) \ {k}
         /\ \A j \in Cached(new) : new.items[j] = sh.items[j]
         /\ Settled(sh) => Settled(new)
<1>. DEFINE new == RemoveElement(sh, k)
            p == Place(sh.order, k)
<1>1. /\ sh \in ShardRecords
      /\ ToSet(sh.order) = Cached(sh)
      /\ IsInjective(sh.order)
      /\ sh.hand \in Cached(sh) \union {NoHand}
      /\ IsFiniteSet(Cached(sh))
      /\ sh.added = Cardinality(Cached(sh))
  BY DEF Shaped, ListMatchesMap
<1>2. /\ sh.items \in ItemMaps
      /\ Cached(sh) \subseteq Keys
      /\ \A j \in Cached(sh) : /\ sh.items[j] \in Entries
                               /\ sh.items[j].notAvailable \in BOOLEAN
      /\ sh.order \in Seq(Keys)
      /\ sh.held \in [Keys -> Int]
  BY <1>1, RecordIs
<1>3. /\ new.items = Without(sh.items, k)
      /\ new.order = Dropped(sh.order, k)
      /\ new.hand = IF sh.hand = k
                    THEN CASE p > 1 -> sh.order[p - 1]
                           [] p = 1 /\ Len(sh.order) > 1 -> sh.order[2]
                           [] OTHER -> NoHand
                    ELSE sh.hand
      /\ new.added = sh.added - 1
      /\ new.held = IF Positive(sh, k) THEN OnEvict(sh.held, k)
                    ELSE sh.held
      /\ new = [items |-> new.items, order |-> new.order,
                hand |-> new.hand, added |-> new.added, held |-> new.held]
  BY <1>1, RemoveFields
<1>. HIDE DEF new
<1>4. /\ Cached(new) = Cached(sh) \ {k}
      /\ \A j \in Cached(new) : new.items[j] = sh.items[j]
  BY <1>3 DEF Cached, Without
<1>5. new.items \in ItemMaps
  <2>1. /\ DOMAIN new.items \subseteq Keys
        /\ \A j \in DOMAIN new.items : new.items[j] \in Entries
    BY <1>2, <1>4 DEF Cached
  <2>2. new.items = [j \in DOMAIN new.items |-> new.items[j]]
    BY <1>3 DEF Without
  <2> QED
    BY <2>1, <2>2, ItemMap
<1>6. /\ new.order \in Seq(Keys)
      /\ ToSet(new.order) = Cached(new)
      /\ IsInjective(new.order)
  BY <1>1, <1>2, <1>3, <1>4, DroppedIs
<1>7. new.hand \in Cached(new) \union {NoHand}
  <2>1. CASE sh.hand # k
    BY <2>1, <1>1, <1>3, <1>4
  <2>2. CASE sh.hand = k
    <3>1. /\ p \in 1 .. Len(sh.order)
          /\ Len(sh.order) \in Nat
          /\ DOMAIN sh.order = 1 .. Len(sh.order)
          /\ sh.order[p] = k
      BY <1>1, <1>2, PlaceIs
    <3>. HIDE DEF p
    <3>2. \A q \in 1 .. Len(sh.order) : q # p => sh.order[q] \in Cached(new)
      BY <1>1, <1>4, <3>1 DEF IsInjective, ToSet
    <3>3. CASE p > 1
      <4>1. p - 1 \in 1 .. Len(sh.order) /\ p - 1 # p
        BY <3>1, <3>3
      <4>2. new.hand = sh.order[p - 1]
        BY <2>2, <3>3, <1>3
      <4> QED
        BY <4>1, <4>2, <3>2
    <3>4. CASE p = 1 /\ Len(sh.order) > 1
      <4>1. 2 \in 1 .. Len(sh.order) /\ 2 # p
        BY <3>1, <3>4
      <4>2. new.hand = sh.order[2]
        BY <2>2, <3>4, <1>3
      <4> QED
        BY <4>1, <4>2, <3>2
    <3>5. CASE ~(p > 1) /\ ~(p = 1 /\ Len(sh.order) > 1)
      BY <2>2, <3>5, <1>3
    <3> QED
      BY <3>3, <3>4, <3>5
  <2> QED
    BY <2>1, <2>2
<1>8. /\ IsFiniteSet(Cached(new))
      /\ new.added = Cardinality(Cached(new))
      /\ new.added \in Int
  <2>1. /\ IsFiniteSet(Cached(new))
        /\ Cardinality(Cached(new)) = Cardinality(Cached(sh)) - 1
        /\ Cardinality(Cached(sh)) \in Nat
    BY <1>1, <1>4, FS_RemoveElement, FS_CardinalityType
  <2> QED
    BY <2>1, <1>1, <1>3
<1>9. new.held \in [Keys -> Int]
  BY <1>2, <1>3 DEF OnEvict
<1>10. Shaped(new)
  <2>1. new.hand \in Keys \union {NoHand}
    BY <1>2, <1>4, <1>7
  <2>2. new \in ShardRecords
    BY <1>3, <1>5, <1>6, <1>8, <1>9, <2>1 DEF ShardRecords
  <2> QED
    BY <2>2, <1>6, <1>7, <1>8 DEF Shaped, ListMatchesMap
<1>11. ASSUME Settled(sh) PROVE Settled(new)
  <2>. SUFFICES ASSUME NEW j \in Keys
                PROVE  new.held[j] = IF j \in Cached(new) /\ Positive(new, j)
                                     THEN 1 ELSE 0
    BY DEF Settled
  <2>1. sh.held[j] = IF j \in Cached(sh) /\ Positive(sh, j) THEN 1 ELSE 0
    BY <1>11 DEF Settled
  <2>2. j # k => new.held[j] = sh.held[j]
    BY <1>2, <1>3 DEF OnEvict
  <2>3. CASE j # k
    BY <2>1, <2>2, <2>3, <1>4 DEF Positive
  <2>4. CASE j = k
    BY <2>1, <2>4, <1>2, <1>3, <1>4 DEF OnEvict
  <2> QED
    BY <2>3, <2>4
<1> QED
  BY <1>4, <1>10, <1>11 DEF new

(* The second chance: the pass clears bits, and takes an entry whose bit   *)
(* is set only if every entry's was.                                       *)
LEMMA ClockKeeps ==
  ASSUME NEW sh, Tidy(sh)
  PROVE  LET new == EvictOneCLOCK(sh) IN
         /\ Tidy(new)
         /\ sh.order = <<>> => new = sh
         /\ sh.order # <<>> =>
              \E k \in Cached(sh) :
                /\ Cached(new) = Cached(sh) \ {k}
                /\ sh.items[k].accessed =>
                     \A j \in Cached(sh) : sh.items[j].accessed
<1>1. CASE sh.order = <<>>
  BY <1>1 DEF EvictOneCLOCK
<1>2. CASE sh.order # <<>>
  <2>. DEFINE scan == ScanOrder(sh)
              unread == {i \in DOMAIN scan : ~sh.items[scan[i]].accessed}
              v == IF unread = {} THEN 1
                   ELSE CHOOSE i \in unread : \A j \in unread : i <= j
              passed == {scan[i] : i \in IF unread = {} THEN DOMAIN scan
                                         ELSE 1 .. v - 1}
              spared == [k \in Cached(sh) |->
                           IF k \in passed
                           THEN [sh.items[k] EXCEPT !.accessed = FALSE]
                           ELSE sh.items[k]]
              turned == [sh EXCEPT !.items = spared, !.hand = scan[v]]
              new == EvictOneCLOCK(sh)
  <2>1. new = RemoveElement(turned, scan[v])
    BY <1>2 DEF EvictOneCLOCK
  <2>2. /\ sh \in ShardRecords
        /\ ToSet(sh.order) = Cached(sh)
        /\ IsInjective(sh.order)
        /\ sh.hand \in Cached(sh) \union {NoHand}
        /\ IsFiniteSet(Cached(sh))
        /\ sh.added = Cardinality(Cached(sh))
        /\ Settled(sh)
    BY DEF Tidy, Shaped, ListMatchesMap
  <2>3. /\ sh.items \in ItemMaps
        /\ Cached(sh) \subseteq Keys
        /\ \A j \in Cached(sh) : /\ sh.items[j] \in Entries
                                 /\ sh.items[j].notAvailable \in BOOLEAN
        /\ sh.order \in Seq(Keys)
        /\ sh.added \in Int
        /\ sh.held \in [Keys -> Int]
    BY <2>2, RecordIs
  <2>4. /\ DOMAIN scan = 1 .. Len(sh.order)
        /\ Len(sh.order) \in Nat \ {0}
        /\ \A i \in DOMAIN scan : scan[i] \in Cached(sh)
        /\ \A x \in Cached(sh) : \E i \in DOMAIN scan : scan[i] = x
    <3>1. sh.order \in Seq(Keys) /\ sh.hand \in ToSet(sh.order) \union {NoHand}
      BY <2>2, <2>3
    <3>2. /\ DOMAIN scan = 1 .. Len(sh.order)
          /\ Len(sh.order) \in Nat \ {0}
          /\ \A i \in DOMAIN scan : scan[i] \in ToSet(sh.order)
          /\ \A x \in ToSet(sh.order) : \E i \in DOMAIN scan : scan[i] = x
      <4>. HIDE DEF unread, v, passed, spared, turned, new
      <4> QED
        BY <1>2, <3>1, ScanIs, Zenon
    <3> QED
      BY <2>2, <3>2
  <2>. HIDE DEF scan
  <2>5. /\ v \in DOMAIN scan
        /\ unread # {} => v \in unread
    <3>1. CASE unread = {}
      <4>1. v = 1
        BY <3>1
      <4>. HIDE DEF v, unread
      <4> QED
        BY <3>1, <4>1, <2>4
    <3>2. CASE unread # {}
      <4>1. unread \subseteq Nat
        BY <2>4
      <4>2. \E m \in unread : \A n \in unread : m <= n
        <5>. HIDE DEF unread
        <5> QED
          BY <4>1, <3>2, LeastOf
      <4>3. v \in unread
        <5>. HIDE DEF unread
        <5> QED
          BY <4>2, <3>2
      <4> QED
        BY <4>3, <3>2
    <3> QED
      BY <3>1, <3>2
  <2>. HIDE DEF v
  <2>6. scan[v] \in Cached(sh)
    BY <2>4, <2>5
  <2>7. ASSUME sh.items[scan[v]].accessed, NEW j \in Cached(sh)
        PROVE  sh.items[j].accessed
    <3>1. unread = {}
      <4>1. v \notin unread
        BY <2>7
      <4>. HIDE DEF unread
      <4> QED
        BY <4>1, <2>5
    <3>2. PICK i \in DOMAIN scan : scan[i] = j
      BY <2>4
    <3> QED
      BY <3>1, <3>2
  <2>. HIDE DEF passed
  <2>8. /\ DOMAIN spared = Cached(sh)
        /\ \A k \in Cached(sh) :
             /\ spared[k] \in Entries
             /\ spared[k].notAvailable = sh.items[k].notAvailable
    <3>1. \A e \in Entries :
            /\ [e EXCEPT !.accessed = FALSE] \in Entries
            /\ [e EXCEPT !.accessed = FALSE].notAvailable = e.notAvailable
      BY DEF Entries
    <3> QED
      BY <3>1, <2>3
  <2>9. spared \in ItemMaps
    BY <2>3, <2>8, ItemMap
  <2>. HIDE DEF spared
  <2>10. /\ turned \in ShardRecords
         /\ turned.items = spared
         /\ turned.order = sh.order
         /\ turned.hand = scan[v]
         /\ turned.added = sh.added
         /\ turned.held = sh.held
    <3>1. scan[v] \in Keys \union {NoHand}
      BY <2>3, <2>6
    <3> QED
      BY <3>1, <2>2, <2>9 DEF ShardRecords
  <2>. HIDE DEF turned
  <2>11. Cached(turned) = Cached(sh)
    BY <2>8, <2>10 DEF Cached
  <2>12. Shaped(turned)
    BY <2>2, <2>6, <2>10, <2>11 DEF Shaped, ListMatchesMap
  <2>13. Settled(turned)
    <3>1. \A j \in Cached(sh) : Positive(turned, j) <=> Positive(sh, j)
      BY <2>3, <2>8, <2>10 DEF Positive
    <3> QED
      BY <3>1, <2>2, <2>10, <2>11 DEF Settled
  <2>14. /\ Shaped(new)
         /\ Settled(new)
         /\ Cached(new) = Cached(sh) \ {scan[v]}
    BY <2>1, <2>6, <2>11, <2>12, <2>13, RemoveKeeps
  <2> QED
    BY <1>2, <2>6, <2>7, <2>14 DEF Tidy
<1> QED
  BY <1>1, <1>2

LEMMA OverwriteKeeps ==
  ASSUME NEW sh, Shaped(sh), NEW k \in Cached(sh), NEW e \in Entries,
         Owed(sh, k, e)
  PROVE  LET new == Overwrite(sh, k, e) IN
         /\ Tidy(new)
         /\ Cached(new) = Cached(sh)
<1>. DEFINE items == [sh.items EXCEPT ![k] = e]
            order == <<k>> \o Dropped(sh.order, k)
            new == Overwrite(sh, k, e)
<1>1. /\ sh \in ShardRecords
      /\ ToSet(sh.order) = Cached(sh)
      /\ IsInjective(sh.order)
      /\ sh.hand \in Cached(sh) \union {NoHand}
      /\ IsFiniteSet(Cached(sh))
      /\ sh.added = Cardinality(Cached(sh))
  BY DEF Shaped, ListMatchesMap
<1>2. /\ sh.items \in ItemMaps
      /\ Cached(sh) \subseteq Keys
      /\ \A j \in Cached(sh) : sh.items[j] \in Entries
      /\ sh.order \in Seq(Keys)
  BY <1>1, RecordIs
<1>3. new = [sh EXCEPT !.items = items, !.order = order]
  BY DEF Overwrite
<1>4. /\ DOMAIN items = Cached(sh)
      /\ \A j \in Cached(sh) : items[j] = IF j = k THEN e ELSE sh.items[j]
  BY DEF Cached
<1>5. items \in ItemMaps
  <2>1. /\ DOMAIN items \subseteq Keys
        /\ \A j \in DOMAIN items : items[j] \in Entries
    BY <1>2, <1>4
  <2>2. items = [j \in DOMAIN items |-> items[j]]
    OBVIOUS
  <2> QED
    BY <2>1, <2>2, ItemMap
<1>6. /\ order \in Seq(Keys)
      /\ ToSet(order) = Cached(sh)
      /\ IsInjective(order)
  <2>. DEFINE dropped == Dropped(sh.order, k)
  <2>1. /\ dropped \in Seq(Keys)
        /\ ToSet(dropped) = Cached(sh) \ {k}
        /\ IsInjective(dropped)
    BY <1>1, <1>2, DroppedIs
  <2>. HIDE DEF dropped
  <2>2. /\ <<k>> \o dropped \in Seq(Keys)
        /\ ToSet(<<k>> \o dropped) = ToSet(dropped) \union {k}
        /\ IsInjective(<<k>> \o dropped)
    BY <1>2, <2>1, PushedIs
  <2> QED
    BY <2>1, <2>2 DEF dropped
<1>. HIDE DEF items, order
<1>7. /\ new \in ShardRecords
      /\ new.items = items
      /\ new.order = order
      /\ new.hand = sh.hand
      /\ new.added = sh.added
      /\ new.held = sh.held
  BY <1>1, <1>3, <1>5, <1>6 DEF ShardRecords
<1>. HIDE DEF new
<1>8. Cached(new) = Cached(sh)
  BY <1>4, <1>7 DEF Cached
<1>9. Shaped(new)
  BY <1>1, <1>6, <1>7, <1>8 DEF Shaped, ListMatchesMap
<1>10. Settled(new)
  <2>. SUFFICES ASSUME NEW j \in Keys
                PROVE  new.held[j] = IF j \in Cached(new) /\ Positive(new, j)
                                     THEN 1 ELSE 0
    BY DEF Settled
  <2>1. CASE j = k
    <3>1. sh.held[k] = IF e.notAvailable THEN 0 ELSE 1
      BY <1>2, <2>1 DEF Owed
    <3> QED
      BY <3>1, <2>1, <1>4, <1>7, <1>8 DEF Positive
  <2>2. CASE j # k
    BY <2>2, <1>4, <1>7, <1>8 DEF Owed, Positive
  <2> QED
    BY <2>1, <2>2
<1> QED
  BY <1>8, <1>9, <1>10 DEF new, Tidy

LEMMA InsertKeeps ==
  ASSUME NEW sh, Shaped(sh), NEW k \in Keys, k \notin Cached(sh),
         NEW e \in Entries, Owed(sh, k, e)
  PROVE  LET new == Insert(sh, k, e) IN
         /\ Tidy(new)
         /\ new.order # <<>>
         /\ Cached(new) = Cached(sh) \union {k}
         /\ new.items[k] = e
         /\ \A j \in Cached(sh) : new.items[j] = sh.items[j]
         /\ Cardinality(Cached(new)) = Cardinality(Cached(sh)) + 1
<1>. DEFINE items == [j \in Cached(sh) \union {k} |->
                        IF j = k THEN e ELSE sh.items[j]]
            order == <<k>> \o sh.order
            added == sh.added + 1
            new == Insert(sh, k, e)
<1>1. /\ sh \in ShardRecords
      /\ ToSet(sh.order) = Cached(sh)
      /\ IsInjective(sh.order)
      /\ sh.hand \in Cached(sh) \union {NoHand}
      /\ IsFiniteSet(Cached(sh))
      /\ sh.added = Cardinality(Cached(sh))
  BY DEF Shaped, ListMatchesMap
<1>2. /\ sh.items \in ItemMaps
      /\ Cached(sh) \subseteq Keys
      /\ \A j \in Cached(sh) : sh.items[j] \in Entries
      /\ sh.order \in Seq(Keys)
      /\ sh.added \in Int
  BY <1>1, RecordIs
<1>3. new = [sh EXCEPT !.items = items, !.order = order, !.added = added]
  BY DEF Insert
<1>4. /\ DOMAIN items = Cached(sh) \union {k}
      /\ items[k] = e
      /\ \A j \in Cached(sh) : items[j] = sh.items[j]
  OBVIOUS
<1>5. items \in ItemMaps
  <2>1. /\ DOMAIN items \subseteq Keys
        /\ \A j \in DOMAIN items : items[j] \in Entries
    BY <1>2, <1>4
  <2>2. items = [j \in DOMAIN items |-> items[j]]
    OBVIOUS
  <2> QED
    BY <2>1, <2>2, ItemMap
<1>6. /\ order \in Seq(Keys)
      /\ ToSet(order) = Cached(sh) \union {k}
      /\ IsInjective(order)
      /\ order # <<>>
  BY <1>1, <1>2, PushedIs
<1>. HIDE DEF items, order
<1>7. /\ new \in ShardRecords
      /\ new.items = items
      /\ new.order = order
      /\ new.hand = sh.hand
      /\ new.added = added
      /\ new.held = sh.held
  <2>1. added \in Int
    BY <1>2
  <2>. HIDE DEF added
  <2> QED
    BY <2>1, <1>1, <1>3, <1>5, <1>6 DEF ShardRecords
<1>. HIDE DEF new
<1>8. Cached(new) = Cached(sh) \union {k}
  BY <1>4, <1>7 DEF Cached
<1>9. /\ IsFiniteSet(Cached(new))
      /\ Cardinality(Cached(new)) = Cardinality(Cached(sh)) + 1
  BY <1>1, <1>8, FS_AddElement
<1>10. Shaped(new)
  BY <1>1, <1>6, <1>7, <1>8, <1>9 DEF Shaped, ListMatchesMap
<1>11. Settled(new)
  <2>. SUFFICES ASSUME NEW j \in Keys
                PROVE  new.held[j] = IF j \in Cached(new) /\ Positive(new, j)
                                     THEN 1 ELSE 0
    BY DEF Settled
  <2>1. CASE j = k
    <3>1. sh.held[k] = IF e.notAvailable THEN 0 ELSE 1
      BY <1>2, <2>1 DEF Owed
    <3> QED
      BY <3>1, <2>1, <1>4, <1>7, <1>8 DEF Positive
  <2>2. CASE j # k
    BY <2>2, <1>4, <1>7, <1>8 DEF Owed, Positive
  <2> QED
    BY <2>1, <2>2
<1> QED
  BY <1>4, <1>6, <1>7, <1>8, <1>9, <1>10, <1>11 DEF new, Tidy

(* A write takes out at most one other key, at the cap, and never one that *)
(* was read since the hand last passed: the new entry itself is unread.    *)
LEMMA UpsertKeeps ==
  ASSUME NEW sh, Shaped(sh), NEW k \in Keys, NEW e \in Entries,
         ~e.accessed, Owed(sh, k, e)
  PROVE  LET new == Upsert(sh, k, e) IN
         /\ Tidy(new)
         /\ Cached(new) \subseteq Cached(sh) \union {k}
         /\ Capped(sh) => Capped(new)
         /\ \A j \in Cached(sh) \ Cached(new) : ~sh.items[j].accessed
<1>1. CASE k \in Cached(sh)
  <2>1. Upsert(sh, k, e) = Overwrite(sh, k, e)
    BY <1>1 DEF Upsert
  <2> QED
    BY <1>1, <2>1, OverwriteKeeps DEF Capped
<1>2. CASE k \notin Cached(sh)
  <2>. DEFINE in == Insert(sh, k, e)
              full == MaxEntries > 0 /\ Cardinality(Cached(in)) > MaxEntries
              new == Upsert(sh, k, e)
  <2>1. new = IF full THEN EvictOneCLOCK(in) ELSE in
    BY <1>2 DEF Upsert
  <2>2. /\ Tidy(in)
        /\ in.order # <<>>
        /\ Cached(in) = Cached(sh) \union {k}
        /\ in.items[k] = e
        /\ \A j \in Cached(sh) : in.items[j] = sh.items[j]
        /\ Cardinality(Cached(in)) = Cardinality(Cached(sh)) + 1
        /\ IsFiniteSet(Cached(in))
    <3>1. /\ Tidy(in)
          /\ in.order # <<>>
          /\ Cached(in) = Cached(sh) \union {k}
          /\ in.items[k] = e
          /\ \A j \in Cached(sh) : in.items[j] = sh.items[j]
          /\ Cardinality(Cached(in)) = Cardinality(Cached(sh)) + 1
      BY <1>2, InsertKeeps
    <3>. HIDE DEF in
    <3> QED
      BY <3>1 DEF Tidy, Shaped
  <2>3. Cardinality(Cached(sh)) \in Nat
    BY FS_CardinalityType DEF Shaped
  <2>. HIDE DEF in, new
  <2>4. CASE ~full
    <3>1. new = in
      BY <2>1, <2>4
    <3>2. Capped(new)
      BY <3>1, <2>2, <2>3, <2>4, MaxEntriesAssumption DEF Capped
    <3>3. Tidy(new) /\ Cached(new) = Cached(sh) \union {k}
      BY <3>1, <2>2
    <3> QED
      BY <3>2, <3>3 DEF new
  <2>5. CASE full
    <3>1. new = EvictOneCLOCK(in)
      BY <2>1, <2>5
    <3>2. /\ Tidy(new)
          /\ \E d \in Cached(in) :
               /\ Cached(new) = Cached(in) \ {d}
               /\ in.items[d].accessed =>
                    \A j \in Cached(in) : in.items[j].accessed
      BY <3>1, <2>2, ClockKeeps
    <3>3. PICK d \in Cached(in) :
               /\ Cached(new) = Cached(in) \ {d}
               /\ in.items[d].accessed =>
                    \A j \in Cached(in) : in.items[j].accessed
      BY <3>2
    <3>4. ~in.items[d].accessed
      BY <3>3, <2>2
    <3>5. \A j \in Cached(sh) \ Cached(new) : ~sh.items[j].accessed
      BY <3>3, <3>4, <2>2
    <3>6. Cardinality(Cached(new)) = Cardinality(Cached(sh))
      <4>1. Cardinality(Cached(new)) = Cardinality(Cached(in)) - 1
        BY <3>3, <2>2, FS_RemoveElement
      <4> QED
        BY <4>1, <2>2, <2>3
    <3>7. Cached(new) \subseteq Cached(sh) \union {k}
      BY <3>3, <2>2
    <3> QED
      BY <3>2, <3>5, <3>6, <3>7 DEF Capped, new
  <2> QED
    BY <2>4, <2>5
<1> QED
  BY <1>1, <1>2

(* What is held for key k changes, and what is cached does not.            *)
LEMMA HeldChanges ==
  ASSUME NEW sh, Tidy(sh), NEW k \in Keys, NEW e \in Entries, NEW n \in Int,
         n = IF e.notAvailable THEN 0 ELSE 1
  PROVE  LET new == [sh EXCEPT !.held = [@ EXCEPT ![k] = n]] IN
         /\ Shaped(new)
         /\ new.items = sh.items
         /\ Owed(new, k, e)
<1>. DEFINE held == [sh.held EXCEPT ![k] = n]
            new == [sh EXCEPT !.held = held]
<1>1. /\ sh \in ShardRecords
      /\ sh.held \in [Keys -> Int]
  BY RecordIs DEF Tidy, Shaped
<1>2. /\ held \in [Keys -> Int]
      /\ \A j \in Keys : held[j] = IF j = k THEN n ELSE sh.held[j]
  BY <1>1
<1>. HIDE DEF held
<1>3. /\ new \in ShardRecords
      /\ new.items = sh.items
      /\ new.order = sh.order
      /\ new.hand = sh.hand
      /\ new.added = sh.added
      /\ new.held = held
  BY <1>1, <1>2 DEF ShardRecords
<1>. HIDE DEF new
<1>4. Cached(new) = Cached(sh)
  BY <1>3 DEF Cached
<1>5. Shaped(new)
  BY <1>3, <1>4 DEF Tidy, Shaped, ListMatchesMap
<1>6. \A j \in Keys : Positive(new, j) <=> Positive(sh, j)
  BY <1>3 DEF Positive
<1>7. Owed(new, k, e)
  BY <1>2, <1>3, <1>4, <1>6 DEF Tidy, Settled, Owed
<1> QED
  BY <1>3, <1>5, <1>7 DEF new, held

LEMMA FreshIs ==
  ASSUME NEW notAvailable \in BOOLEAN, NEW ttl \in Ttls
  PROVE  LET e == FreshEntry(notAvailable, ttl) IN
         /\ e \in Entries
         /\ e.notAvailable = notAvailable
         /\ ~e.accessed
BY DEF FreshEntry, Entries

LEMMA SetKeeps ==
  ASSUME NEW sh, Tidy(sh), NEW k \in Keys, NEW ttl \in Ttls
  PROVE  LET new == SetEntry(sh, k, ttl) IN
         /\ Tidy(new)
         /\ Cached(new) \subseteq Cached(sh) \union {k}
         /\ Capped(sh) => Capped(new)
         /\ \A j \in Cached(sh) \ Cached(new) : ~sh.items[j].accessed
<1>. DEFINE e == FreshEntry(FALSE, ttl)
            new == SetEntry(sh, k, ttl)
<1>1. e \in Entries /\ ~e.notAvailable /\ ~e.accessed
  BY FreshIs
<1>. HIDE DEF e
<1>2. sh \in ShardRecords /\ Shaped(sh) /\ Settled(sh) /\ sh.held \in [Keys -> Int]
  BY RecordIs DEF Tidy, Shaped
<1>3. CASE k \in Cached(sh) /\ Positive(sh, k)
  <2>1. new = Upsert(sh, k, e)
    BY <1>3 DEF SetEntry, e
  <2>2. Owed(sh, k, e)
    BY <1>1, <1>2, <1>3 DEF Settled, Owed
  <2> QED
    BY <2>1, <2>2, <1>1, <1>2, UpsertKeeps
<1>4. CASE ~(k \in Cached(sh) /\ Positive(sh, k))
  <2>. DEFINE owing == [sh EXCEPT !.held = [@ EXCEPT ![k] = 1]]
  <2>1. sh.held[k] = 0
    BY <1>2, <1>4 DEF Settled
  <2>2. [sh EXCEPT !.held[k] = @ + 1] = owing
    BY <2>1
  <2>3. new = Upsert(owing, k, e)
    BY <2>2, <1>4 DEF SetEntry, e
  <2>4. Shaped(owing) /\ owing.items = sh.items /\ Owed(owing, k, e)
    BY <1>1, HeldChanges
  <2>. HIDE DEF owing
  <2>5. Cached(owing) = Cached(sh)
    BY <2>4 DEF Cached
  <2>6. /\ Tidy(new)
        /\ Cached(new) \subseteq Cached(owing) \union {k}
        /\ Capped(owing) => Capped(new)
        /\ \A j \in Cached(owing) \ Cached(new) : ~owing.items[j].accessed
    BY <2>3, <2>4, <1>1, UpsertKeeps
  <2>. HIDE DEF new
  <2> QED
    BY <2>4, <2>5, <2>6 DEF Capped, new
<1> QED
  BY <1>3, <1>4

LEMMA NullifyKeeps ==
  ASSUME NEW sh, Tidy(sh), NEW k \in Keys, NEW ttl \in Ttls
  PROVE  LET new == Nullify(sh, k, ttl) IN
         /\ Tidy(new)
         /\ Cached(new) \subseteq Cached(sh) \union {k}
         /\ Capped(sh) => Capped(new)
         /\ \A j \in Cached(sh) \ Cached(new) : ~sh.items[j].accessed
<1>. DEFINE e == FreshEntry(TRUE, ttl)
            new == Nullify(sh, k, ttl)
<1>1. e \in Entries /\ e.notAvailable /\ ~e.accessed
  BY FreshIs
<1>. HIDE DEF e
<1>2. sh \in ShardRecords /\ Shaped(sh) /\ Settled(sh) /\ sh.held \in [Keys -> Int]
  BY RecordIs DEF Tidy, Shaped
<1>3. CASE ~(k \in Cached(sh) /\ Positive(sh, k))
  <2>1. new = Upsert(sh, k, e)
    BY <1>3 DEF Nullify, e
  <2>2. Owed(sh, k, e)
    BY <1>1, <1>2, <1>3 DEF Settled, Owed
  <2> QED
    BY <2>1, <2>2, <1>1, <1>2, UpsertKeeps
<1>4. CASE k \in Cached(sh) /\ Positive(sh, k)
  <2>. DEFINE paid == [sh EXCEPT !.held = [@ EXCEPT ![k] = 0]]
  <2>1. sh.held[k] = 1
    BY <1>2, <1>4 DEF Settled
  <2>2. [sh EXCEPT !.held = OnEvict(@, k)] = paid
    BY <2>1 DEF OnEvict
  <2>3. new = Upsert(paid, k, e)
    BY <2>2, <1>4 DEF Nullify, e
  <2>4. Shaped(paid) /\ paid.items = sh.items /\ Owed(paid, k, e)
    BY <1>1, HeldChanges
  <2>. HIDE DEF paid
  <2>5. Cached(paid) = Cached(sh)
    BY <2>4 DEF Cached
  <2>6. /\ Tidy(new)
        /\ Cached(new) \subseteq Cached(paid) \union {k}
        /\ Capped(paid) => Capped(new)
        /\ \A j \in Cached(paid) \ Cached(new) : ~paid.items[j].accessed
    BY <2>3, <2>4, <1>1, UpsertKeeps
  <2>. HIDE DEF new
  <2> QED
    BY <2>4, <2>5, <2>6 DEF Capped, new
<1> QED
  BY <1>3, <1>4

(* A shard that loses keys stays under the cap.                            *)
LEMMA FewerCapped ==
  ASSUME NEW sh, Tidy(sh), NEW new, Tidy(new), Cached(new) \subseteq Cached(sh)
  PROVE  Capped(sh) => Capped(new)
<1>1. IsFiniteSet(Cached(sh)) /\ IsFiniteSet(Cached(new))
  BY DEF Tidy, Shaped
<1>2. /\ Cardinality(Cached(new)) <= Cardinality(Cached(sh))
      /\ Cardinality(Cached(new)) \in Nat
      /\ Cardinality(Cached(sh)) \in Nat
  BY <1>1, FS_Subset, FS_CardinalityType
<1> QED
  BY <1>2, MaxEntriesAssumption DEF Capped

(* An entry changes its deadline or its bit: reads, Persist, and time.     *)
LEMMA TouchKeeps ==
  ASSUME NEW sh, Tidy(sh), NEW k \in Cached(sh), NEW e \in Entries,
         e.notAvailable = sh.items[k].notAvailable
  PROVE  LET new == [sh EXCEPT !.items = [@ EXCEPT ![k] = e]] IN
         /\ Tidy(new)
         /\ Cached(new) = Cached(sh)
<1>. DEFINE items == [sh.items EXCEPT ![k] = e]
            new == [sh EXCEPT !.items = items]
<1>1. sh \in ShardRecords /\ Shaped(sh) /\ Settled(sh)
  BY DEF Tidy, Shaped
<1>2. /\ sh.items \in ItemMaps
      /\ Cached(sh) \subseteq Keys
      /\ \A j \in Cached(sh) : sh.items[j] \in Entries
  BY <1>1, RecordIs
<1>3. /\ DOMAIN items = Cached(sh)
      /\ \A j \in Cached(sh) :
           /\ items[j] \in Entries
           /\ items[j].notAvailable = sh.items[j].notAvailable
  BY <1>2 DEF Cached
<1>4. items \in ItemMaps
  <2>1. /\ DOMAIN items \subseteq Keys
        /\ \A j \in DOMAIN items : items[j] \in Entries
    BY <1>2, <1>3
  <2>2. items = [j \in DOMAIN items |-> items[j]]
    OBVIOUS
  <2> QED
    BY <2>1, <2>2, ItemMap
<1>. HIDE DEF items
<1>5. /\ new \in ShardRecords
      /\ new.items = items
      /\ new.order = sh.order
      /\ new.hand = sh.hand
      /\ new.added = sh.added
      /\ new.held = sh.held
  BY <1>1, <1>4 DEF ShardRecords
<1>. HIDE DEF new
<1>6. Cached(new) = Cached(sh)
  BY <1>3, <1>5 DEF Cached
<1>7. Shaped(new)
  BY <1>1, <1>5, <1>6 DEF Shaped, ListMatchesMap
<1>8. \A j \in Cached(sh) : Positive(new, j) <=> Positive(sh, j)
  BY <1>3, <1>5 DEF Positive
<1>9. Settled(new)
  BY <1>1, <1>5, <1>6, <1>8 DEF Settled
<1> QED
  BY <1>6, <1>7, <1>9 DEF Tidy, new, items

LEMMA EntryChanges ==
  ASSUME NEW e \in Entries, NEW ttl \in Ttls
  PROVE  /\ [e EXCEPT !.accessed = TRUE] \in Entries
         /\ [e EXCEPT !.accessed = TRUE].notAvailable = e.notAvailable
         /\ [e EXCEPT !.ttl = ttl] \in Entries
         /\ [e EXCEPT !.ttl = ttl].notAvailable = e.notAvailable
BY DEF Entries

LEMMA AccessKeeps ==
  ASSUME NEW sh, Tidy(sh), NEW k, NEW new,
         new \in {GetStatus(sh, k), Evict(sh, k), Persist(sh, k)}
  PROVE  Tidy(new) /\ Cached(new) \subseteq Cached(sh)
<1>1. /\ Shaped(sh)
      /\ Settled(sh)
      /\ \A j \in Cached(sh) : sh.items[j] \in Entries
  BY RecordIs DEF Tidy, Shaped
<1>2. CASE k \notin Cached(sh)
  BY <1>2 DEF GetStatus, Evict, Persist
<1>3. CASE k \in Cached(sh)
  <2>1. CASE new = GetStatus(sh, k)
    <3>. DEFINE e == [sh.items[k] EXCEPT !.accessed = TRUE]
    <3>1. e \in Entries /\ e.notAvailable = sh.items[k].notAvailable
      BY <1>1, <1>3, EntryChanges DEF Ttls
    <3>2. \/ new = sh
          \/ new = [sh EXCEPT !.items = [@ EXCEPT ![k] = e]]
      BY <2>1 DEF GetStatus
    <3>. HIDE DEF e
    <3> QED
      BY <1>3, <3>1, <3>2, TouchKeeps
  <2>2. CASE new = Persist(sh, k)
    <3>. DEFINE e == [sh.items[k] EXCEPT !.ttl = "never"]
    <3>1. e \in Entries /\ e.notAvailable = sh.items[k].notAvailable
      BY <1>1, <1>3, EntryChanges DEF Ttls
    <3>2. \/ new = RemoveElement(sh, k)
          \/ new = [sh EXCEPT !.items = [@ EXCEPT ![k] = e]]
      BY <1>3, <2>2 DEF Persist
    <3>. HIDE DEF e
    <3>3. CASE new = RemoveElement(sh, k)
      BY <1>1, <1>3, <3>3, RemoveKeeps DEF Tidy
    <3>4. CASE new = [sh EXCEPT !.items = [@ EXCEPT ![k] = e]]
      BY <1>3, <3>1, <3>4, TouchKeeps
    <3> QED
      BY <3>2, <3>3, <3>4
  <2>3. CASE new = Evict(sh, k)
    BY <1>1, <1>3, <2>3, RemoveKeeps DEF Evict, Tidy
  <2> QED
    BY <2>1, <2>2, <2>3
<1> QED
  BY <1>2, <1>3

LEMMA EmptyTidy == Tidy(EmptyShard) /\ Cached(EmptyShard) = {}
<1>. DEFINE items == [k \in {} |-> {}]
            held == [k \in Keys |-> 0]
<1>1. DOMAIN items = {}
  OBVIOUS
<1>2. items \in ItemMaps
  <2>1. items = [k \in DOMAIN items |-> items[k]]
    OBVIOUS
  <2>. HIDE DEF items
  <2> QED
    BY <1>1, <2>1, ItemMap
<1>3. held \in [Keys -> Int] /\ \A k \in Keys : held[k] = 0
  OBVIOUS
<1>4. EmptyShard = [items |-> items, order |-> <<>>, hand |-> NoHand,
                    added |-> 0, held |-> held]
  BY DEF EmptyShard
<1>. HIDE DEF items, held
<1>5. /\ EmptyShard \in ShardRecords
      /\ EmptyShard.items = items
      /\ EmptyShard.order = <<>>
      /\ EmptyShard.hand = NoHand
      /\ EmptyShard.added = 0
      /\ EmptyShard.held = held
  BY <1>2, <1>3, <1>4, EmptySeq DEF ShardRecords
<1>6. Cached(EmptyShard) = {}
  BY <1>1, <1>5 DEF Cached
<1>7. ToSet(<<>>) = {} /\ IsInjective(<<>>)
  BY DEF ToSet, IsInjective
<1>8. Shaped(EmptyShard)
  BY <1>5, <1>6, <1>7, FS_EmptySet DEF Shaped, ListMatchesMap
<1>9. Settled(EmptyShard)
  BY <1>3, <1>5, <1>6 DEF Settled
<1> QED
  BY <1>6, <1>8, <1>9 DEF Tidy

(* Clear gives back every artifact and leaves an empty shard.              *)
LEMMA ClearKeeps ==
  ASSUME NEW sh, Tidy(sh)
  PROVE  Clear(sh) = EmptyShard
<1>. DEFINE held == [k \in Keys |-> IF k \in Cached(sh) /\ Positive(sh, k)
                                    THEN sh.held[k] - 1 ELSE sh.held[k]]
            added == sh.added - Cardinality(Cached(sh))
<1>1. held = [k \in Keys |-> 0]
  BY DEF Tidy, Settled
<1>2. added = 0
  <2>1. sh.added = Cardinality(Cached(sh)) /\ Cardinality(Cached(sh)) \in Nat
    BY FS_CardinalityType DEF Tidy, Shaped
  <2> QED
    BY <2>1
<1>3. Clear(sh) = [items |-> [k \in {} |-> {}], order |-> <<>>,
                   hand |-> NoHand, added |-> added, held |-> held]
  BY DEF Clear
<1>. HIDE DEF held, added
<1> QED
  BY <1>1, <1>2, <1>3 DEF EmptyShard

(* One element of the sweep: the i-th key from the back goes if the sweep  *)
(* found it expired; x is the shard as the elements before left it.        *)
SweptOne(sh, x, i) ==
  LET k == sh.order[Len(sh.order) + 1 - i]
  IN  IF Expired(sh, k) THEN RemoveElement(x, k) ELSE x

IsSweep(f, sh, m) ==
  f = [i \in 0 .. m |-> IF i = 0 THEN sh ELSE SweptOne(sh, f[i - 1], i)]

LEMMA SweepExists ==
  ASSUME NEW sh, NEW n \in Nat
  PROVE  \E f : IsSweep(f, sh, n)
<1>. DEFINE Bad == {m \in 0 .. n : ~ \E f : IsSweep(f, sh, m)}
<1>. SUFFICES ASSUME Bad # {} PROVE FALSE
  OBVIOUS
<1>1. Bad \subseteq Nat
  OBVIOUS
<1>2. PICK m \in Bad : \A j \in Bad : m <= j
  <2>. HIDE DEF Bad
  <2> QED
    BY <1>1, LeastOf
<1>3. m \in 0 .. n /\ ~ \E f : IsSweep(f, sh, m)
  OBVIOUS
<1>4. CASE m = 0
  <2>. DEFINE f == [i \in 0 .. 0 |-> sh]
  <2>1. f = [i \in 0 .. 0 |-> IF i = 0 THEN sh ELSE SweptOne(sh, f[i - 1], i)]
    OBVIOUS
  <2>2. IsSweep(f, sh, 0)
    BY <2>1 DEF IsSweep
  <2> QED
    BY <2>2, <1>3, <1>4
<1>5. CASE m # 0
  <2>1. m - 1 \in 0 .. n /\ ~(m <= m - 1)
    BY <1>3, <1>5
  <2>2. m - 1 \notin Bad
    <3>. HIDE DEF Bad
    <3> QED
      BY <1>2, <2>1
  <2>3. PICK f : IsSweep(f, sh, m - 1)
    BY <2>1, <2>2
  <2>4. \A i \in 0 .. m - 1 :
          f[i] = IF i = 0 THEN sh ELSE SweptOne(sh, f[i - 1], i)
    BY <2>3 DEF IsSweep
  <2>. DEFINE g == [i \in 0 .. m |-> IF i = m THEN SweptOne(sh, f[m - 1], m)
                                     ELSE f[i]]
  <2>5. ASSUME NEW i \in 0 .. m
        PROVE  g[i] = IF i = 0 THEN sh ELSE SweptOne(sh, g[i - 1], i)
    <3>1. CASE i = m
      <4>1. m - 1 \in 0 .. m /\ m - 1 # m
        BY <1>3, <2>1
      <4>2. g[m - 1] = f[m - 1]
        BY <4>1
      <4> QED
        BY <3>1, <4>2, <1>5
    <3>2. CASE i # m /\ i # 0
      <4>1. i \in 0 .. m - 1 /\ i - 1 \in 0 .. m /\ i - 1 # m
        BY <3>2, <1>3
      <4>2. g[i] = f[i] /\ g[i - 1] = f[i - 1]
        BY <3>2, <4>1
      <4> QED
        BY <3>2, <4>1, <4>2, <2>4
    <3>3. CASE i # m /\ i = 0
      <4>1. 0 \in 0 .. m - 1
        BY <1>3, <1>5
      <4> QED
        BY <3>3, <4>1, <2>4
    <3> QED
      BY <3>1, <3>2, <3>3
  <2>6. g = [i \in 0 .. m |-> g[i]]
    OBVIOUS
  <2>. HIDE DEF g
  <2>7. IsSweep(g, sh, m)
    BY <2>5, <2>6 DEF IsSweep
  <2> QED
    BY <2>7, <1>3
<1> QED
  BY <1>4, <1>5

(* The sweep only removes, and every key it removes is still there.        *)
LEMMA SweepKeeps ==
  ASSUME NEW sh, Tidy(sh), NEW limit \in Nat
  PROVE  /\ Tidy(SweepExpired(sh, limit))
         /\ Cached(SweepExpired(sh, limit)) \subseteq Cached(sh)
<1>. DEFINE n == Len(sh.order)
            swept == CHOOSE f : IsSweep(f, sh, n)
            last == IF limit < n THEN limit ELSE n
            Left(i) == {sh.order[j] : j \in 1 .. n - i}
            Fine(i) == /\ Tidy(swept[i])
                       /\ Cached(swept[i]) \subseteq Cached(sh)
                       /\ Left(i) \subseteq Cached(swept[i])
            Bad == {i \in 0 .. n : ~Fine(i)}
<1>1. SweepExpired(sh, limit) = swept[last]
  BY DEF SweepExpired, IsSweep, SweptOne
<1>2. /\ sh.order \in Seq(Keys)
      /\ n \in Nat
      /\ ToSet(sh.order) = {sh.order[j] : j \in 1 .. n}
      /\ ToSet(sh.order) = Cached(sh)
      /\ \A i, j \in 1 .. n : sh.order[i] = sh.order[j] => i = j
  <2>1. /\ sh \in ShardRecords
        /\ ToSet(sh.order) = Cached(sh)
        /\ IsInjective(sh.order)
    BY DEF Tidy, Shaped, ListMatchesMap
  <2>2. sh.order \in Seq(Keys)
    BY <2>1, RecordIs
  <2> QED
    BY <2>1, <2>2 DEF ToSet, IsInjective
<1>. HIDE DEF n
<1>3. last \in 0 .. n
  BY <1>2
<1>4. IsSweep(swept, sh, n)
  BY <1>2, SweepExists
<1>. HIDE DEF last, swept
<1>5. \A i \in 0 .. n :
        swept[i] = IF i = 0 THEN sh ELSE SweptOne(sh, swept[i - 1], i)
  BY <1>4 DEF IsSweep
<1>6. Fine(0)
  <2>1. 0 \in 0 .. n /\ n - 0 = n
    BY <1>2
  <2>2. swept[0] = sh
    BY <1>5, <2>1
  <2> QED
    BY <2>1, <2>2, <1>2
<1>7. ASSUME NEW i \in 1 .. n, Fine(i - 1)
      PROVE  Fine(i)
  <2>. DEFINE x == swept[i - 1]
              k == sh.order[n + 1 - i]
  <2>1. /\ i \in 0 .. n
        /\ i # 0
        /\ n + 1 - i \in 1 .. n
        /\ n - (i - 1) = n + 1 - i
        /\ \A j \in 1 .. n - i : j \in 1 .. n + 1 - i /\ j \in 1 .. n /\ j # n + 1 - i
    BY <1>2
  <2>2. swept[i] = IF Expired(sh, k) THEN RemoveElement(x, k) ELSE x
    BY <1>5, <2>1 DEF SweptOne, n
  <2>3. /\ Tidy(x)
        /\ Cached(x) \subseteq Cached(sh)
        /\ k \in Cached(x)
        /\ Left(i) \subseteq Cached(x) \ {k}
    <3>1. /\ Tidy(x)
          /\ Cached(x) \subseteq Cached(sh)
          /\ \A j \in 1 .. n + 1 - i : sh.order[j] \in Cached(x)
      BY <1>7, <2>1
    <3>2. k \in Cached(x)
      <4>1. n + 1 - i \in 1 .. n + 1 - i
        BY <2>1
      <4> QED
        BY <3>1, <4>1
    <3>3. \A j \in 1 .. n - i : sh.order[j] # k
      BY <1>2, <2>1
    <3>. HIDE DEF x, k
    <3>4. \A j \in 1 .. n - i : sh.order[j] \in Cached(x) \ {k}
      BY <2>1, <3>1, <3>3
    <3> QED
      BY <3>1, <3>2, <3>4
  <2>. HIDE DEF x, k
  <2>4. CASE Expired(sh, k)
    <3>1. Tidy(swept[i]) /\ Cached(swept[i]) = Cached(x) \ {k}
      BY <2>2, <2>3, <2>4, RemoveKeeps DEF Tidy
    <3> QED
      BY <3>1, <2>3
  <2>5. CASE ~Expired(sh, k)
    BY <2>2, <2>3, <2>5
  <2> QED
    BY <2>4, <2>5
<1>. HIDE DEF Fine
<1>8. Bad = {}
  <2>. SUFFICES ASSUME Bad # {} PROVE FALSE
    OBVIOUS
  <2>1. Bad \subseteq Nat
    BY <1>2
  <2>2. PICK m \in Bad : \A j \in Bad : m <= j
    <3>. HIDE DEF Bad
    <3> QED
      BY <2>1, LeastOf
  <2>3. m \in 0 .. n /\ ~Fine(m)
    OBVIOUS
  <2>4. m \in 1 .. n /\ m - 1 \in 0 .. n /\ ~(m <= m - 1)
    BY <2>3, <1>2, <1>6
  <2>5. m - 1 \notin Bad
    <3>. HIDE DEF Bad
    <3> QED
      BY <2>2, <2>4
  <2>6. Fine(m - 1)
    BY <2>4, <2>5
  <2> QED
    BY <2>3, <2>4, <2>6, <1>7
<1>9. Fine(last)
  BY <1>3, <1>8
<1> QED
  BY <1>1, <1>9 DEF Fine

----------------------------------------------------------------------------
(* The cache.                                                              *)

KeysOf(i) == {k \in Keys : ShardOf[k] = i}

(* Every shard is tidy, under its cap and has only keys of its own.        *)
ShardsTidy ==
  /\ shard = [i \in Shards |-> shard[i]]
  /\ \A i \in Shards : /\ Tidy(shard[i])
                       /\ Capped(shard[i])
                       /\ Cached(shard[i]) \subseteq KeysOf(i)

(* Between two evictions of a tick the batch is not full and the round of  *)
(* empty shards not complete: the tick would have ended.                   *)
GoroutinesFine ==
  /\ writer \in [Writers -> {"idle", "load", "cas"}]
  /\ evictor \in {"none", "waiting", "looking", "locking", "stopping"}
  /\ evicted \in 0 .. EvictionBatch
  /\ noProgress \in 0 .. NumShards
  /\ evictor \in {"looking", "locking"} =>
       evicted < EvictionBatch /\ noProgress < NumShards
  /\ nextShard \in Shards
  /\ janitor \in Shards \union {Waiting, Exited}
  /\ clearing \in Shards \union {Waiting}
  /\ closing \in {"no", "cancelled", "done"}

CacheInv == ShardsTidy /\ GoroutinesFine

LEMMA ShardStep ==
  ASSUME ShardsTidy, NEW i \in Shards, NEW new, Tidy(new), Capped(new),
         Cached(new) \subseteq KeysOf(i), shard' = [shard EXCEPT ![i] = new]
  PROVE  ShardsTidy'
<1>1. /\ shard' = [j \in Shards |-> shard'[j]]
      /\ \A j \in Shards : shard'[j] = IF j = i THEN new ELSE shard[j]
  BY DEF ShardsTidy
<1>2. \A j \in Shards : /\ Tidy(shard'[j])
                        /\ Capped(shard'[j])
                        /\ Cached(shard'[j]) \subseteq KeysOf(j)
  BY <1>1 DEF ShardsTidy
<1> QED
  BY <1>1, <1>2 DEF ShardsTidy

LEMMA Constants ==
  /\ NumShards \in Nat \ {0}
  /\ EvictionBatch \in Nat \ {0}
  /\ JanitorBatch \in Nat
  /\ 0 \in Shards
  /\ \A k \in Keys : ShardOf[k] \in Shards
  /\ WriteTtls \subseteq Ttls
BY ShardsAssumption, BatchesAssumption, WriteTtlsAssumption DEF Shards, Ttls

(* A write: what the two of its kinds have in common.                      *)
LEMMA WriteIs ==
  ASSUME ShardsTidy, NEW w, NEW k \in Keys, NEW ttl \in WriteTtls,
         Write(w, k, ttl)
  PROVE  \E new :
           /\ shard' = [shard EXCEPT ![ShardOf[k]] = new]
           /\ Tidy(new)
           /\ Cached(new) \subseteq Cached(shard[ShardOf[k]]) \union {k}
           /\ Capped(shard[ShardOf[k]]) => Capped(new)
           /\ \A j \in Cached(shard[ShardOf[k]]) \ Cached(new) :
                ~shard[ShardOf[k]].items[j].accessed
<1>. DEFINE sh == shard[ShardOf[k]]
<1>1. Tidy(sh) /\ ttl \in Ttls
  BY Constants DEF ShardsTidy
<1>2. \/ shard' = [shard EXCEPT ![ShardOf[k]] = SetEntry(@, k, ttl)]
      \/ shard' = [shard EXCEPT ![ShardOf[k]] = Nullify(@, k, ttl)]
  BY DEF Write, OnShardOf
<1>3. CASE shard' = [shard EXCEPT ![ShardOf[k]] = SetEntry(@, k, ttl)]
  <2>. DEFINE new == SetEntry(sh, k, ttl)
  <2>1. shard' = [shard EXCEPT ![ShardOf[k]] = new]
    BY <1>3
  <2>2. /\ Tidy(new)
        /\ Cached(new) \subseteq Cached(sh) \union {k}
        /\ Capped(sh) => Capped(new)
        /\ \A j \in Cached(sh) \ Cached(new) : ~sh.items[j].accessed
    BY <1>1, SetKeeps
  <2>. HIDE DEF new
  <2> QED
    BY <2>1, <2>2
<1>4. CASE shard' = [shard EXCEPT ![ShardOf[k]] = Nullify(@, k, ttl)]
  <2>. DEFINE new == Nullify(sh, k, ttl)
  <2>1. shard' = [shard EXCEPT ![ShardOf[k]] = new]
    BY <1>4
  <2>2. /\ Tidy(new)
        /\ Cached(new) \subseteq Cached(sh) \union {k}
        /\ Capped(sh) => Capped(new)
        /\ \A j \in Cached(sh) \ Cached(new) : ~sh.items[j].accessed
    BY <1>1, NullifyKeeps
  <2>. HIDE DEF new
  <2> QED
    BY <2>1, <2>2
<1> QED
  BY <1>2, <1>3, <1>4

LEMMA CacheInit == Init => CacheInv
<1>. SUFFICES ASSUME Init PROVE CacheInv
  OBVIOUS
<1>1. ShardsTidy
  <2>1. /\ shard = [i \in Shards |-> shard[i]]
        /\ \A i \in Shards : shard[i] = EmptyShard
    BY DEF Init
  <2>2. Capped(EmptyShard)
    BY EmptyTidy, FS_EmptySet, MaxEntriesAssumption DEF Capped
  <2> QED
    BY <2>1, <2>2, EmptyTidy DEF ShardsTidy
<1>2. GoroutinesFine
  BY Constants DEF Init, GoroutinesFine
<1> QED
  BY <1>1, <1>2 DEF CacheInv

LEMMA CacheStep == CacheInv /\ [Next]_vars => CacheInv'
<1>. SUFFICES ASSUME CacheInv, [Next]_vars
              PROVE  CacheInv'
  OBVIOUS
<1>. USE DEF CacheInv
<1>1. ASSUME NEW w \in Writers, NEW k \in Keys, NEW ttl \in WriteTtls,
             Write(w, k, ttl)
      PROVE  CacheInv'
  <2>1. PICK new :
          /\ shard' = [shard EXCEPT ![ShardOf[k]] = new]
          /\ Tidy(new)
          /\ Cached(new) \subseteq Cached(shard[ShardOf[k]]) \union {k}
          /\ Capped(shard[ShardOf[k]]) => Capped(new)
    BY <1>1, WriteIs
  <2>2. /\ ShardOf[k] \in Shards
        /\ Capped(shard[ShardOf[k]])
        /\ Cached(shard[ShardOf[k]]) \subseteq KeysOf(ShardOf[k])
        /\ k \in KeysOf(ShardOf[k])
    BY Constants DEF ShardsTidy, KeysOf
  <2>3. ShardsTidy'
    BY <2>1, <2>2, ShardStep
  <2>4. GoroutinesFine'
    BY <1>1 DEF Write, GoroutinesFine, evictorVars
  <2> QED
    BY <2>3, <2>4
<1>2. ASSUME NEW k \in Keys, Access(k)
      PROVE  CacheInv'
  <2>. DEFINE sh == shard[ShardOf[k]]
  <2>1. \/ shard' = [shard EXCEPT ![ShardOf[k]] = GetStatus(sh, k)]
        \/ shard' = [shard EXCEPT ![ShardOf[k]] = Evict(sh, k)]
        \/ shard' = [shard EXCEPT ![ShardOf[k]] = Persist(sh, k)]
    BY <1>2 DEF Access, OnShardOf
  <2>2. PICK new \in {GetStatus(sh, k), Evict(sh, k), Persist(sh, k)} :
          shard' = [shard EXCEPT ![ShardOf[k]] = new]
    BY <2>1
  <2>3. /\ ShardOf[k] \in Shards
        /\ Tidy(sh)
        /\ Capped(sh)
        /\ Cached(sh) \subseteq KeysOf(ShardOf[k])
    BY Constants DEF ShardsTidy
  <2>4. Tidy(new) /\ Cached(new) \subseteq Cached(sh)
    BY <2>2, <2>3, AccessKeeps
  <2>. HIDE DEF sh
  <2>5. ShardsTidy'
    BY <2>2, <2>3, <2>4, FewerCapped, ShardStep
  <2>6. GoroutinesFine'
    BY <1>2 DEF Access, GoroutinesFine, evictorVars
  <2> QED
    BY <2>5, <2>6
<1>3. ASSUME NEW k \in Keys, Expire(k)
      PROVE  CacheInv'
  <2>. DEFINE sh == shard[ShardOf[k]]
              e == [sh.items[k] EXCEPT !.ttl = "expired"]
              new == [sh EXCEPT !.items = [@ EXCEPT ![k] = e]]
  <2>1. /\ ShardOf[k] \in Shards
        /\ Tidy(sh)
        /\ Capped(sh)
        /\ Cached(sh) \subseteq KeysOf(ShardOf[k])
        /\ k \in Cached(sh)
    BY <1>3, Constants DEF ShardsTidy, Expire
  <2>2. shard' = [shard EXCEPT ![ShardOf[k]] = new]
    BY <1>3 DEF Expire
  <2>. HIDE DEF sh
  <2>3. e \in Entries /\ e.notAvailable = sh.items[k].notAvailable
    <3>1. sh.items[k] \in Entries
      BY <2>1, RecordIs DEF Tidy, Shaped
    <3> QED
      BY <3>1, EntryChanges DEF Ttls
  <2>. HIDE DEF e
  <2>4. Tidy(new) /\ Cached(new) = Cached(sh)
    BY <2>1, <2>3, TouchKeeps
  <2>. HIDE DEF new
  <2>5. ShardsTidy'
    BY <2>1, <2>2, <2>4, ShardStep DEF Capped
  <2>6. GoroutinesFine'
    BY <1>3 DEF Expire, GoroutinesFine, evictorVars
  <2> QED
    BY <2>5, <2>6
<1>4. ASSUME ClearShard
      PROVE  CacheInv'
  <2>1. clearing \in Shards
    BY <1>4 DEF ClearShard, GoroutinesFine
  <2>2. shard' = [shard EXCEPT ![clearing] = Clear(shard[clearing])]
    BY <1>4 DEF ClearShard
  <2>3. Clear(shard[clearing]) = EmptyShard
    BY <2>1, ClearKeeps DEF ShardsTidy
  <2>4. Tidy(EmptyShard) /\ Cached(EmptyShard) = {} /\ Capped(EmptyShard)
    BY EmptyTidy, FS_EmptySet, MaxEntriesAssumption DEF Capped
  <2>5. ShardsTidy'
    BY <2>1, <2>2, <2>3, <2>4, ShardStep
  <2>6. clearing' \in Shards \union {Waiting}
    BY <1>4, <2>1, Constants DEF ClearShard, Shards, Waiting
  <2>7. GoroutinesFine'
    BY <1>4, <2>6 DEF ClearShard, GoroutinesFine, evictorVars
  <2> QED
    BY <2>5, <2>7
<1>5. ASSUME EvictorEvicts
      PROVE  CacheInv'
  <2>. DEFINE new == EvictOneCLOCK(shard[nextShard])
  <2>1. /\ nextShard \in Shards
        /\ Tidy(shard[nextShard])
        /\ Capped(shard[nextShard])
        /\ Cached(shard[nextShard]) \subseteq KeysOf(nextShard)
    BY DEF ShardsTidy, GoroutinesFine
  <2>2. shard' = [shard EXCEPT ![nextShard] = new]
    BY <1>5 DEF EvictorEvicts
  <2>3. Tidy(new) /\ Cached(new) \subseteq Cached(shard[nextShard])
    BY <2>1, ClockKeeps
  <2>. HIDE DEF new
  <2>4. ShardsTidy'
    BY <2>1, <2>2, <2>3, FewerCapped, ShardStep
  <2>5. nextShard' \in Shards
    <3>1. nextShard + 1 \in Int
      BY <2>1 DEF Shards
    <3>2. (nextShard + 1) % NumShards \in 0 .. NumShards - 1
      BY <3>1, Constants, Modulo
    <3> QED
      BY <1>5, <3>2 DEF EvictorEvicts, Shards
  <2>6. /\ evicted' \in 0 .. EvictionBatch
        /\ noProgress' \in 0 .. NumShards
        /\ evictor' = IF evicted' = EvictionBatch \/ noProgress' = NumShards
                      THEN "waiting" ELSE "looking"
    BY <1>5, Constants DEF EvictorEvicts, GoroutinesFine
  <2>7. evictor' \in {"looking", "locking"} =>
          evicted' < EvictionBatch /\ noProgress' < NumShards
    BY <2>6, Constants
  <2>8. GoroutinesFine'
    BY <1>5, <2>5, <2>6, <2>7 DEF EvictorEvicts, GoroutinesFine
  <2> QED
    BY <2>4, <2>8
<1>6. ASSUME SweepShard
      PROVE  CacheInv'
  <2>. DEFINE new == SweepExpired(shard[janitor], JanitorBatch)
  <2>1. /\ janitor \in Shards
        /\ Tidy(shard[janitor])
        /\ Capped(shard[janitor])
        /\ Cached(shard[janitor]) \subseteq KeysOf(janitor)
    BY <1>6 DEF ShardsTidy, SweepShard
  <2>2. shard' = [shard EXCEPT ![janitor] = new]
    BY <1>6 DEF SweepShard
  <2>3. Tidy(new) /\ Cached(new) \subseteq Cached(shard[janitor])
    BY <2>1, SweepKeeps, Constants
  <2>. HIDE DEF new
  <2>4. ShardsTidy'
    BY <2>1, <2>2, <2>3, FewerCapped, ShardStep
  <2>5. janitor' \in Shards \union {Waiting, Exited}
    BY <1>6, <2>1, Constants DEF SweepShard, Shards, Waiting
  <2>6. GoroutinesFine'
    BY <1>6, <2>5 DEF SweepShard, GoroutinesFine, evictorVars
  <2> QED
    BY <2>4, <2>6
<1>7. ASSUME UNCHANGED shard PROVE ShardsTidy'
  BY <1>7 DEF ShardsTidy
<1>8. ASSUME NEW w \in Writers, LoadSize(w) \/ StartEvictor(w)
      PROVE  CacheInv'
  <2>1. UNCHANGED shard
    BY <1>8 DEF LoadSize, StartEvictor
  <2>2. GoroutinesFine'
    BY <1>8, Constants DEF LoadSize, StartEvictor, GoroutinesFine, evictorVars
  <2> QED
    BY <1>7, <2>1, <2>2
<1>9. ASSUME \/ StartClear \/ JanitorTick \/ JanitorExits
             \/ Close \/ CloseReturns
      PROVE  CacheInv'
  <2>1. UNCHANGED shard
    BY <1>9 DEF StartClear, JanitorTick, JanitorExits, Close, CloseReturns
  <2>2. GoroutinesFine'
    BY <1>9, Constants
       DEF StartClear, JanitorTick, JanitorExits, Close, CloseReturns,
           GoroutinesFine, evictorVars
  <2> QED
    BY <1>7, <2>1, <2>2
<1>10. ASSUME EvictorTick \/ EvictorLooks \/ EvictorCancelled \/ EvictorExits
       PROVE  CacheInv'
  <2>1. UNCHANGED shard
    BY <1>10 DEF EvictorTick, EvictorLooks, EvictorCancelled, EvictorExits
  <2>2. GoroutinesFine'
    BY <1>10, Constants
       DEF EvictorTick, EvictorLooks, EvictorCancelled, EvictorExits,
           GoroutinesFine
  <2> QED
    BY <1>7, <2>1, <2>2
<1>11. ASSUME UNCHANGED vars
       PROVE  CacheInv'
  <2>1. UNCHANGED shard
    BY <1>11 DEF vars
  <2>2. GoroutinesFine'
    BY <1>11 DEF vars, evictorVars, GoroutinesFine
  <2> QED
    BY <1>7, <2>1, <2>2
<1> QED
  BY <1>1, <1>2, <1>3, <1>4, <1>5, <1>6, <1>8, <1>9, <1>10, <1>11
     DEF Next, EvictorStep, JanitorStep

LEMMA CacheInvariant == Spec => []CacheInv
BY CacheInit, CacheStep, PTL DEF Spec

----------------------------------------------------------------------------
LEMMA InvBookkeeping == CacheInv => BookkeepingAccurate
<1>. SUFFICES ASSUME CacheInv PROVE BookkeepingAccurate
  OBVIOUS
<1>1. ASSUME NEW i \in Shards
      PROVE  /\ ListMatchesMap(shard[i])
             /\ Cached(shard[i]) \subseteq {k \in Keys : ShardOf[k] = i}
             /\ \A k \in Cached(shard[i]) : shard[i].items[k] \in Entries
             /\ shard[i].order \in Seq(Keys)
             /\ shard[i].hand \in Keys \union {NoHand}
             /\ shard[i].added = Cardinality(Cached(shard[i]))
             /\ shard[i].added \in Nat
             /\ shard[i].held \in [Keys -> Nat]
  <2>. DEFINE sh == shard[i]
  <2>1. Shaped(sh) /\ Settled(sh) /\ Cached(sh) \subseteq KeysOf(i)
    BY DEF CacheInv, ShardsTidy, Tidy
  <2>. HIDE DEF sh
  <2>2. /\ sh \in ShardRecords
        /\ ListMatchesMap(sh)
        /\ sh.added = Cardinality(Cached(sh))
        /\ sh.added \in Nat
    BY <2>1, FS_CardinalityType DEF Shaped
  <2>3. /\ \A k \in Cached(sh) : sh.items[k] \in Entries
        /\ sh.order \in Seq(Keys)
        /\ sh.hand \in Keys \union {NoHand}
        /\ sh.held \in [Keys -> Int]
    BY <2>2, RecordIs
  <2>4. sh.held \in [Keys -> Nat]
    BY <2>1, <2>3 DEF Settled
  <2> QED
    BY <2>1, <2>2, <2>3, <2>4 DEF sh, KeysOf
<1>2. TypeOK
  BY <1>1 DEF TypeOK, CacheInv, GoroutinesFine
<1>3. Size = SumFunction([i \in Shards |-> Cardinality(Cached(shard[i]))])
  <2>1. [i \in Shards |-> shard[i].added]
          = [i \in Shards |-> Cardinality(Cached(shard[i]))]
    BY <1>1
  <2> QED
    BY <2>1, Zenon DEF Size
<1> QED
  BY <1>1, <1>2, <1>3 DEF BookkeepingAccurate

(* After any mix of writes, reads, evictions, sweeps and Clear, whichever  *)
(* goroutine did them: map, list, clock hand and counter agree, and no     *)
(* index of the evictor, the janitor or Clear leaves the shards.           *)
THEOREM BookkeepingTheorem == Spec => []BookkeepingAccurate
BY CacheInvariant, InvBookkeeping, PTL

(* upsertLocked evicts in the same critical section as it inserts, so no   *)
(* shard is ever over its hard cap.                                        *)
THEOREM CapTheorem == Spec => []CapHolds
<1>1. CacheInv => CapHolds
  BY DEF CacheInv, ShardsTidy, Capped, CapHolds
<1> QED
  BY <1>1, CacheInvariant, PTL

(* onEvict is called once for each artifact that leaves and is not         *)
(* replaced: by nullify, eviction, the sweep, Evict, Persist or Clear.     *)
THEOREM EvictedTheorem == Spec => []EvictedOnce
<1>1. CacheInv => EvictedOnce
  BY Constants DEF CacheInv, ShardsTidy, Tidy, Settled, EvictedOnce
<1> QED
  BY <1>1, CacheInvariant, PTL

LEMMA SparedStep ==
  ASSUME CacheInv, NEW i \in Shards,
         NEW k \in Cached(shard[i]) \ Cached(shard'[i]),
         shard[i].items[k].accessed
  PROVE  /\ \A w \in Writers, ttl \in WriteTtls, j \in Keys : ~Write(w, j, ttl)
         /\ EvictorEvicts =>
              \A j \in Cached(shard[i]) : shard[i].items[j].accessed
<1>1. ASSUME NEW w \in Writers, NEW ttl \in WriteTtls, NEW j \in Keys,
             Write(w, j, ttl)
      PROVE  FALSE
  <2>1. PICK new :
          /\ shard' = [shard EXCEPT ![ShardOf[j]] = new]
          /\ \A d \in Cached(shard[ShardOf[j]]) \ Cached(new) :
               ~shard[ShardOf[j]].items[d].accessed
    BY <1>1, WriteIs DEF CacheInv
  <2>2. /\ i # ShardOf[j] => shard'[i] = shard[i]
        /\ i = ShardOf[j] => shard'[i] = new
    BY <2>1 DEF CacheInv, ShardsTidy
  <2> QED
    BY <2>1, <2>2
<1>2. ASSUME EvictorEvicts, NEW j \in Cached(shard[i])
      PROVE  shard[i].items[j].accessed
  <2>. DEFINE sh == shard[nextShard]
              new == EvictOneCLOCK(sh)
  <2>1. nextShard \in Shards /\ Tidy(sh)
    BY DEF CacheInv, ShardsTidy, GoroutinesFine
  <2>2. shard' = [shard EXCEPT ![nextShard] = new]
    BY <1>2 DEF EvictorEvicts
  <2>3. /\ sh.order = <<>> => new = sh
        /\ sh.order # <<>> =>
             \E d \in Cached(sh) :
               /\ Cached(new) = Cached(sh) \ {d}
               /\ sh.items[d].accessed =>
                    \A a \in Cached(sh) : sh.items[a].accessed
    BY <2>1, ClockKeeps
  <2>. HIDE DEF new
  <2>4. /\ i # nextShard => shard'[i] = shard[i]
        /\ i = nextShard => shard'[i] = new
    BY <2>1, <2>2 DEF CacheInv, ShardsTidy
  <2>5. i = nextShard /\ k \notin Cached(new)
    BY <2>4
  <2> QED
    BY <2>3, <2>5
<1> QED
  BY <1>1, <1>2

(* The second chance, as an action property: a write at the cap never      *)
(* takes an entry that was read since the hand last passed, and the        *)
(* evictor only when every entry of the shard was.                         *)
THEOREM SparedTheorem == Spec => ReadEntriesSpared
<1>1. CacheInv =>
        [\A i \in Shards :
           \A k \in Cached(shard[i]) \ Cached(shard'[i]) :
             shard[i].items[k].accessed =>
               /\ \A w \in Writers, ttl \in WriteTtls, j \in Keys :
                    ~Write(w, j, ttl)
               /\ EvictorEvicts =>
                    \A j \in Cached(shard[i]) : shard[i].items[j].accessed]_vars
  BY SparedStep
<1> QED
  BY <1>1, CacheInvariant, PTL DEF ReadEntriesSpared

=============================================================================
