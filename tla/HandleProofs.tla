---------------------------- MODULE HandleProofs ----------------------------
(***************************************************************************)
(* Proofs about HandleRegistry, for any hash, any values and any number of *)
(* registries, ids, slots and bytes: every id reads the value last set for *)
(* it.                                                                     *)
(*                                                                         *)
(* The index is proved first, as a table from ids to positions: what find  *)
(* meets stays in reach through tombstones, and a table never fills up.    *)
(* With it an operation is a change of the set of handles; the layout says *)
(* that the bytes of handles and holes lie apart.  What the code loops for *)
(* (rehashing, moving the values, indexing an import) is proved by         *)
(* induction on the number of steps made.                                  *)
(***************************************************************************)
EXTENDS HandleRegistry, SequenceTheorems, FiniteSetTheorems, WellFoundedInduction, TLAPS

Bytes == UNION {Range(v) : v \in ByteValues}
Cells == [is : {"empty", "occupied", "tomb"}, id : HandleIds \union {0}, pos : Nat]
HandleValues == [slot : Nat, length : Nat, id : HandleIds]
Holes == [offset : Nat, length : Nat]
Snapshots ==
  [array : Nat, data : Seq(Bytes), slots : Seq(Nat), free : Seq(Nat),
   entries : Seq(HandleValues), holes : Seq(Holes), index : Seq(Cells)]

----------------------------------------------------------------------------
(* The index.                                                              *)

Spot(t, id, n) == 1 + ((IdHash[id] + n) % Len(t))
Occupied(t, j) == t[j].is = "occupied"
Room(t) == \E j \in DOMAIN t : t[j].is = "empty"

(* An id has one cell, which find reaches.                                 *)
GoodTable(t) ==
  /\ t \in Seq(Cells) /\ Len(t) > 0
  /\ \A j \in DOMAIN t : Occupied(t, j) =>
       /\ t[j].id \in HandleIds /\ t[j].pos > 0
       /\ \E n \in Reached(t, t[j].id) : Spot(t, t[j].id, n) = j
  /\ \A j, k \in DOMAIN t : Occupied(t, j) /\ Occupied(t, k) /\ t[j].id = t[k].id => j = k

----------------------------------------------------------------------------
(* A snapshot.                                                             *)

Handles(s) == ToSet(s.entries)
PieceOf(s, h) == Hole(s.slots[h.slot], h.length)
Apart(a, b) == a.offset + a.length <= b.offset \/ b.offset + b.length <= a.offset
Within(s, a) == a.offset + a.length <= Len(s.data)

(* The index finds the entries and nothing else.                           *)
IndexFor(t, entries) ==
  /\ GoodTable(t) /\ Room(t)
  /\ \A j \in DOMAIN entries : LookupId(t, entries[j].id) = j
  /\ \A id \in HandleIds : LookupId(t, id) # 0 =>
       /\ LookupId(t, id) \in DOMAIN entries
       /\ entries[LookupId(t, id)].id = id

(* An entry has a slot of its own; a free slot is no entry's.              *)
SlotsInv(s) ==
  /\ \A h \in Handles(s) :
       /\ h.slot \in DOMAIN s.slots
       /\ \A g \in Handles(s) : g.slot = h.slot => g = h
  /\ \A i \in DOMAIN s.free :
       /\ s.free[i] \in DOMAIN s.slots
       /\ \A h \in Handles(s) : h.slot # s.free[i]
       /\ \A k \in DOMAIN s.free : s.free[k] = s.free[i] => k = i

(* Entries and holes lie in the bytes, apart from each other.              *)
LayoutInv(s) ==
  /\ Len(s.data) <= MaxBytes
  /\ \A h \in Handles(s) :
       /\ Within(s, PieceOf(s, h))
       /\ \A g \in Handles(s) : g # h => Apart(PieceOf(s, g), PieceOf(s, h))
  /\ \A i \in DOMAIN s.holes :
       /\ Within(s, s.holes[i])
       /\ \A h \in Handles(s) : Apart(s.holes[i], PieceOf(s, h))
       /\ \A k \in DOMAIN s.holes : k # i => Apart(s.holes[i], s.holes[k])

SnapInv(s) ==
  s \in Snapshots /\ IndexFor(s.index, s.entries) /\ SlotsInv(s) /\ LayoutInv(s)

(* The entries hold the values last set, and no id else has one.           *)
ValueIn(s, h) == BytesAt(s.data, s.slots[h.slot], h.length)
HoldsValues(s, values) ==
  /\ \A h \in Handles(s) : values[h.id] = ValueIn(s, h)
  /\ \A id \in HandleIds : (\A h \in Handles(s) : h.id # id) => values[id] = NoBytes

(* While no clone exists, what a view shows is not beyond the bytes.       *)
ViewInv ==
  /\ heldView \in [array : Nat, offset : Nat, bytes : Seq(Bytes), had : Seq(Bytes)]
  /\ "heldView" \notin garbled =>
       /\ heldView.bytes = heldView.had
       /\ \A r \in Registries :
            /\ Exists(r) /\ snaps[r].array = heldView.array
            /\ \A q \in Registries \ {r} : ~Exists(q)
            => heldView.offset + Len(heldView.bytes) <= Len(snaps[r].data)

RegistriesInv ==
  /\ snaps \in [Registries -> Snapshots \union {NoRegistry}]
  /\ lastSet = [r \in Registries |-> [id \in HandleIds |-> lastSet[r][id]]]
  /\ \A r \in Registries : Exists(r) => SnapInv(snaps[r])
  /\ \A r \in Registries \ garbled : Exists(r) => HoldsValues(snaps[r], lastSet[r])

HandlesInv == RegistriesInv /\ ViewInv

----------------------------------------------------------------------------
(* Numbers and induction.                                                 *)

(* A set of numbers has a least element; the library says that < is well   *)
(* founded, as a relation and not as an operator.                          *)
LEMMA LeastNumber ==
  ASSUME NEW T, T \subseteq Nat, T # {}
  PROVE  \E x \in T : \A y \in T : x <= y
<1>1. IsWellFoundedOn(OpToRel(<, Nat), Nat)
  BY NatLessThanWellFounded
<1>2. PICK R : R = OpToRel(<, Nat)
  OBVIOUS
<1>3. \A x, y \in Nat : y < x => <<y, x>> \in R
  BY <1>2 DEF OpToRel
<1>4. IsWellFoundedOn(R, Nat)
  BY <1>1, <1>2
<1>5. PICK x \in T : \A y \in T : <<y, x>> \notin R
  BY <1>4, WFMin
<1>6. \A y \in T : x \in Nat /\ y \in Nat /\ ~(y < x)
  BY <1>3, <1>5
<1> QED
  BY <1>5, <1>6

(* Induction over a set in the place of a predicate.                       *)
LEMMA ByInduction ==
  ASSUME NEW S, 0 \in S, \A n \in Nat : n \in S => n + 1 \in S
  PROVE  Nat \subseteq S
<1> SUFFICES ASSUME Nat \ S # {} PROVE FALSE
  OBVIOUS
<1>1. PICK x \in Nat \ S : \A y \in Nat \ S : x <= y
  BY LeastNumber
<1>2. x - 1 \in Nat /\ x - 1 \notin Nat \ S
  BY <1>1
<1> QED
  BY <1>1, <1>2

LEMMA MinIs ==
  ASSUME NEW T, T \subseteq Nat, T # {}
  PROVE  Min(T) \in T /\ \A y \in T : Min(T) <= y
<1>1. \E x \in T : \A y \in T : x <= y
  BY LeastNumber
<1> QED
  BY <1>1 DEF Min

LEMMA MaxIs ==
  ASSUME NEW m \in Nat, NEW T, T \subseteq 0 .. m, T # {}
  PROVE  Max(T) \in T /\ \A y \in T : Max(T) >= y
<1> DEFINE U == {u \in Nat : \A y \in T : u >= y}
<1>1. m \in U
  OBVIOUS
<1>2. PICK u \in U : \A y \in U : u <= y
  BY <1>1, LeastNumber
<1>3. u \in T
  <2> SUFFICES ASSUME u \notin T PROVE FALSE
    OBVIOUS
  <2>1. u \in Nat /\ \A y \in T : y \in Nat /\ u > y
    BY <1>2
  <2> PICK w \in T : TRUE
    OBVIOUS
  <2>2. u - 1 \in Nat /\ \A y \in T : u - 1 >= y
    <3>1. w \in Nat /\ u > w
      BY <2>1
    <3> HIDE DEF U
    <3> QED
      BY <2>1, <3>1
  <2>3. u - 1 \in U
    BY <2>2
  <2> QED
    BY <1>2, <2>3
<1>4. \E x \in T : \A y \in T : x >= y
  BY <1>2, <1>3
<1> QED
  BY <1>4 DEF Max

(* A sequence of steps can be made, one after another.                     *)
Steps(S, b, n, step) == b \in S /\ n \in Nat /\ step \in [1 .. n -> [S -> S]]
Run(S, b, n, step, g) ==
  g \in [0 .. n -> S] /\ g[0] = b /\ \A j \in 1 .. n : g[j] = step[j][g[j - 1]]

LEMMA StepsExist ==
  ASSUME NEW S, NEW b, NEW n, NEW step, Steps(S, b, n, step)
  PROVE  \E g : Run(S, b, n, step, g)
<1> USE DEF Steps
<1> DEFINE Reaches(m) ==
             \E g \in [0 .. m -> S] : g[0] = b /\ \A j \in 1 .. m : g[j] = step[j][g[j - 1]]
           G == {m \in Nat : m <= n => Reaches(m)}
<1>1. 0 \in G
  <2> DEFINE g == [j \in 0 .. 0 |-> b]
  <2>1. g \in [0 .. 0 -> S] /\ g[0] = b /\ \A j \in 1 .. 0 : g[j] = step[j][g[j - 1]]
    OBVIOUS
  <2> QED
    BY <2>1
<1>2. ASSUME NEW m \in Nat, m \in G PROVE m + 1 \in G
  <2> SUFFICES ASSUME m + 1 <= n PROVE Reaches(m + 1)
    OBVIOUS
  <2>1. PICK g \in [0 .. m -> S] : g[0] = b /\ \A j \in 1 .. m : g[j] = step[j][g[j - 1]]
    BY <1>2
  <2> DEFINE h == [j \in 0 .. m + 1 |-> IF j = m + 1 THEN step[m + 1][g[m]] ELSE g[j]]
  <2>2. h \in [0 .. m + 1 -> S]
    <3>1. step[m + 1][g[m]] \in S
      OBVIOUS
    <3>2. \A j \in 0 .. m : g[j] \in S
      OBVIOUS
    <3> QED
      BY <3>1, <3>2
  <2>3. h[0] = b
    BY <2>1
  <2>4. \A j \in 1 .. m + 1 : h[j] = step[j][h[j - 1]]
    BY <2>1
  <2> HIDE DEF h
  <2> QED
    BY <2>2, <2>3, <2>4
<1> HIDE DEF G
<1>3. n \in G
  BY <1>1, <1>2, ByInduction
<1> QED
  BY <1>3 DEF G, Run

(* Every cell is met from a hash in some number of probes.                 *)
LEMMA ProbesMeet ==
  ASSUME NEW h \in Nat, NEW l \in Nat, l > 0
  PROVE  /\ \A n \in Nat : 1 + ((h + n) % l) \in 1 .. l
         /\ \A j \in 1 .. l : \E n \in 0 .. l - 1 : 1 + ((h + n) % l) = j
<1>0. \A x, j : j \in 1 .. l /\ x = j - 1 => 1 + x = j
  OBVIOUS
<1>1. PICK a \in Nat, b \in 0 .. l - 1 : h = l * a + b
  <2>1. h % l \in 0 .. l - 1 /\ h \div l \in Nat /\ h = l * (h \div l) + (h % l)
    OBVIOUS
  <2> QED
    BY <2>1
<1>2. \A x, c \in Nat, d \in 0 .. l - 1 : x = l * c + d => x % l = d
  OBVIOUS
<1>3. ASSUME NEW j \in 1 .. l
      PROVE  \E n \in 0 .. l - 1 : 1 + ((h + n) % l) = j
  <2>1. CASE b <= j - 1
    <3> DEFINE n == j - 1 - b
    <3>1. n \in 0 .. l - 1 /\ h + n = l * a + (j - 1) /\ h + n \in Nat /\ j - 1 \in 0 .. l - 1
      BY <1>1, <2>1
    <3> HIDE DEF n
    <3>2. (h + n) % l = j - 1
      BY <1>2, <3>1
    <3> QED
      BY <1>0, <3>1, <3>2, Zenon
  <2>2. CASE b > j - 1
    <3> DEFINE n == l + j - 1 - b
    <3>1. /\ n \in 0 .. l - 1 /\ h + n = l * (a + 1) + (j - 1)
          /\ h + n \in Nat /\ j - 1 \in 0 .. l - 1 /\ a + 1 \in Nat
      BY <1>1, <2>2
    <3> HIDE DEF n
    <3>2. (h + n) % l = j - 1
      BY <1>2, <3>1
    <3> QED
      BY <1>0, <3>1, <3>2, Zenon
  <2> QED
    BY <1>1, <2>1, <2>2
<1> QED
  BY <1>3

----------------------------------------------------------------------------
(* Tables.                                                                 *)

LEMMA CellsOf ==
  ASSUME NEW t \in Seq(Cells), Len(t) > 0, NEW id \in HandleIds
  PROVE  /\ DOMAIN t = 1 .. Len(t) /\ Len(t) \in Nat /\ IdHash[id] \in Nat
         /\ \A j \in DOMAIN t : t[j] \in Cells
         /\ \A n \in Nat : Spot(t, id, n) \in DOMAIN t /\ Probe(t, id, n) = t[Spot(t, id, n)]
         /\ \A j \in DOMAIN t : \E n \in 0 .. Len(t) - 1 : Spot(t, id, n) = j
         /\ 0 \in Reached(t, id) /\ Reached(t, id) \subseteq 0 .. Len(t) - 1
<1>1. DOMAIN t = 1 .. Len(t) /\ Len(t) \in Nat /\ IdHash[id] \in Nat
  BY HashAssumption
<1>2. \A j \in DOMAIN t : t[j] \in Cells
  BY <1>1
<1> PICK h \in Nat, l \in Nat : h = IdHash[id] /\ l = Len(t) /\ l > 0
  BY <1>1
<1>6. /\ \A n \in Nat : 1 + ((h + n) % l) \in 1 .. l
      /\ \A j \in 1 .. l : \E n \in 0 .. l - 1 : 1 + ((h + n) % l) = j
  BY ProbesMeet, ZenonT(60)
<1>7. \A n : Spot(t, id, n) = 1 + ((h + n) % l)
  BY DEF Spot
<1>3. \A n \in Nat : Spot(t, id, n) \in DOMAIN t
  BY <1>1, <1>6, <1>7, ZenonT(60)
<1>4. \A j \in DOMAIN t : \E n \in 0 .. Len(t) - 1 : Spot(t, id, n) = j
  <2>1. \A j \in 1 .. l : \E n \in 0 .. l - 1 : Spot(t, id, n) = j
    <3> SUFFICES ASSUME NEW j \in 1 .. l
                 PROVE  \E n \in 0 .. l - 1 : Spot(t, id, n) = j
      OBVIOUS
    <3>1. PICK n \in 0 .. l - 1 : 1 + ((h + n) % l) = j
      BY <1>6
    <3>2. Spot(t, id, n) = j
      BY <1>7, <3>1, Zenon
    <3> QED
      BY <3>2
  <2> QED
    BY <1>1, <2>1, Zenon
<1>5. 0 \in Reached(t, id) /\ Reached(t, id) \subseteq 0 .. Len(t) - 1
  BY <1>1 DEF Reached
<1> QED
  BY <1>1, <1>2, <1>3, <1>4, <1>5 DEF Probe, Spot

LEMMA HitsAre ==
  ASSUME NEW t \in Seq(Cells), Len(t) > 0, NEW id \in HandleIds, NEW n \in Hits(t, id)
  PROVE  /\ n \in Reached(t, id) /\ n \in Nat /\ Spot(t, id, n) \in DOMAIN t
         /\ Probe(t, id, n) = t[Spot(t, id, n)]
         /\ Occupied(t, Spot(t, id, n)) /\ t[Spot(t, id, n)].id = id
<1>1. n \in Reached(t, id) /\ Probe(t, id, n) = IdCell("occupied", id, Probe(t, id, n).pos)
  BY DEF Hits
<1>2. n \in Nat
  BY <1>1, CellsOf
<1>3. Spot(t, id, n) \in DOMAIN t /\ Probe(t, id, n) = t[Spot(t, id, n)]
  BY <1>2, CellsOf
<1>4. Probe(t, id, n).is = "occupied" /\ Probe(t, id, n).id = id
  BY <1>1 DEF IdCell
<1> QED
  BY <1>1, <1>2, <1>3, <1>4 DEF Occupied

(* What find answers.                                                      *)
LEMMA FindsCell ==
  ASSUME NEW t, GoodTable(t), NEW id, NEW j \in DOMAIN t, Occupied(t, j), t[j].id = id
  PROVE  /\ LookupId(t, id) = t[j].pos /\ Hits(t, id) # {}
         /\ \A n \in Hits(t, id) : Spot(t, id, n) = j
<1> DEFINE H == Hits(t, id)
<1>1. id \in HandleIds /\ t \in Seq(Cells) /\ Len(t) > 0
  BY DEF GoodTable
<1>2. PICK m \in Reached(t, id) : Spot(t, id, m) = j
  BY DEF GoodTable
<1>3. \A n \in H : Spot(t, id, n) = j /\ Probe(t, id, n) = t[j] /\ n \in Nat
  BY <1>1, HitsAre DEF GoodTable
<1>4. m \in H
  <2>1. m \in Nat
    BY <1>1, CellsOf
  <2>2. Probe(t, id, m) = t[j] /\ t[j] \in Cells
    BY <1>1, <1>2, <2>1, CellsOf
  <2>3. t[j] = IdCell("occupied", id, t[j].pos)
    BY <2>2 DEF Cells, IdCell, Occupied
  <2> QED
    BY <1>2, <2>2, <2>3 DEF Hits
<1>5. Min(H) \in H
  BY <1>3, <1>4, MinIs
<1> QED
  BY <1>3, <1>4, <1>5 DEF LookupId

LEMMA FindsNothing ==
  ASSUME NEW t, GoodTable(t), NEW id \in HandleIds,
         \A j \in DOMAIN t : Occupied(t, j) => t[j].id # id
  PROVE  LookupId(t, id) = 0 /\ Hits(t, id) = {}
<1>1. Hits(t, id) = {}
  BY HitsAre DEF GoodTable
<1> QED
  BY <1>1 DEF LookupId

LEMMA CellChanged ==
  ASSUME NEW t \in Seq(Cells), NEW i \in DOMAIN t, NEW c \in Cells,
         NEW u, u = [t EXCEPT ![i] = c]
  PROVE  /\ u \in Seq(Cells) /\ Len(u) = Len(t) /\ DOMAIN u = DOMAIN t
         /\ u[i] = c /\ \A j \in DOMAIN t : j # i => u[j] = t[j]
OBVIOUS

(* What is in reach stays so while no cell becomes empty.                  *)
LEMMA StillReached ==
  ASSUME NEW t \in Seq(Cells), Len(t) > 0, NEW u \in Seq(Cells), Len(u) = Len(t),
         \A j \in DOMAIN t : t[j].is # "empty" => u[j].is # "empty",
         NEW id \in HandleIds, NEW n \in Reached(t, id)
  PROVE  n \in Reached(u, id) /\ Spot(u, id, n) = Spot(t, id, n)
<1>1. \A m : Spot(u, id, m) = Spot(t, id, m)
  BY DEF Spot
<1>2. n \in 0 .. Len(u) - 1 /\ n \in Nat
  BY CellsOf DEF Reached
<1>3. ASSUME NEW m \in 0 .. n - 1 PROVE Probe(u, id, m).is # "empty"
  <2>1. m \in Nat /\ Probe(t, id, m).is # "empty"
    BY <1>2 DEF Reached
  <2>2. Spot(t, id, m) \in DOMAIN t /\ Probe(t, id, m) = t[Spot(t, id, m)]
    BY <2>1, CellsOf
  <2>3. Probe(u, id, m) = u[Spot(t, id, m)]
    BY <1>1, <2>1 DEF Probe, Spot
  <2> QED
    BY <2>1, <2>2, <2>3
<1> QED
  BY <1>1, <1>2, <1>3 DEF Reached

(* Where insertOrUpdateInPlace writes: the cell of the id, or one that is  *)
(* free when no cell has the id.                                           *)
LEMMA InsertsAt ==
  ASSUME NEW t, GoodTable(t), Room(t), NEW id \in HandleIds, NEW pos \in Nat
  PROVE  \E n \in Reached(t, id) :
           /\ Spot(t, id, n) \in DOMAIN t
           /\ InsertOrUpdateInPlace(t, id, pos) =
                [t EXCEPT ![Spot(t, id, n)] = IdCell("occupied", id, pos)]
           /\ \/ Occupied(t, Spot(t, id, n)) /\ t[Spot(t, id, n)].id = id
              \/ /\ ~Occupied(t, Spot(t, id, n))
                 /\ \A j \in DOMAIN t : Occupied(t, j) => t[j].id # id
<1> DEFINE H == Hits(t, id)
           R == Reached(t, id)
           tombs == {n \in R : Probe(t, id, n).is = "tomb"}
           n == IF H # {} THEN Min(H) ELSE IF tombs # {} THEN Min(tombs) ELSE Max(R)
<1>1. t \in Seq(Cells) /\ Len(t) > 0
  BY DEF GoodTable
<1>2. /\ 0 \in R /\ R \subseteq 0 .. Len(t) - 1 /\ R \subseteq Nat /\ Len(t) \in Nat
      /\ \A m \in R : Spot(t, id, m) \in DOMAIN t /\ Probe(t, id, m) = t[Spot(t, id, m)]
  <2>1. 0 \in R /\ R \subseteq 0 .. Len(t) - 1 /\ Len(t) \in Nat
    BY <1>1, CellsOf
  <2>2. R \subseteq Nat
    BY <2>1
  <2>3. \A m \in Nat : Spot(t, id, m) \in DOMAIN t /\ Probe(t, id, m) = t[Spot(t, id, m)]
    BY <1>1, CellsOf
  <2> QED
    BY <2>1, <2>2, <2>3
<1>3. InsertOrUpdateInPlace(t, id, pos) =
        [t EXCEPT ![Spot(t, id, n)] = IdCell("occupied", id, pos)]
  BY DEF InsertOrUpdateInPlace, Spot
<1>4. H = {} => \A j \in DOMAIN t : Occupied(t, j) => t[j].id # id
  BY FindsCell
<1>5. n \in R /\ \/ Occupied(t, Spot(t, id, n)) /\ t[Spot(t, id, n)].id = id
                 \/ H = {} /\ ~Occupied(t, Spot(t, id, n))
  <2>1. CASE H # {}
    <3>1. Min(H) \in H
      BY <1>1, <2>1, HitsAre, MinIs
    <3> QED
      BY <1>1, <2>1, <3>1, HitsAre
  <2>2. CASE H = {} /\ tombs # {}
    <3>1. Min(tombs) \in tombs
      BY <1>2, <2>2, MinIs
    <3> QED
      BY <1>2, <2>2, <3>1 DEF Occupied
  <2>3. CASE H = {} /\ tombs = {}
    <3> DEFINE m == Max(R)
    <3>1. m \in R /\ \A y \in R : m >= y
      BY <1>2, MaxIs
    <3>2. Probe(t, id, m).is = "empty"
      <4> SUFFICES ASSUME Probe(t, id, m).is # "empty" PROVE FALSE
        OBVIOUS
      <4> HIDE DEF m
      <4>1. \A k \in 0 .. m : Probe(t, id, k).is # "empty"
        BY <1>2, <3>1 DEF Reached
      <4>2. m + 1 \notin R
        BY <1>2, <3>1
      <4>3. m = Len(t) - 1
        BY <1>2, <3>1, <4>1, <4>2 DEF Reached
      <4>4. PICK j \in DOMAIN t : t[j].is = "empty"
        BY DEF Room
      <4>5. PICK k \in 0 .. Len(t) - 1 : Spot(t, id, k) = j
        BY <1>1, CellsOf
      <4>6. Probe(t, id, k) = t[j]
        BY <1>1, <4>5, CellsOf
      <4> QED
        BY <4>1, <4>3, <4>4, <4>6
    <3> QED
      BY <1>2, <2>3, <3>1, <3>2 DEF Occupied
  <2> QED
    BY <2>1, <2>2, <2>3
<1> HIDE DEF n
<1> QED
  BY <1>2, <1>3, <1>4, <1>5

(* An id whose cells are the same is found the same.                       *)
LEMMA FindsSame ==
  ASSUME NEW t, GoodTable(t), NEW u, GoodTable(u), DOMAIN u = DOMAIN t,
         NEW id \in HandleIds,
         \A j \in DOMAIN t :
           (Occupied(t, j) /\ t[j].id = id) \/ (Occupied(u, j) /\ u[j].id = id) => u[j] = t[j]
  PROVE  LookupId(u, id) = LookupId(t, id)
<1>1. CASE \E j \in DOMAIN t : Occupied(t, j) /\ t[j].id = id
  <2>1. PICK j \in DOMAIN t : Occupied(t, j) /\ t[j].id = id
    BY <1>1
  <2>2. u[j] = t[j] /\ Occupied(u, j)
    BY <2>1 DEF Occupied
  <2>3. LookupId(t, id) = t[j].pos
    BY <2>1, FindsCell
  <2>4. LookupId(u, id) = u[j].pos
    BY <2>1, <2>2, FindsCell
  <2> QED
    BY <2>2, <2>3, <2>4
<1>2. CASE \A j \in DOMAIN t : Occupied(t, j) => t[j].id # id
  <2>1. \A j \in DOMAIN u : Occupied(u, j) => u[j].id # id
    BY <1>2 DEF Occupied
  <2> QED
    BY <1>2, <2>1, FindsNothing
<1> QED
  BY <1>1, <1>2

LEMMA Inserted ==
  ASSUME NEW t, GoodTable(t), Room(t), NEW id \in HandleIds, NEW pos \in Nat, pos > 0,
         NEW u, u = InsertOrUpdateInPlace(t, id, pos)
  PROVE  /\ GoodTable(u) /\ Len(u) = Len(t) /\ DOMAIN u = DOMAIN t
         /\ LookupId(u, id) = pos
         /\ \A x \in HandleIds : x # id => LookupId(u, x) = LookupId(t, x)
         /\ \E i \in DOMAIN t : Occupied(u, i) /\ \A j \in DOMAIN t : j # i => u[j] = t[j]
<1> DEFINE c == IdCell("occupied", id, pos)
<1>1. t \in Seq(Cells) /\ Len(t) > 0
  BY DEF GoodTable
<1>2. PICK n \in Reached(t, id) :
        /\ Spot(t, id, n) \in DOMAIN t /\ u = [t EXCEPT ![Spot(t, id, n)] = c]
        /\ \/ Occupied(t, Spot(t, id, n)) /\ t[Spot(t, id, n)].id = id
           \/ /\ ~Occupied(t, Spot(t, id, n))
              /\ \A j \in DOMAIN t : Occupied(t, j) => t[j].id # id
  BY InsertsAt
<1>3. PICK i \in DOMAIN t : i = Spot(t, id, n)
  BY <1>2
<1>4. /\ c \in Cells /\ c.is = "occupied" /\ c.id = id /\ c.pos = pos
  BY DEF Cells, IdCell
<1> HIDE DEF c
<1>5. /\ u \in Seq(Cells) /\ Len(u) = Len(t) /\ DOMAIN u = DOMAIN t
      /\ u[i] = c /\ \A j \in DOMAIN t : j # i => u[j] = t[j]
  <2>1. u = [t EXCEPT ![i] = c]
    BY <1>2, <1>3
  <2> QED
    BY <1>1, <1>4, <2>1, CellChanged
<1>6. \A x \in HandleIds : \A m \in Reached(t, x) :
        m \in Reached(u, x) /\ Spot(u, x, m) = Spot(t, x, m)
  <2>1. \A j \in DOMAIN t : t[j].is # "empty" => u[j].is # "empty"
    BY <1>4, <1>5
  <2> QED
    BY <1>1, <1>5, <2>1, StillReached
<1>7. ASSUME NEW j \in DOMAIN u, Occupied(u, j)
      PROVE  /\ u[j].id \in HandleIds /\ u[j].pos > 0
             /\ \E m \in Reached(u, u[j].id) : Spot(u, u[j].id, m) = j
  <2>1. CASE j = i
    <3>1. u[j].id = id /\ u[j].pos = pos
      BY <1>4, <1>5, <2>1
    <3>2. n \in Reached(u, id) /\ Spot(u, id, n) = i
      BY <1>3, <1>6
    <3> QED
      BY <2>1, <3>1, <3>2
  <2>2. CASE j # i
    <3>1. u[j] = t[j] /\ j \in DOMAIN t /\ Occupied(t, j)
      BY <1>5, <1>7, <2>2 DEF Occupied
    <3>2. t[j].id \in HandleIds /\ t[j].pos > 0 /\ \E m \in Reached(t, t[j].id) : Spot(t, t[j].id, m) = j
      BY <3>1 DEF GoodTable
    <3> QED
      BY <1>6, <3>1, <3>2
  <2> QED
    BY <2>1, <2>2
<1>8. ASSUME NEW j \in DOMAIN t, j # i, Occupied(t, j) PROVE t[j].id # id
  BY <1>2, <1>3, <1>8 DEF GoodTable
<1>9. GoodTable(u)
  <2>1. \A j, k \in DOMAIN u : Occupied(u, j) /\ Occupied(u, k) /\ u[j].id = u[k].id => j = k
    BY <1>4, <1>5, <1>8 DEF GoodTable, Occupied
  <2> QED
    BY <1>1, <1>5, <1>7, <2>1 DEF GoodTable
<1>10. Occupied(u, i) /\ LookupId(u, id) = pos
  <2>1. Occupied(u, i) /\ u[i].id = id /\ u[i].pos = pos /\ i \in DOMAIN u
    BY <1>4, <1>5 DEF Occupied
  <2> QED
    BY <1>9, <2>1, FindsCell
<1>11. ASSUME NEW x \in HandleIds, x # id PROVE LookupId(u, x) = LookupId(t, x)
  <2>1. Occupied(t, i) => t[i].id = id
    BY <1>2, <1>3
  <2>2. \A j \in DOMAIN t :
          (Occupied(t, j) /\ t[j].id = x) \/ (Occupied(u, j) /\ u[j].id = x) => u[j] = t[j]
    BY <1>4, <1>5, <1>11, <2>1
  <2> QED
    BY <1>5, <1>9, <2>2, FindsSame
<1> QED
  BY <1>5, <1>9, <1>10, <1>11

LEMMA FindsPosition ==
  ASSUME NEW t, GoodTable(t), NEW id \in HandleIds
  PROVE  /\ LookupId(t, id) \in Nat
         /\ LookupId(t, id) # 0 =>
              \E j \in DOMAIN t : /\ Occupied(t, j) /\ t[j].id = id
                                  /\ t[j].pos = LookupId(t, id)
                                  /\ Hits(t, id) # {} /\ Spot(t, id, Min(Hits(t, id))) = j
<1>1. CASE \E j \in DOMAIN t : Occupied(t, j) /\ t[j].id = id
  <2>1. PICK j \in DOMAIN t : Occupied(t, j) /\ t[j].id = id
    BY <1>1
  <2>2. /\ LookupId(t, id) = t[j].pos /\ Hits(t, id) # {}
        /\ \A n \in Hits(t, id) : Spot(t, id, n) = j
    BY <2>1, FindsCell
  <2>3. t \in Seq(Cells) /\ Len(t) > 0 /\ t[j].pos \in Nat
    <3>1. t \in Seq(Cells) /\ Len(t) > 0
      BY DEF GoodTable
    <3>2. t[j] \in Cells
      BY <3>1
    <3> QED
      BY <3>1, <3>2 DEF Cells
  <2>4. Min(Hits(t, id)) \in Hits(t, id)
    <3>1. Hits(t, id) \subseteq Nat
      BY <2>3, HitsAre
    <3> QED
      BY <2>2, <3>1, MinIs
  <2> QED
    BY <2>1, <2>2, <2>3, <2>4
<1>2. CASE \A j \in DOMAIN t : Occupied(t, j) => t[j].id # id
  BY <1>2, FindsNothing
<1> QED
  BY <1>1, <1>2

(* The cells of a table are empty, occupied or tombstones.                 *)
LEMMA CellCounts ==
  ASSUME NEW t \in Seq(Cells)
  PROVE  /\ IdCells(t, "empty") \in Nat /\ IdCells(t, "occupied") \in Nat
         /\ IdCells(t, "tomb") \in Nat
         /\ IdCells(t, "empty") + IdCells(t, "occupied") + IdCells(t, "tomb") = Len(t)
         /\ Room(t) <=> IdCells(t, "empty") > 0
<1> DEFINE E == {j \in DOMAIN t : t[j].is = "empty"}
           O == {j \in DOMAIN t : t[j].is = "occupied"}
           T == {j \in DOMAIN t : t[j].is = "tomb"}
<1>1. DOMAIN t = 1 .. Len(t) /\ Len(t) \in Nat
  OBVIOUS
<1>2. IsFiniteSet(DOMAIN t) /\ Cardinality(DOMAIN t) = Len(t)
  <2> PICK a, b : a = 1 /\ b = Len(t)
    OBVIOUS
  <2>3. a \in Int /\ b \in Int /\ b >= 0 /\ a = 1
    BY <1>1
  <2>1. IsFiniteSet(a .. b) /\ Cardinality(a .. b) = IF a > b THEN 0 ELSE b - a + 1
    BY <2>3, FS_Interval
  <2>2. (IF a > b THEN 0 ELSE b - a + 1) = b
    BY <2>3
  <2> QED
    BY <1>1, <2>1, <2>2
<1>3. /\ IsFiniteSet(E) /\ IsFiniteSet(O) /\ IsFiniteSet(T) /\ IsFiniteSet(E \union O)
      /\ Cardinality(E) \in Nat /\ Cardinality(O) \in Nat /\ Cardinality(T) \in Nat
      /\ Cardinality(E \union O) \in Nat
  <2>1. /\ E \in SUBSET DOMAIN t /\ O \in SUBSET DOMAIN t /\ T \in SUBSET DOMAIN t
        /\ E \union O \in SUBSET DOMAIN t
    OBVIOUS
  <2> HIDE DEF E, O, T
  <2>2. IsFiniteSet(E) /\ IsFiniteSet(O) /\ IsFiniteSet(T) /\ IsFiniteSet(E \union O)
    BY <1>2, <2>1, FS_Subset
  <2> QED
    BY <2>2, FS_CardinalityType
<1>4. (E \union O) \union T = DOMAIN t
  <2>1. \A j \in DOMAIN t : t[j] \in Cells
    BY <1>1
  <2>2. \A j \in DOMAIN t : t[j].is \in {"empty", "occupied", "tomb"}
    BY <2>1 DEF Cells
  <2> QED
    BY <2>2
<1>5. E \intersect O = {} /\ (E \union O) \intersect T = {}
  OBVIOUS
<1>6. Room(t) <=> E # {}
  BY DEF Room
<1>7. IdCells(t, "empty") = Cardinality(E) /\ IdCells(t, "occupied") = Cardinality(O)
      /\ IdCells(t, "tomb") = Cardinality(T)
  BY DEF IdCells
<1> HIDE DEF E, O, T
<1>8. Cardinality(E \union O) = Cardinality(E) + Cardinality(O)
  <2>1. Cardinality(E \union O) = Cardinality(E) + Cardinality(O) - Cardinality(E \intersect O)
    BY <1>3, FS_Union
  <2>2. Cardinality(E \intersect O) = 0
    BY <1>5, FS_EmptySet
  <2> QED
    BY <1>3, <2>1, <2>2
<1>9. Cardinality(DOMAIN t) = Cardinality(E \union O) + Cardinality(T)
  <2>1. Cardinality((E \union O) \union T) =
          Cardinality(E \union O) + Cardinality(T) - Cardinality((E \union O) \intersect T)
    BY <1>3, FS_Union
  <2>2. Cardinality((E \union O) \intersect T) = 0
    BY <1>5, FS_EmptySet
  <2> QED
    BY <1>3, <1>4, <2>1, <2>2
<1>10. E # {} <=> Cardinality(E) > 0
  BY <1>3, FS_EmptySet
<1> QED
  BY <1>2, <1>3, <1>6, <1>7, <1>8, <1>9, <1>10

(* With two cells empty, one is after an insertion.                        *)
LEMMA RoomLeft ==
  ASSUME NEW t \in Seq(Cells), IdCells(t, "empty") >= 2, NEW u, DOMAIN u = DOMAIN t,
         NEW i \in DOMAIN t, \A j \in DOMAIN t : j # i => u[j] = t[j]
  PROVE  Room(u)
<1> DEFINE E == {j \in DOMAIN t : t[j].is = "empty"}
<1>1. Cardinality(E) >= 2
  <2>1. IdCells(t, "empty") = Cardinality(E)
    BY DEF IdCells
  <2> QED
    BY <2>1
<1>2. E # {i} /\ E # {}
  <2>1. Cardinality({i}) = 1 /\ Cardinality({}) = 0
    BY FS_Singleton, FS_EmptySet
  <2> HIDE DEF E
  <2>2. (E = {i} => Cardinality(E) = 1) /\ (E = {} => Cardinality(E) = 0)
    BY <2>1, Zenon
  <2> QED
    BY <1>1, <2>2
<1>3. PICK j \in E : j # i
  BY <1>2
<1> QED
  BY <1>3 DEF Room

LEMMA EmptyTableIs ==
  ASSUME NEW cap \in Nat, cap > 0
  PROVE  /\ GoodTable(EmptyTable(cap)) /\ Room(EmptyTable(cap)) /\ Len(EmptyTable(cap)) = cap
         /\ \A j \in DOMAIN EmptyTable(cap) : EmptyTable(cap)[j].is = "empty"
         /\ \A id \in HandleIds : LookupId(EmptyTable(cap), id) = 0
<1> DEFINE t == EmptyTable(cap)
<1>1. t \in [1 .. cap -> Cells]
  BY DEF EmptyTable, EmptyCell, IdCell, Cells
<1>2. \A j \in 1 .. cap : t[j].is = "empty"
  BY DEF EmptyTable, EmptyCell, IdCell
<1> HIDE DEF t
<1>3. t \in Seq(Cells) /\ Len(t) = cap /\ DOMAIN t = 1 .. cap
  BY <1>1, SeqDef, LenProperties
<1>4. GoodTable(t)
  BY <1>2, <1>3 DEF GoodTable, Occupied
<1>5. Room(t)
  BY <1>2, <1>3 DEF Room
<1>6. \A id \in HandleIds : LookupId(t, id) = 0
  BY <1>2, <1>3, <1>4, FindsNothing DEF Occupied
<1> QED
  BY <1>2, <1>3, <1>4, <1>5, <1>6 DEF t

LEMMA RehashingIs ==
  ASSUME NEW t \in Seq(Cells), NEW cap \in Nat, cap > 0,
         \A j \in DOMAIN t : Occupied(t, j) => t[j].id \in HandleIds
  PROVE  /\ Rehashing(t, cap)[0] = EmptyTable(cap)
         /\ \A j \in 1 .. Len(t) :
              Rehashing(t, cap)[j] =
                IF t[j].is = "occupied"
                THEN InsertOrUpdateInPlace(Rehashing(t, cap)[j - 1], t[j].id, t[j].pos)
                ELSE Rehashing(t, cap)[j - 1]
<1> DEFINE Step(u, j) == IF t[j].is = "occupied"
                         THEN InsertOrUpdateInPlace(u, t[j].id, t[j].pos) ELSE u
           step == [j \in 1 .. Len(t) |-> [u \in Seq(Cells) |-> Step(u, j)]]
           E == EmptyTable(cap)
<1>1. E \in Seq(Cells)
  BY EmptyTableIs DEF GoodTable
<1>2. ASSUME NEW j \in 1 .. Len(t), NEW u \in Seq(Cells) PROVE Step(u, j) \in Seq(Cells)
  <2>1. t[j] \in Cells
    OBVIOUS
  <2>2. CASE t[j].is = "occupied"
    <3> DEFINE c == IdCell("occupied", t[j].id, t[j].pos)
    <3>1. c \in Cells
      BY <2>1 DEF Cells, IdCell
    <3>2. PICK i : Step(u, j) = [u EXCEPT ![i] = c]
      BY <2>2 DEF InsertOrUpdateInPlace
    <3> HIDE DEF c
    <3> QED
      BY <3>1, <3>2
  <2> QED
    BY <2>2
<1> HIDE DEF Step, E
<1>3. step \in [1 .. Len(t) -> [Seq(Cells) -> Seq(Cells)]]
  BY <1>2
<1>4. Len(t) \in Nat
  OBVIOUS
<1>5. PICK g \in [0 .. Len(t) -> Seq(Cells)] :
        g[0] = E /\ \A j \in 1 .. Len(t) : g[j] = step[j][g[j - 1]]
  <2> HIDE DEF step
  <2>1. PICK S : S = Seq(Cells)
    OBVIOUS
  <2>2. PICK n \in Nat : n = Len(t)
    BY <1>4
  <2>3. Steps(S, E, n, step)
    BY <1>1, <1>3, <2>1, <2>2 DEF Steps
  <2>4. PICK g : Run(S, E, n, step, g)
    BY <2>3, StepsExist
  <2> QED
    BY <2>1, <2>2, <2>4 DEF Run
<1>6. ASSUME NEW j \in 1 .. Len(t) PROVE g[j] = Step(g[j - 1], j)
  <2>1. g[j - 1] \in Seq(Cells)
    BY <1>4
  <2>2. step[j][g[j - 1]] = Step(g[j - 1], j)
    BY <2>1
  <2> QED
    BY <1>5, <2>2
<1>7. g = [j \in 0 .. Len(t) |-> IF j = 0 THEN E ELSE Step(g[j - 1], j)]
  BY <1>5, <1>6
<1>8. Rehashing(t, cap) =
        CHOOSE f : f = [j \in 0 .. Len(t) |-> IF j = 0 THEN E ELSE Step(f[j - 1], j)]
  BY DEF Rehashing, Step, E
<1>9. Rehashing(t, cap) =
        [j \in 0 .. Len(t) |-> IF j = 0 THEN E ELSE Step(Rehashing(t, cap)[j - 1], j)]
  BY <1>7, <1>8
<1>10. Rehashing(t, cap)[0] = E
  BY <1>4, <1>9
<1>11. ASSUME NEW j \in 1 .. Len(t)
       PROVE  Rehashing(t, cap)[j] = Step(Rehashing(t, cap)[j - 1], j)
  <2>1. j \in 0 .. Len(t) /\ j # 0
    BY <1>4
  <2> QED
    BY <1>9, <2>1, Zenon
<1> QED
  BY <1>10, <1>11 DEF Step, E

(* A table whose ids another has too has no more occupied cells.           *)
LEMMA FewerIds ==
  ASSUME NEW t, GoodTable(t), NEW u, GoodTable(u),
         \A id \in HandleIds : LookupId(u, id) # 0 => LookupId(t, id) # 0
  PROVE  IdCells(u, "occupied") <= IdCells(t, "occupied")
<1> DEFINE A == {k \in DOMAIN u : u[k].is = "occupied"}
           B == {j \in DOMAIN t : t[j].is = "occupied"}
           f == [k \in A |-> CHOOSE j \in B : t[j].id = u[k].id]
<1>1. ASSUME NEW k \in A PROVE \E j \in B : t[j].id = u[k].id
  <2>1. Occupied(u, k) /\ u[k].id \in HandleIds /\ u[k].pos > 0
    BY DEF GoodTable, Occupied
  <2>2. LookupId(u, u[k].id) = u[k].pos
    BY <2>1, FindsCell
  <2>3. LookupId(t, u[k].id) # 0
    BY <2>1, <2>2
  <2>4. \E j \in DOMAIN t : Occupied(t, j) /\ t[j].id = u[k].id
    BY <2>1, <2>3, FindsPosition
  <2> QED
    BY <2>4 DEF Occupied
<1>2. \A k \in A : f[k] \in B /\ t[f[k]].id = u[k].id
  BY <1>1
<1>3. f \in [A -> B]
  BY <1>1
<1> HIDE DEF f
<1>4. \A k, i \in A : f[k] = f[i] => k = i
  BY <1>2 DEF GoodTable, Occupied
<1>5. f \in Injection(A, B)
  BY <1>3, <1>4 DEF Injection, IsInjective
<1>6. IsFiniteSet(B) /\ Cardinality(A) \in Nat /\ Cardinality(B) \in Nat
  <2>1. t \in Seq(Cells) /\ u \in Seq(Cells)
    BY DEF GoodTable
  <2>2. DOMAIN t = 1 .. Len(t) /\ DOMAIN u = 1 .. Len(u) /\ Len(t) \in Nat /\ Len(u) \in Nat
    BY <2>1
  <2>3. IsFiniteSet(DOMAIN t) /\ IsFiniteSet(DOMAIN u)
    BY <2>2, FS_Interval
  <2>4. A \in SUBSET DOMAIN u /\ B \in SUBSET DOMAIN t
    OBVIOUS
  <2> HIDE DEF A, B
  <2>5. IsFiniteSet(A) /\ IsFiniteSet(B)
    BY <2>3, <2>4, FS_Subset
  <2> QED
    BY <2>5, FS_CardinalityType
<1>7. IdCells(u, "occupied") = Cardinality(A) /\ IdCells(t, "occupied") = Cardinality(B)
  BY DEF IdCells
<1> HIDE DEF A, B
<1>8. Cardinality(A) <= Cardinality(B)
  BY <1>5, <1>6, FS_Injection
<1> QED
  BY <1>7, <1>8

(* A rehash with cells enough keeps what is found and leaves no tombstone. *)
LEMMA RehashKeeps ==
  ASSUME NEW t, GoodTable(t), NEW cap \in Nat, IdCells(t, "occupied") < cap,
         NEW u, u = Rehashed(t, cap)
  PROVE  /\ GoodTable(u) /\ Len(u) = cap
         /\ IdCells(u, "tomb") = 0 /\ IdCells(u, "occupied") <= IdCells(t, "occupied")
         /\ \A id \in HandleIds : LookupId(u, id) = LookupId(t, id)
<1> DEFINE F == Rehashing(t, cap)
           Among(j, id) == \E i \in 1 .. j : Occupied(t, i) /\ t[i].id = id
           NoTombs(w) == \A i \in DOMAIN w : w[i].is # "tomb"
           Made(j, w) == /\ GoodTable(w) /\ Len(w) = cap /\ NoTombs(w)
                         /\ \A id \in HandleIds :
                              LookupId(w, id) = IF Among(j, id) THEN LookupId(t, id) ELSE 0
           S == {j \in Nat : j <= Len(t) => Made(j, F[j])}
<1>1. t \in Seq(Cells) /\ Len(t) \in Nat /\ DOMAIN t = 1 .. Len(t)
  BY DEF GoodTable
<1>2. IdCells(t, "occupied") \in Nat /\ cap > 0
  BY <1>1, CellCounts
<1>3. /\ F[0] = EmptyTable(cap)
      /\ \A j \in 1 .. Len(t) :
           F[j] = IF t[j].is = "occupied"
                  THEN InsertOrUpdateInPlace(F[j - 1], t[j].id, t[j].pos) ELSE F[j - 1]
  BY <1>1, <1>2, RehashingIs DEF GoodTable
<1> HIDE DEF F
<1>4. ASSUME NEW w, GoodTable(w), NoTombs(w) PROVE IdCells(w, "tomb") = 0
  <2>1. {i \in DOMAIN w : w[i].is = "tomb"} = {}
    BY <1>4
  <2> QED
    BY <2>1, FS_EmptySet, Zenon DEF IdCells
<1>5. ASSUME NEW w, NEW j, Made(j, w) PROVE IdCells(w, "occupied") <= IdCells(t, "occupied")
  <2>1. \A id \in HandleIds : LookupId(w, id) # 0 => LookupId(t, id) # 0
    BY <1>5
  <2>2. GoodTable(w)
    BY <1>5
  <2> QED
    BY <2>1, <2>2, FewerIds
<1>6. 0 \in S
  <2>1. \A id : ~Among(0, id)
    OBVIOUS
  <2>2. NoTombs(EmptyTable(cap))
    BY <1>2, EmptyTableIs
  <2>3. Made(0, EmptyTable(cap))
    BY <1>2, <2>1, <2>2, EmptyTableIs
  <2> QED
    BY <1>3, <2>3
<1>7. ASSUME NEW j \in Nat, j \in S PROVE j + 1 \in S
  <2> SUFFICES ASSUME j + 1 <= Len(t) PROVE Made(j + 1, F[j + 1])
    OBVIOUS
  <2>1. PICK w : w = F[j]
    OBVIOUS
  <2>2. Made(j, w)
    BY <1>1, <1>7, <2>1
  <2>3. j + 1 \in 1 .. Len(t) /\ j + 1 \in DOMAIN t
    BY <1>1
  <2>4. F[j + 1] = IF t[j + 1].is = "occupied"
                   THEN InsertOrUpdateInPlace(w, t[j + 1].id, t[j + 1].pos) ELSE w
    BY <1>3, <2>1, <2>3
  <2>5. \A id : Among(j + 1, id) <=> Among(j, id) \/ (Occupied(t, j + 1) /\ t[j + 1].id = id)
    OBVIOUS
  <2>6. CASE ~Occupied(t, j + 1)
    <3>1. F[j + 1] = w
      BY <2>4, <2>6 DEF Occupied
    <3>2. \A id : Among(j + 1, id) <=> Among(j, id)
      BY <2>5, <2>6
    <3> HIDE DEF Among
    <3> QED
      BY <2>2, <3>1, <3>2
  <2>7. CASE Occupied(t, j + 1)
    <3>1. PICK c : c = t[j + 1]
      OBVIOUS
    <3>2. c.id \in HandleIds /\ c.pos > 0 /\ c.pos \in Nat /\ LookupId(t, c.id) = c.pos
      <4>1. c.id \in HandleIds /\ c.pos > 0
        BY <2>3, <2>7, <3>1 DEF GoodTable
      <4>2. c \in Cells
        BY <1>1, <2>3, <3>1
      <4>3. LookupId(t, c.id) = c.pos
        BY <2>3, <2>7, <3>1, FindsCell
      <4> QED
        BY <4>1, <4>2, <4>3 DEF Cells
    <3>3. PICK x : x = InsertOrUpdateInPlace(w, c.id, c.pos)
      OBVIOUS
    <3>4. F[j + 1] = x
      BY <2>4, <2>7, <3>1, <3>3 DEF Occupied
    <3>5. GoodTable(w) /\ Len(w) = cap /\ NoTombs(w)
      BY <2>2
    <3>6. Room(w)
      <4>1. IdCells(w, "tomb") = 0
        BY <1>4, <3>5
      <4>2. IdCells(w, "occupied") <= IdCells(t, "occupied")
        BY <1>5, <2>2
      <4>3. w \in Seq(Cells)
        BY <3>5 DEF GoodTable
      <4> QED
        BY <1>2, <3>5, <4>1, <4>2, <4>3, CellCounts
    <3>7. /\ GoodTable(x) /\ Len(x) = Len(w) /\ DOMAIN x = DOMAIN w
          /\ LookupId(x, c.id) = c.pos
          /\ \A y \in HandleIds : y # c.id => LookupId(x, y) = LookupId(w, y)
          /\ \E i \in DOMAIN w : Occupied(x, i) /\ \A k \in DOMAIN w : k # i => x[k] = w[k]
      BY <3>2, <3>3, <3>5, <3>6, Inserted
    <3>8. NoTombs(x)
      BY <3>5, <3>7 DEF Occupied
    <3>9. ASSUME NEW id \in HandleIds
          PROVE  LookupId(x, id) = IF Among(j + 1, id) THEN LookupId(t, id) ELSE 0
      <4>1. Among(j + 1, id) <=> Among(j, id) \/ c.id = id
        BY <2>5, <2>7, <3>1
      <4>2. LookupId(w, id) = IF Among(j, id) THEN LookupId(t, id) ELSE 0
        BY <2>2
      <4> HIDE DEF Among
      <4>3. CASE id = c.id
        BY <3>2, <3>7, <4>1, <4>3
      <4>4. CASE id # c.id
        BY <3>7, <4>1, <4>2, <4>4
      <4> QED
        BY <4>3, <4>4
    <3> HIDE DEF Among, NoTombs
    <3> QED
      BY <3>4, <3>5, <3>7, <3>8, <3>9
  <2> QED
    BY <2>6, <2>7
<1> HIDE DEF S
<1>8. Len(t) \in S
  BY <1>1, <1>6, <1>7, ByInduction
<1>9. Made(Len(t), F[Len(t)])
  BY <1>1, <1>8 DEF S
<1>10. u = F[Len(t)]
  BY DEF Rehashed, F
<1>11. Made(Len(t), u)
  BY <1>9, <1>10
<1>12. ASSUME NEW id \in HandleIds PROVE LookupId(u, id) = LookupId(t, id)
  <2>1. CASE Among(Len(t), id)
    BY <1>11, <2>1
  <2>2. CASE ~Among(Len(t), id)
    <3>1. LookupId(t, id) = 0
      BY <1>1, <2>2, FindsNothing
    <3> QED
      BY <1>11, <2>2, <3>1
  <2> QED
    BY <2>1, <2>2
<1>13. GoodTable(u) /\ Len(u) = cap /\ NoTombs(u)
  BY <1>11
<1> QED
  BY <1>4, <1>5, <1>11, <1>12, <1>13, SMTT(30)

(* capForCount finds room for the ids and two cells more.                  *)
LEMMA DoublingIs ==
  ASSUME NEW n \in Nat
  PROVE  \A i \in 0 .. n : Doubling(n)[i] \in Nat /\ Doubling(n)[i] >= 2 * (i + 1)
<1> DEFINE F == Doubling(n)
           step == [i \in 1 .. n |-> [c \in Nat |-> 2 * c]]
           S == {i \in Nat : i <= n => F[i] \in Nat /\ F[i] >= 2 * (i + 1)}
<1>1. MinCap \in Nat /\ MinCap >= 2
  BY SizesAssumption
<1>2. step \in [1 .. n -> [Nat -> Nat]]
  OBVIOUS
<1>3. PICK g \in [0 .. n -> Nat] : g[0] = MinCap /\ \A i \in 1 .. n : g[i] = step[i][g[i - 1]]
  <2> HIDE DEF step, F, S
  <2>1. PICK N : N = Nat
    OBVIOUS
  <2>2. Steps(N, MinCap, n, step)
    BY <1>1, <1>2, <2>1 DEF Steps
  <2>3. PICK g : Run(N, MinCap, n, step, g)
    BY <2>2, StepsExist
  <2> QED
    BY <2>1, <2>3 DEF Run
<1>4. ASSUME NEW i \in 1 .. n PROVE g[i] = 2 * g[i - 1]
  <2>1. g[i - 1] \in Nat
    OBVIOUS
  <2>2. step[i][g[i - 1]] = 2 * g[i - 1]
    BY <2>1
  <2> QED
    BY <1>3, <2>2
<1>5. g = [i \in 0 .. n |-> IF i = 0 THEN MinCap ELSE 2 * g[i - 1]]
  BY <1>3, <1>4
<1>6. F = CHOOSE f : f = [i \in 0 .. n |-> IF i = 0 THEN MinCap ELSE 2 * f[i - 1]]
  BY DEF Doubling
<1> HIDE DEF F
<1>7. F = [i \in 0 .. n |-> IF i = 0 THEN MinCap ELSE 2 * F[i - 1]]
  BY <1>5, <1>6
<1>8. F[0] = MinCap /\ \A i \in 1 .. n : F[i] = 2 * F[i - 1]
  BY <1>7
<1>9. 0 \in S
  BY <1>1, <1>8
<1>10. ASSUME NEW i \in Nat, i \in S PROVE i + 1 \in S
  <2> SUFFICES ASSUME i + 1 <= n PROVE F[i + 1] \in Nat /\ F[i + 1] >= 2 * ((i + 1) + 1)
    OBVIOUS
  <2>1. F[i] \in Nat /\ F[i] >= 2 * (i + 1)
    BY <1>10
  <2>2. i + 1 \in 1 .. n /\ (i + 1) - 1 = i
    OBVIOUS
  <2>3. F[i + 1] = 2 * F[i]
    BY <1>8, <2>2
  <2> QED
    BY <2>1, <2>3
<1>11. Nat \subseteq S
  <2> HIDE DEF S
  <2> QED
    BY <1>9, <1>10, ByInduction
<1> QED
  BY <1>11 DEF F

LEMMA CapIs ==
  ASSUME NEW n \in Nat
  PROVE  CapForCount(n) \in Nat /\ 6 * CapForCount(n) >= 10 * n
<1> DEFINE T == {i \in 0 .. n : (Doubling(n)[i] * 6) \div 10 >= n}
<1>1. \A i \in 0 .. n : Doubling(n)[i] \in Nat /\ Doubling(n)[i] >= 2 * (i + 1)
  BY DoublingIs
<1>2. \A c \in Nat : (c * 6) \div 10 >= n <=> 6 * c >= 10 * n
  OBVIOUS
<1>3. n \in T
  <2>1. Doubling(n)[n] \in Nat /\ Doubling(n)[n] >= 2 * (n + 1)
    BY <1>1
  <2> QED
    BY <1>2, <2>1
<1>4. Min(T) \in T
  <2>1. T \subseteq Nat
    OBVIOUS
  <2> HIDE DEF T
  <2> QED
    BY <1>3, <2>1, MinIs
<1>5. CapForCount(n) = Doubling(n)[Min(T)]
  BY DEF CapForCount
<1> QED
  BY <1>1, <1>2, <1>4, <1>5

LEMMA InsertKeeps ==
  ASSUME NEW t, GoodTable(t), NEW id \in HandleIds, NEW pos \in Nat, pos > 0,
         NEW u, u = InsertOrUpdate(t, id, pos)
  PROVE  /\ GoodTable(u) /\ Room(u) /\ LookupId(u, id) = pos
         /\ \A x \in HandleIds : x # id => LookupId(u, x) = LookupId(t, x)
<1> DEFINE occ == IdCells(t, "occupied")
           full == (occ + IdCells(t, "tomb") + 1) * 10 >= Len(t) * 7
           cap == CapForCount(occ + 1)
<1>1. PICK w : w = IF full THEN Rehashed(t, cap) ELSE t
  OBVIOUS
<1>2. u = InsertOrUpdateInPlace(w, id, pos)
  BY <1>1 DEF InsertOrUpdate
<1>3. /\ t \in Seq(Cells) /\ Len(t) \in Nat /\ occ \in Nat
      /\ IdCells(t, "tomb") \in Nat /\ IdCells(t, "empty") \in Nat
      /\ IdCells(t, "empty") + occ + IdCells(t, "tomb") = Len(t)
  <2>1. t \in Seq(Cells)
    BY DEF GoodTable
  <2>2. Len(t) \in Nat
    BY <2>1
  <2> QED
    BY <2>1, <2>2, CellCounts
<1> HIDE DEF occ
<1>4. cap \in Nat /\ 6 * cap >= 10 * (occ + 1)
  <2>1. occ + 1 \in Nat
    BY <1>3
  <2> QED
    BY <2>1, CapIs
<1> HIDE DEF cap
<1>5. /\ GoodTable(w) /\ IdCells(w, "empty") >= 2
      /\ \A x \in HandleIds : LookupId(w, x) = LookupId(t, x)
  <2>1. CASE full
    <3>1. w = Rehashed(t, cap)
      BY <1>1, <2>1
    <3>2. IdCells(t, "occupied") < cap
      BY <1>3, <1>4 DEF occ
    <3>3. /\ GoodTable(w) /\ Len(w) = cap
          /\ IdCells(w, "tomb") = 0 /\ IdCells(w, "occupied") <= occ
          /\ \A x \in HandleIds : LookupId(w, x) = LookupId(t, x)
      BY <1>4, <3>1, <3>2, RehashKeeps DEF occ
    <3>4. /\ IdCells(w, "empty") \in Nat /\ IdCells(w, "occupied") \in Nat
          /\ IdCells(w, "empty") + IdCells(w, "occupied") + IdCells(w, "tomb") = Len(w)
      BY <3>3, CellCounts DEF GoodTable
    <3>5. IdCells(w, "empty") >= 2
      BY <1>3, <1>4, <3>3, <3>4
    <3> QED
      BY <3>3, <3>5
  <2>2. CASE ~full
    <3>1. IdCells(t, "empty") >= 2
      BY <1>3, <2>2
    <3> QED
      BY <1>1, <2>2, <3>1
  <2> QED
    BY <2>1, <2>2
<1>6. w \in Seq(Cells) /\ Room(w)
  <2>1. w \in Seq(Cells)
    BY <1>5 DEF GoodTable
  <2> QED
    BY <1>5, <2>1, CellCounts
<1>7. /\ GoodTable(u) /\ DOMAIN u = DOMAIN w /\ LookupId(u, id) = pos
      /\ \A x \in HandleIds : x # id => LookupId(u, x) = LookupId(w, x)
      /\ \E i \in DOMAIN w : Occupied(u, i) /\ \A j \in DOMAIN w : j # i => u[j] = w[j]
  BY <1>2, <1>5, <1>6, Inserted
<1>8. Room(u)
  BY <1>5, <1>6, <1>7, RoomLeft
<1> QED
  BY <1>5, <1>7, <1>8

LEMMA DeleteKeeps ==
  ASSUME NEW t, GoodTable(t), Room(t), NEW id \in HandleIds, LookupId(t, id) # 0,
         NEW u, u = DeleteFromTable(t, id)
  PROVE  /\ GoodTable(u) /\ Room(u) /\ LookupId(u, id) = 0
         /\ \A x \in HandleIds : x # id => LookupId(u, x) = LookupId(t, x)
<1>1. PICK i \in DOMAIN t : /\ Occupied(t, i) /\ t[i].id = id
                            /\ Spot(t, id, Min(Hits(t, id))) = i
  BY FindsPosition
<1>2. PICK w : w = [t EXCEPT ![i] = TombCell]
  OBVIOUS
<1>3. u = IF IdCells(w, "tomb") >= CompactionThreshold THEN Rehashed(w, Len(w)) ELSE w
  BY <1>1, <1>2 DEF DeleteFromTable, Spot
<1>4. t \in Seq(Cells) /\ Len(t) > 0 /\ TombCell \in Cells /\ TombCell.is = "tomb"
  BY DEF GoodTable, TombCell, IdCell, Cells
<1>5. /\ w \in Seq(Cells) /\ Len(w) = Len(t) /\ DOMAIN w = DOMAIN t
      /\ w[i].is = "tomb" /\ \A j \in DOMAIN t : j # i => w[j] = t[j]
  BY <1>1, <1>2, <1>4, CellChanged
<1>6. \A x \in HandleIds : \A m \in Reached(t, x) :
        m \in Reached(w, x) /\ Spot(w, x, m) = Spot(t, x, m)
  <2>1. \A j \in DOMAIN t : t[j].is # "empty" => w[j].is # "empty"
    BY <1>5
  <2> QED
    BY <1>4, <1>5, <2>1, StillReached
<1>7. \A j \in DOMAIN w : Occupied(w, j) => j # i /\ w[j] = t[j] /\ Occupied(t, j)
  BY <1>5 DEF Occupied
<1>8. GoodTable(w)
  <2>1. ASSUME NEW j \in DOMAIN w, Occupied(w, j)
        PROVE  /\ w[j].id \in HandleIds /\ w[j].pos > 0
               /\ \E m \in Reached(w, w[j].id) : Spot(w, w[j].id, m) = j
    <3>1. w[j] = t[j] /\ Occupied(t, j) /\ j \in DOMAIN t
      BY <1>5, <1>7, <2>1
    <3>2. t[j].id \in HandleIds /\ t[j].pos > 0 /\ \E m \in Reached(t, t[j].id) : Spot(t, t[j].id, m) = j
      BY <3>1 DEF GoodTable
    <3> QED
      BY <1>6, <3>1, <3>2
  <2>2. \A j, k \in DOMAIN w : Occupied(w, j) /\ Occupied(w, k) /\ w[j].id = w[k].id => j = k
    BY <1>5, <1>7 DEF GoodTable
  <2> QED
    BY <1>4, <1>5, <2>1, <2>2 DEF GoodTable
<1>9. LookupId(w, id) = 0
  <2>1. \A j \in DOMAIN w : Occupied(w, j) => w[j].id # id
    BY <1>1, <1>5, <1>7 DEF GoodTable
  <2> QED
    BY <1>8, <2>1, FindsNothing
<1>10. ASSUME NEW x \in HandleIds, x # id PROVE LookupId(w, x) = LookupId(t, x)
  <2>1. \A j \in DOMAIN t :
          (Occupied(t, j) /\ t[j].id = x) \/ (Occupied(w, j) /\ w[j].id = x) => w[j] = t[j]
    BY <1>1, <1>5, <1>7, <1>10
  <2> QED
    BY <1>5, <1>8, <2>1, FindsSame
<1>11. Room(w)
  BY <1>1, <1>5 DEF Room, Occupied
<1>12. CASE u = w
  BY <1>8, <1>9, <1>10, <1>11, <1>12
<1>13. CASE u = Rehashed(w, Len(w))
  <2>1. Len(w) \in Nat
    BY <1>5
  <2>2. /\ IdCells(w, "empty") \in Nat /\ IdCells(w, "occupied") \in Nat /\ IdCells(w, "tomb") \in Nat
        /\ IdCells(w, "empty") + IdCells(w, "occupied") + IdCells(w, "tomb") = Len(w)
        /\ IdCells(w, "empty") > 0
    BY <1>5, <1>11, CellCounts
  <2>3. IdCells(w, "occupied") < Len(w)
    BY <2>1, <2>2
  <2>4. /\ GoodTable(u) /\ Len(u) = Len(w)
        /\ IdCells(u, "tomb") = 0 /\ IdCells(u, "occupied") <= IdCells(w, "occupied")
        /\ \A x \in HandleIds : LookupId(u, x) = LookupId(w, x)
    BY <1>8, <1>13, <2>1, <2>3, RehashKeeps
  <2>5. /\ IdCells(u, "empty") \in Nat /\ IdCells(u, "occupied") \in Nat
        /\ IdCells(u, "empty") + IdCells(u, "occupied") + IdCells(u, "tomb") = Len(u)
        /\ (Room(u) <=> IdCells(u, "empty") > 0)
    BY <2>4, CellCounts DEF GoodTable
  <2>6. Room(u)
    BY <2>1, <2>2, <2>3, <2>4, <2>5
  <2> QED
    BY <1>9, <1>10, <2>4, <2>6
<1> QED
  BY <1>3, <1>12, <1>13

----------------------------------------------------------------------------
(* The index and the list of entries.                                      *)

LEMMA IndexAppends ==
  ASSUME NEW e \in Seq(HandleValues), NEW t, IndexFor(t, e),
         NEW h \in HandleValues, \A j \in DOMAIN e : e[j].id # h.id
  PROVE  IndexFor(InsertOrUpdate(t, h.id, Len(e) + 1), Append(e, h))
<1> DEFINE u == InsertOrUpdate(t, h.id, Len(e) + 1)
           f == Append(e, h)
<1>1. h.id \in HandleIds /\ \A j \in DOMAIN e : e[j].id \in HandleIds
  <2>1. \A j \in DOMAIN e : e[j] \in HandleValues
    OBVIOUS
  <2> QED
    BY <2>1 DEF HandleValues
<1>2. /\ Len(e) + 1 \in Nat /\ Len(e) + 1 > 0
      /\ DOMAIN f = 1 .. Len(e) + 1 /\ DOMAIN e = 1 .. Len(e)
      /\ \A j \in DOMAIN e : f[j] = e[j]
      /\ f[Len(e) + 1] = h
  OBVIOUS
<1>3. /\ GoodTable(u) /\ Room(u) /\ LookupId(u, h.id) = Len(e) + 1
      /\ \A x \in HandleIds : x # h.id => LookupId(u, x) = LookupId(t, x)
  BY <1>1, <1>2, InsertKeeps DEF IndexFor
<1> HIDE DEF u, f
<1>4. ASSUME NEW j \in DOMAIN f PROVE LookupId(u, f[j].id) = j
  <2>1. CASE j = Len(e) + 1
    BY <1>2, <1>3, <2>1
  <2>2. CASE j \in DOMAIN e
    <3>1. f[j].id = e[j].id /\ e[j].id # h.id /\ e[j].id \in HandleIds
      BY <1>1, <1>2, <2>2
    <3>2. LookupId(t, e[j].id) = j
      BY <2>2 DEF IndexFor
    <3> QED
      BY <1>3, <3>1, <3>2
  <2> QED
    BY <1>2, <2>1, <2>2
<1>5. ASSUME NEW id \in HandleIds, LookupId(u, id) # 0
      PROVE  LookupId(u, id) \in DOMAIN f /\ f[LookupId(u, id)].id = id
  <2>1. CASE id = h.id
    BY <1>2, <1>3, <2>1
  <2>2. CASE id # h.id
    <3>1. LookupId(u, id) = LookupId(t, id)
      BY <1>3, <2>2
    <3>2. LookupId(t, id) \in DOMAIN e /\ e[LookupId(t, id)].id = id
      BY <1>5, <3>1 DEF IndexFor
    <3> QED
      BY <1>2, <3>1, <3>2
  <2> QED
    BY <2>1, <2>2
<1> QED
  BY <1>3, <1>4, <1>5 DEF IndexFor, u, f

(* The last entry moves to the position of the one that is deleted.        *)
Moved(e, pos, f) ==
  /\ DOMAIN f = 1 .. Len(e) - 1
  /\ \A j \in 1 .. Len(e) - 1 : f[j] = IF j = pos THEN e[Len(e)] ELSE e[j]
Repointed(t, e, pos) ==
  IF pos = Len(e) THEN t ELSE InsertOrUpdate(t, e[Len(e)].id, pos)

LEMMA ListDeletes ==
  ASSUME NEW S, NEW e \in Seq(S), NEW pos \in DOMAIN e,
         NEW f, f = Front([e EXCEPT ![pos] = Last(e)])
  PROVE  f \in Seq(S) /\ Moved(e, pos, f)
<1>1. PICK g : g = [e EXCEPT ![pos] = e[Len(e)]]
  OBVIOUS
<1>2. PICK n \in Nat : n = Len(e) /\ n > 0 /\ DOMAIN e = 1 .. n
  OBVIOUS
<1>3. /\ g \in Seq(S) /\ Len(g) = n
      /\ \A j \in 1 .. n : g[j] = IF j = pos THEN e[n] ELSE e[j]
  BY <1>1, <1>2
<1>4. f = SubSeq(g, 1, n - 1)
  BY <1>1, <1>2, <1>3 DEF Front, Last
<1>5. SubSeq(g, 1, n - 1) \in Seq(S)
  BY <1>2, <1>3
<1>6. /\ Len(SubSeq(g, 1, n - 1)) = n - 1
      /\ \A j \in 1 .. n - 1 : SubSeq(g, 1, n - 1)[j] = g[j]
  BY <1>2, <1>3
<1>7. DOMAIN f = 1 .. n - 1
  BY <1>2, <1>4, <1>5, <1>6
<1>8. \A j \in 1 .. n - 1 : f[j] = IF j = pos THEN e[n] ELSE e[j]
  <2>1. \A j \in 1 .. n - 1 : j \in 1 .. n
    BY <1>2
  <2> QED
    BY <1>3, <1>4, <1>6, <2>1
<1>9. f \in Seq(S)
  BY <1>4, <1>5
<1> QED
  BY <1>2, <1>7, <1>8, <1>9, Zenon DEF Moved

LEMMA IndexDeletes ==
  ASSUME NEW e \in Seq(HandleValues), NEW t, IndexFor(t, e), NEW pos \in DOMAIN e,
         NEW f \in Seq(HandleValues), Moved(e, pos, f)
  PROVE  /\ IndexFor(DeleteFromTable(Repointed(t, e, pos), e[pos].id), f)
         /\ ToSet(f) = ToSet(e) \ {e[pos]}
<1> PICK n \in Nat : n = Len(e)
  OBVIOUS
<1> PICK w : w = IF pos = n THEN t ELSE InsertOrUpdate(t, e[n].id, pos)
  OBVIOUS
<1> PICK u : u = DeleteFromTable(w, e[pos].id)
  OBVIOUS
<1>1. /\ n > 0 /\ DOMAIN e = 1 .. n /\ pos \in 1 .. n /\ pos \in Nat /\ pos > 0
      /\ n \in DOMAIN e
  OBVIOUS
<1>2. \A j \in DOMAIN e : e[j] \in HandleValues /\ e[j].id \in HandleIds
  <2>1. \A j \in DOMAIN e : e[j] \in HandleValues
    BY <1>1
  <2> QED
    BY <2>1 DEF HandleValues
<1>4. /\ DOMAIN f = 1 .. n - 1
      /\ \A j \in 1 .. n - 1 : f[j] = IF j = pos THEN e[n] ELSE e[j]
  BY DEF Moved
<1>5. \A j, k \in DOMAIN e : e[j].id = e[k].id => j = k
  BY DEF IndexFor
<1>7. /\ GoodTable(w) /\ Room(w)
      /\ \A id \in HandleIds : LookupId(w, id) = IF pos # n /\ id = e[n].id THEN pos ELSE LookupId(t, id)
  <2>1. CASE pos = n
    BY <2>1 DEF IndexFor
  <2>2. CASE pos # n
    <3>1. w = InsertOrUpdate(t, e[n].id, pos) /\ e[n].id \in HandleIds /\ GoodTable(t)
      BY <1>1, <1>2, <2>2 DEF IndexFor
    <3>2. /\ GoodTable(w) /\ Room(w) /\ LookupId(w, e[n].id) = pos
          /\ \A x \in HandleIds : x # e[n].id => LookupId(w, x) = LookupId(t, x)
      BY <1>1, <3>1, InsertKeeps
    <3> QED
      BY <2>2, <3>2
  <2> QED
    BY <2>1, <2>2
<1>9. e[pos].id \in HandleIds /\ LookupId(t, e[pos].id) = pos
  BY <1>2 DEF IndexFor
<1>10. LookupId(w, e[pos].id) # 0
  BY <1>1, <1>7, <1>9
<1>11. /\ GoodTable(u) /\ Room(u) /\ LookupId(u, e[pos].id) = 0
       /\ \A x \in HandleIds : x # e[pos].id => LookupId(u, x) = LookupId(w, x)
  BY <1>7, <1>9, <1>10, DeleteKeeps
<1>12. ASSUME NEW j \in DOMAIN f PROVE LookupId(u, f[j].id) = j
  <2>1. j \in DOMAIN e /\ j # n /\ j \in 1 .. n - 1
    BY <1>1, <1>4
  <2>2. CASE j = pos
    <3>1. f[j].id = e[n].id /\ e[n].id \in HandleIds /\ e[n].id # e[pos].id
      BY <1>1, <1>2, <1>4, <1>5, <2>1, <2>2
    <3> QED
      BY <1>7, <1>11, <2>1, <2>2, <3>1
  <2>3. CASE j # pos
    <3>1. f[j].id = e[j].id /\ e[j].id \in HandleIds /\ e[j].id # e[pos].id /\ e[j].id # e[n].id
      BY <1>1, <1>2, <1>4, <1>5, <2>1, <2>3
    <3>2. LookupId(t, e[j].id) = j
      BY <2>1 DEF IndexFor
    <3> QED
      BY <1>7, <1>11, <3>1, <3>2
  <2> QED
    BY <2>2, <2>3
<1>13. ASSUME NEW id \in HandleIds, LookupId(u, id) # 0
       PROVE  LookupId(u, id) \in DOMAIN f /\ f[LookupId(u, id)].id = id
  <2>1. id # e[pos].id /\ LookupId(u, id) = LookupId(w, id)
    BY <1>11, <1>13
  <2>2. CASE pos # n /\ id = e[n].id
    <3>1. LookupId(u, id) = pos /\ pos \in 1 .. n - 1
      BY <1>1, <1>7, <2>1, <2>2
    <3> QED
      BY <1>4, <2>2, <3>1
  <2>3. CASE ~(pos # n /\ id = e[n].id)
    <3>1. PICK k : k = LookupId(t, id)
      OBVIOUS
    <3>2. LookupId(u, id) = k
      BY <1>7, <2>1, <2>3, <3>1
    <3>3. k \in DOMAIN e /\ e[k].id = id
      BY <1>13, <3>1, <3>2 DEF IndexFor
    <3>4. k # pos /\ k # n
      BY <2>1, <2>3, <3>3
    <3>5. k \in 1 .. n - 1
      BY <1>1, <3>3, <3>4
    <3> QED
      BY <1>4, <3>2, <3>3, <3>4, <3>5
  <2> QED
    BY <2>2, <2>3
<1>14. ToSet(f) = ToSet(e) \ {e[pos]}
  <2>1. ASSUME NEW j \in DOMAIN f PROVE \E k \in DOMAIN e : f[j] = e[k] /\ e[k] # e[pos]
    <3>1. j \in 1 .. n - 1 /\ j \in DOMAIN e /\ j # n
      BY <1>1, <1>4
    <3>2. CASE j = pos
      BY <1>1, <1>4, <1>5, <3>1, <3>2
    <3>3. CASE j # pos
      BY <1>1, <1>4, <1>5, <3>1, <3>3
    <3> QED
      BY <3>2, <3>3
  <2>2. ASSUME NEW k \in DOMAIN e, e[k] # e[pos] PROVE \E j \in DOMAIN f : f[j] = e[k]
    <3>1. CASE k = n
      <4>1. pos \in 1 .. n - 1
        BY <1>1, <2>2, <3>1
      <4> QED
        BY <1>4, <3>1, <4>1
    <3>2. CASE k # n
      <4>1. k \in 1 .. n - 1 /\ k # pos
        BY <1>1, <2>2, <3>2
      <4> QED
        BY <1>4, <4>1
    <3> QED
      BY <3>1, <3>2
  <2>3. ASSUME NEW x PROVE x \in ToSet(f) <=> x \in ToSet(e) \ {e[pos]}
    <3>1. x \in ToSet(f) => x \in ToSet(e) \ {e[pos]}
      BY <2>1 DEF ToSet
    <3>2. x \in ToSet(e) \ {e[pos]} => x \in ToSet(f)
      BY <2>2 DEF ToSet
    <3> QED
      BY <3>1, <3>2
  <2> QED
    BY <2>3, Zenon
<1>15. IndexFor(u, f)
  BY <1>11, <1>12, <1>13 DEF IndexFor
<1>16. u = DeleteFromTable(Repointed(t, e, pos), e[pos].id)
  BY DEF Repointed
<1> QED
  BY <1>14, <1>15, <1>16

(* An entry is found under its id and no other.                            *)
LEMMA IndexFinds ==
  ASSUME NEW e \in Seq(HandleValues), NEW t, IndexFor(t, e), NEW id \in HandleIds
  PROVE  /\ LookupId(t, id) = 0 => \A h \in ToSet(e) : h.id # id
         /\ LookupId(t, id) # 0 =>
              /\ LookupId(t, id) \in DOMAIN e
              /\ e[LookupId(t, id)] \in ToSet(e)
              /\ e[LookupId(t, id)].id = id
<1>1. \A j \in DOMAIN e : j # 0
  OBVIOUS
<1> QED
  BY <1>1 DEF IndexFor, ToSet

----------------------------------------------------------------------------
(* Operations on a snapshot.                                               *)

LEMMA FieldsOf ==
  ASSUME NEW s \in Snapshots
  PROVE  /\ s.array \in Nat /\ s.data \in Seq(Bytes) /\ s.slots \in Seq(Nat)
         /\ s.free \in Seq(Nat) /\ s.entries \in Seq(HandleValues)
         /\ s.holes \in Seq(Holes) /\ s.index \in Seq(Cells)
         /\ s # NoRegistry
         /\ \A h \in Handles(s) : /\ h \in HandleValues /\ h.slot \in Nat
                                  /\ h.length \in Nat /\ h.id \in HandleIds
         /\ \A i \in DOMAIN s.holes : s.holes[i].offset \in Nat /\ s.holes[i].length \in Nat
         /\ \A i \in DOMAIN s.slots : s.slots[i] \in Nat
<1>1. /\ s.array \in Nat /\ s.data \in Seq(Bytes) /\ s.slots \in Seq(Nat)
      /\ s.free \in Seq(Nat) /\ s.entries \in Seq(HandleValues)
      /\ s.holes \in Seq(Holes) /\ s.index \in Seq(Cells)
  BY DEF Snapshots
<1>2. s # NoRegistry
  <2>1. "array" \in DOMAIN s
    BY DEF Snapshots
  <2>2. DOMAIN NoRegistry = {}
    BY DEF NoRegistry
  <2> QED
    BY <2>1, <2>2
<1>3. \A h \in Handles(s) : h \in HandleValues
  BY <1>1 DEF Handles, ToSet
<1>4. \A h \in HandleValues : h.slot \in Nat /\ h.length \in Nat /\ h.id \in HandleIds
  BY DEF HandleValues
<1>5. \A i \in DOMAIN s.holes : s.holes[i] \in Holes
  BY <1>1
<1>6. \A a \in Holes : a.offset \in Nat /\ a.length \in Nat
  BY DEF Holes
<1>7. \A i \in DOMAIN s.slots : s.slots[i] \in Nat
  BY <1>1
<1> QED
  BY <1>1, <1>2, <1>3, <1>4, <1>5, <1>6, <1>7

LEMMA PieceIs ==
  ASSUME NEW s, NEW h
  PROVE  PieceOf(s, h).offset = s.slots[h.slot] /\ PieceOf(s, h).length = h.length
BY DEF PieceOf, Hole

(* A deletion takes one handle away and leaves a hole in its place.        *)
LEMMA DeletePosKeeps ==
  ASSUME NEW s, SnapInv(s), NEW pos \in DOMAIN s.entries, NEW h, h = s.entries[pos],
         NEW u, u = DeletePos(s, pos)
  PROVE  /\ SnapInv(u) /\ u.array = s.array /\ u.data = s.data
         /\ Handles(u) = Handles(s) \ {h}
         /\ \A g \in Handles(u) : u.slots[g.slot] = s.slots[g.slot]
<1>1. s \in Snapshots /\ IndexFor(s.index, s.entries) /\ SlotsInv(s) /\ LayoutInv(s)
  BY DEF SnapInv
<1>2. PICK n \in Nat : n = Len(s.entries)
  <2>1. s.entries \in Seq(HandleValues)
    BY <1>1, FieldsOf
  <2> QED
    BY <2>1
<1>3. PICK x : x = DeleteFromTable(Repointed(s.index, s.entries, pos), h.id)
  OBVIOUS
<1>4. PICK e : e = Front([s.entries EXCEPT ![pos] = Last(s.entries)])
  OBVIOUS
<1>5. PICK sl, fr, ho : /\ sl = [s.slots EXCEPT ![h.slot] = Dead] /\ fr = <<h.slot>> \o s.free
                        /\ ho = Append(s.holes, Hole(s.slots[h.slot], h.length))
  OBVIOUS
<1>6. s.entries \in Seq(HandleValues) /\ Moved(s.entries, pos, e) /\ e \in Seq(HandleValues)
  <2>1. s.entries \in Seq(HandleValues)
    BY <1>1, FieldsOf
  <2>2. PICK l, S : l = s.entries /\ S = HandleValues
    OBVIOUS
  <2>3. e \in Seq(S) /\ Moved(l, pos, e)
    BY <1>4, <2>1, <2>2, ListDeletes
  <2> QED
    BY <2>1, <2>2, <2>3
<1>7. IndexFor(x, e) /\ ToSet(e) = ToSet(s.entries) \ {h} /\ x \in Seq(Cells)
  <2>1. PICK l, t : l = s.entries /\ t = s.index
    OBVIOUS
  <2>2. /\ l \in Seq(HandleValues) /\ IndexFor(t, l) /\ pos \in DOMAIN l /\ h = l[pos]
        /\ x = DeleteFromTable(Repointed(t, l, pos), l[pos].id) /\ Moved(l, pos, e)
        /\ e \in Seq(HandleValues)
    BY <1>1, <1>3, <1>6, <2>1
  <2>3. IndexFor(x, e) /\ ToSet(e) = ToSet(l) \ {l[pos]}
    BY <2>2, IndexDeletes
  <2> QED
    BY <2>1, <2>2, <2>3 DEF IndexFor, GoodTable
<1>8. h \in Handles(s) /\ h.slot \in DOMAIN s.slots
  BY <1>1 DEF SlotsInv, Handles, ToSet
<1>9. /\ u \in Snapshots /\ u.array = s.array /\ u.data = s.data
      /\ u.entries = e /\ u.index = x
      /\ u.slots = [s.slots EXCEPT ![h.slot] = Dead]
      /\ u.free = <<h.slot>> \o s.free
      /\ u.holes = Append(s.holes, Hole(s.slots[h.slot], h.length))
  <2>1. Last(s.entries) = s.entries[n]
    BY <1>2 DEF Last
  <2>2. u = [s EXCEPT !.entries = e, !.index = x, !.slots = sl, !.free = fr, !.holes = ho]
    BY <1>2, <1>3, <1>4, <1>5, <2>1 DEF DeletePos, Repointed
  <2>3. sl \in Seq(Nat)
    <3>1. PICK old, k : old = s.slots /\ k = h.slot
      OBVIOUS
    <3>2. old \in Seq(Nat) /\ Dead \in Nat /\ k \in DOMAIN old
      BY <1>1, <1>8, <3>1, FieldsOf, SizesAssumption DEF Dead
    <3>3. [old EXCEPT ![k] = Dead] \in Seq(Nat)
      BY <3>2
    <3> QED
      BY <1>5, <3>1, <3>3
  <2>4. fr \in Seq(Nat)
    <3>1. h.slot \in Nat /\ s.free \in Seq(Nat)
      BY <1>1, <1>8, FieldsOf
    <3> QED
      BY <1>5, <3>1
  <2>5. ho \in Seq(Holes)
    <3>1. h.length \in Nat /\ s.slots[h.slot] \in Nat /\ s.holes \in Seq(Holes)
      BY <1>1, <1>8, FieldsOf
    <3>2. Hole(s.slots[h.slot], h.length) \in Holes
      BY <3>1 DEF Hole, Holes
    <3> QED
      BY <1>5, <3>1, <3>2
  <2>6. u \in Snapshots
    BY <1>1, <1>6, <1>7, <2>2, <2>3, <2>4, <2>5 DEF Snapshots
  <2>7. /\ u.array = s.array /\ u.data = s.data /\ u.entries = e /\ u.index = x
        /\ u.slots = sl /\ u.free = fr /\ u.holes = ho
    BY <1>1, <2>2 DEF Snapshots
  <2> QED
    BY <1>5, <2>6, <2>7, Zenon
<1>10. Handles(u) = Handles(s) \ {h}
  BY <1>7, <1>9 DEF Handles
<1>11. DOMAIN u.slots = DOMAIN s.slots /\ \A i \in DOMAIN s.slots : i # h.slot => u.slots[i] = s.slots[i]
  BY <1>9
<1>12. \A g \in Handles(u) : g \in Handles(s) /\ g # h /\ g.slot # h.slot /\ u.slots[g.slot] = s.slots[g.slot]
  BY <1>1, <1>8, <1>10, <1>11 DEF SlotsInv
<1>13. SlotsInv(u)
  <2>1. ASSUME NEW g \in Handles(u)
        PROVE  g.slot \in DOMAIN u.slots /\ \A f \in Handles(u) : f.slot = g.slot => f = g
    BY <1>1, <1>11, <1>12 DEF SlotsInv
  <2>2. PICK free : free = s.free
    OBVIOUS
  <2>3. PICK m \in Nat : m = Len(free) /\ free \in Seq(Nat) /\ DOMAIN free = 1 .. m
    BY <1>1, <2>2, FieldsOf
  <2>4. h.slot \in Nat
    BY <1>1, <1>8, FieldsOf
  <2>5. /\ DOMAIN u.free = 1 .. m + 1 /\ u.free[1] = h.slot
        /\ \A i \in 2 .. m + 1 : u.free[i] = free[i - 1] /\ i - 1 \in DOMAIN free
    BY <1>9, <2>2, <2>3, <2>4
  <2>6. ASSUME NEW i \in DOMAIN u.free
        PROVE  /\ u.free[i] \in DOMAIN u.slots
               /\ \A g \in Handles(u) : g.slot # u.free[i]
               /\ \A k \in DOMAIN u.free : u.free[k] = u.free[i] => k = i
    <3>1. \A k \in DOMAIN free : /\ free[k] # h.slot /\ free[k] \in DOMAIN s.slots
                                 /\ \A g \in Handles(s) : g.slot # free[k]
                                 /\ \A l \in DOMAIN free : free[l] = free[k] => l = k
      BY <1>1, <1>8, <2>2 DEF SlotsInv
    <3>2. CASE i = 1
      <4>1. u.free[i] = h.slot
        BY <2>5, <3>2
      <4>2. \A k \in DOMAIN u.free : k # 1 => k \in 2 .. m + 1
        BY <2>3, <2>5
      <4>3. \A k \in DOMAIN u.free : u.free[k] = u.free[i] => k = i
        BY <2>5, <3>1, <3>2, <4>1, <4>2
      <4>4. h.slot \in DOMAIN u.slots /\ \A g \in Handles(u) : g.slot # h.slot
        BY <1>8, <1>11, <1>12
      <4> QED
        BY <4>1, <4>3, <4>4
    <3>3. CASE i \in 2 .. m + 1
      <4>1. u.free[i] = free[i - 1] /\ i - 1 \in DOMAIN free
        BY <2>5, <3>3
      <4>2. \A k \in DOMAIN u.free : u.free[k] = u.free[i] => k = i
        <5> SUFFICES ASSUME NEW k \in DOMAIN u.free, u.free[k] = u.free[i] PROVE k = i
          OBVIOUS
        <5>1. k # 1
          BY <2>5, <3>1, <4>1
        <5>2. k \in 2 .. m + 1
          BY <2>3, <2>5, <5>1
        <5>3. free[k - 1] = free[i - 1] /\ k - 1 \in DOMAIN free
          BY <2>5, <4>1, <5>2
        <5>4. k - 1 = i - 1
          BY <3>1, <4>1, <5>3
        <5> QED
          BY <3>3, <5>2, <5>4
      <4> QED
        BY <1>11, <1>12, <3>1, <4>1, <4>2
    <3> QED
      BY <2>3, <2>5, <3>2, <3>3
  <2> QED
    BY <2>1, <2>6 DEF SlotsInv
<1>14. LayoutInv(u)
  <2>1. \A g \in Handles(u) : PieceOf(u, g) = PieceOf(s, g)
    BY <1>12 DEF PieceOf
  <2>2. \A a : Within(u, a) <=> Within(s, a)
    BY <1>9 DEF Within
  <2>3. \A a, b : Apart(a, b) => Apart(b, a)
    BY DEF Apart
  <2>4. PICK holes : holes = s.holes
    OBVIOUS
  <2>5. PICK m \in Nat : m = Len(holes) /\ holes \in Seq(Holes) /\ DOMAIN holes = 1 .. m
    BY <1>1, <2>4, FieldsOf
  <2>6. /\ DOMAIN u.holes = 1 .. m + 1 /\ u.holes[m + 1] = PieceOf(s, h)
        /\ \A i \in 1 .. m : u.holes[i] = holes[i]
    <3>1. PICK a : a = PieceOf(s, h)
      OBVIOUS
    <3>2. u.holes = Append(holes, a)
      BY <1>9, <2>4, <3>1 DEF PieceOf
    <3> QED
      BY <2>5, <3>1, <3>2
  <2>7. \A g \in Handles(s) : Within(s, PieceOf(s, g)) /\ \A f \in Handles(s) : f # g => Apart(PieceOf(s, f), PieceOf(s, g))
    BY <1>1 DEF LayoutInv
  <2>8. \A i \in 1 .. m : /\ Within(s, holes[i])
                          /\ \A g \in Handles(s) : Apart(holes[i], PieceOf(s, g))
                          /\ \A k \in 1 .. m : k # i => Apart(holes[i], holes[k])
    BY <1>1, <2>4, <2>5 DEF LayoutInv
  <2>9. \A g \in Handles(u) :
          /\ Within(u, PieceOf(u, g))
          /\ \A f \in Handles(u) : f # g => Apart(PieceOf(u, f), PieceOf(u, g))
    BY <1>12, <2>1, <2>2, <2>7
  <2>10. ASSUME NEW i \in DOMAIN u.holes
         PROVE  /\ Within(u, u.holes[i])
                /\ \A g \in Handles(u) : Apart(u.holes[i], PieceOf(u, g))
                /\ \A k \in DOMAIN u.holes : k # i => Apart(u.holes[i], u.holes[k])
    <3>1. CASE i = m + 1
      <4>1. \A k \in DOMAIN u.holes : k # i => k \in 1 .. m /\ u.holes[k] = holes[k]
        BY <2>6, <3>1
      <4> QED
        BY <1>8, <1>12, <2>1, <2>2, <2>3, <2>6, <2>7, <2>8, <3>1, <4>1
    <3>2. CASE i \in 1 .. m
      <4>1. u.holes[i] = holes[i]
        BY <2>6, <3>2
      <4>2. ASSUME NEW k \in DOMAIN u.holes, k # i PROVE Apart(u.holes[i], u.holes[k])
        <5>1. CASE k = m + 1
          BY <1>8, <2>6, <2>8, <3>2, <4>1, <5>1
        <5>2. CASE k \in 1 .. m
          BY <2>6, <2>8, <3>2, <4>1, <4>2, <5>2
        <5> QED
          BY <2>6, <5>1, <5>2
      <4> QED
        BY <1>12, <2>1, <2>2, <2>8, <3>2, <4>1, <4>2
    <3> QED
      BY <2>6, <3>1, <3>2
  <2>11. Len(u.data) <= MaxBytes
    BY <1>1, <1>9 DEF LayoutInv
  <2> QED
    BY <2>9, <2>10, <2>11 DEF LayoutInv
<1>15. SnapInv(u)
  BY <1>7, <1>9, <1>13, <1>14 DEF SnapInv
<1> QED
  BY <1>9, <1>10, <1>12, <1>15

(* What Set and Delete start with: the id has no handle any more.          *)
LEMMA WithoutIdKeeps ==
  ASSUME NEW s, SnapInv(s), NEW id \in HandleIds, NEW u, u = WithoutId(s, id)
  PROVE  /\ SnapInv(u) /\ u.array = s.array /\ u.data = s.data
         /\ Handles(u) = {g \in Handles(s) : g.id # id}
         /\ \A g \in Handles(u) : u.slots[g.slot] = s.slots[g.slot]
<1>1. s.entries \in Seq(HandleValues) /\ IndexFor(s.index, s.entries)
  BY FieldsOf DEF SnapInv
<1>2. PICK pos : pos = LookupId(s.index, id)
  OBVIOUS
<1>3. CASE pos = 0
  <2>1. u = s
    BY <1>2, <1>3 DEF WithoutId
  <2>2. \A g \in Handles(s) : g.id # id
    <3>1. PICK l, t : l = s.entries /\ t = s.index
      OBVIOUS
    <3>2. l \in Seq(HandleValues) /\ IndexFor(t, l) /\ LookupId(t, id) = 0
      BY <1>1, <1>2, <1>3, <3>1
    <3>3. \A g \in ToSet(l) : g.id # id
      BY <3>2, IndexFinds
    <3> QED
      BY <3>1, <3>3 DEF Handles
  <2> QED
    BY <2>1, <2>2
<1>4. CASE pos # 0
  <2>1. pos \in DOMAIN s.entries /\ s.entries[pos].id = id
    BY <1>1, <1>2, <1>4, IndexFinds
  <2>2. u = DeletePos(s, pos)
    BY <1>2, <1>4 DEF WithoutId
  <2>3. PICK h : h = s.entries[pos]
    OBVIOUS
  <2>4. /\ SnapInv(u) /\ u.array = s.array /\ u.data = s.data
        /\ Handles(u) = Handles(s) \ {h}
        /\ \A g \in Handles(u) : u.slots[g.slot] = s.slots[g.slot]
    BY <2>1, <2>2, <2>3, DeletePosKeeps
  <2>5. \A g \in Handles(s) : g.id = id <=> g = h
    <3>1. \A j \in DOMAIN s.entries : s.entries[j].id = id => j = pos
      BY <1>1, <2>1 DEF IndexFor
    <3> QED
      BY <2>1, <2>3, <3>1 DEF Handles, ToSet
  <2> QED
    BY <2>4, <2>5
<1> QED
  BY <1>3, <1>4

(* An entry for bytes that nothing else holds.                             *)
Unheld(s, a) ==
  /\ Within(s, a)
  /\ \A h \in Handles(s) : Apart(a, PieceOf(s, h))
  /\ \A i \in DOMAIN s.holes : Apart(a, s.holes[i])

LEMMA WithEntryKeeps ==
  ASSUME NEW s, SnapInv(s), NEW id \in HandleIds, NEW offset \in Nat, NEW length \in Nat,
         \A g \in Handles(s) : g.id # id, Unheld(s, Hole(offset, length)),
         NEW u, u = WithEntry(s, id, offset, length)
  PROVE  /\ SnapInv(u) /\ u.array = s.array /\ u.data = s.data
         /\ \E h : /\ Handles(u) = Handles(s) \union {h}
                   /\ h.id = id /\ h.length = length /\ u.slots[h.slot] = offset
         /\ \A g \in Handles(s) : u.slots[g.slot] = s.slots[g.slot]
<1>1. s \in Snapshots /\ IndexFor(s.index, s.entries) /\ SlotsInv(s) /\ LayoutInv(s)
  BY DEF SnapInv
<1>2. PICK old, free : old = s.slots /\ free = s.free
  OBVIOUS
<1>3. old \in Seq(Nat) /\ free \in Seq(Nat)
  BY <1>1, <1>2, FieldsOf
<1>4. PICK slot, sl, fr :
        /\ slot = IF free = <<>> THEN Len(old) + 1 ELSE Head(free)
        /\ sl = IF free = <<>> THEN Append(old, offset) ELSE [old EXCEPT ![slot] = offset]
        /\ fr = IF free = <<>> THEN free ELSE Tail(free)
  OBVIOUS
<1>5. \A i \in DOMAIN free : /\ free[i] \in DOMAIN old
                             /\ \A h \in Handles(s) : h.slot # free[i]
                             /\ \A k \in DOMAIN free : free[k] = free[i] => k = i
  BY <1>1, <1>2 DEF SlotsInv
<1>6. \A h \in Handles(s) : h.slot \in DOMAIN old /\ \A g \in Handles(s) : g.slot = h.slot => g = h
  BY <1>1, <1>2 DEF SlotsInv
<1>7. /\ slot \in Nat /\ sl \in Seq(Nat) /\ fr \in Seq(Nat)
      /\ slot \in DOMAIN sl /\ sl[slot] = offset
      /\ \A i \in DOMAIN old : i \in DOMAIN sl /\ (i # slot => sl[i] = old[i])
      /\ \A h \in Handles(s) : h.slot # slot
      /\ \A i \in DOMAIN fr : /\ fr[i] \in DOMAIN old /\ fr[i] # slot
                              /\ \A h \in Handles(s) : h.slot # fr[i]
                              /\ \A k \in DOMAIN fr : fr[k] = fr[i] => k = i
  <2>1. CASE free = <<>>
    <3>1. slot = Len(old) + 1 /\ sl = Append(old, offset) /\ fr = <<>>
      BY <1>4, <2>1
    <3>2. /\ sl \in Seq(Nat) /\ DOMAIN sl = 1 .. Len(old) + 1 /\ DOMAIN old = 1 .. Len(old)
          /\ Len(old) \in Nat /\ sl[Len(old) + 1] = offset
          /\ \A i \in 1 .. Len(old) : sl[i] = old[i]
      BY <1>3, <3>1
    <3>3. DOMAIN fr = {} /\ fr \in Seq(Nat)
      BY <3>1
    <3>4. slot \in DOMAIN sl /\ slot \in Nat /\ slot \notin DOMAIN old
      BY <3>1, <3>2
    <3>5. \A i \in DOMAIN old : i \in DOMAIN sl /\ sl[i] = old[i]
      BY <3>2
    <3>6. \A h \in Handles(s) : h.slot # slot
      BY <1>6, <3>4
    <3> QED
      BY <3>1, <3>2, <3>3, <3>4, <3>5, <3>6
  <2>2. CASE free # <<>>
    <3>1. PICK m \in Nat : m = Len(free) /\ m > 0 /\ DOMAIN free = 1 .. m
      BY <1>3, <2>2
    <3>2. slot = free[1] /\ fr = Tail(free) /\ sl = [old EXCEPT ![slot] = offset]
      BY <1>3, <1>4, <2>2
    <3>3. /\ fr \in Seq(Nat) /\ DOMAIN fr = 1 .. m - 1
          /\ \A i \in 1 .. m - 1 : fr[i] = free[i + 1] /\ i + 1 \in 1 .. m
      BY <1>3, <2>2, <3>1, <3>2
    <3>4. 1 \in DOMAIN free /\ slot \in DOMAIN old /\ slot \in Nat
      <4>1. 1 \in DOMAIN free
        BY <3>1
      <4>2. slot \in DOMAIN old
        BY <1>5, <3>2, <4>1
      <4> QED
        BY <1>3, <4>1, <4>2
    <3>5. /\ sl \in Seq(Nat) /\ DOMAIN sl = DOMAIN old /\ sl[slot] = offset
          /\ \A i \in DOMAIN old : i # slot => sl[i] = old[i]
      BY <1>3, <3>2, <3>4
    <3>6. \A h \in Handles(s) : h.slot # slot
      BY <1>5, <3>2, <3>4
    <3>7. ASSUME NEW i \in DOMAIN fr
          PROVE  /\ fr[i] \in DOMAIN old /\ fr[i] # slot
                 /\ \A h \in Handles(s) : h.slot # fr[i]
                 /\ \A k \in DOMAIN fr : fr[k] = fr[i] => k = i
      <4>1. i + 1 \in DOMAIN free /\ fr[i] = free[i + 1] /\ i + 1 # 1
        BY <3>1, <3>3
      <4>2. fr[i] \in DOMAIN old /\ fr[i] # slot /\ \A h \in Handles(s) : h.slot # fr[i]
        BY <1>5, <3>2, <3>4, <4>1
      <4>3. ASSUME NEW k \in DOMAIN fr, fr[k] = fr[i] PROVE k = i
        <5>1. k + 1 \in DOMAIN free /\ fr[k] = free[k + 1]
          BY <3>1, <3>3
        <5>2. k + 1 = i + 1
          BY <1>5, <4>1, <4>3, <5>1
        <5> QED
          BY <3>3, <5>2
      <4> QED
        BY <4>2, <4>3
    <3> QED
      BY <3>3, <3>4, <3>5, <3>6, <3>7
  <2> QED
    BY <2>1, <2>2
<1>8. PICK l, t, h : l = s.entries /\ t = s.index /\ h = HandleOf(slot, length, id)
  OBVIOUS
<1>9. h \in HandleValues /\ h.id = id /\ h.slot = slot /\ h.length = length
  BY <1>7, <1>8 DEF HandleOf, HandleValues
<1>10. l \in Seq(HandleValues) /\ IndexFor(t, l)
  BY <1>1, <1>8, FieldsOf
<1>11. PICK e, x : e = Append(l, h) /\ x = InsertOrUpdate(t, id, Len(l) + 1)
  OBVIOUS
<1>12. IndexFor(x, e) /\ e \in Seq(HandleValues) /\ ToSet(e) = ToSet(l) \union {h}
  <2>1. \A j \in DOMAIN l : l[j].id # h.id
    BY <1>8, <1>9 DEF Handles, ToSet
  <2>2. IndexFor(InsertOrUpdate(t, h.id, Len(l) + 1), Append(l, h))
    BY <1>9, <1>10, <2>1, IndexAppends
  <2>3. /\ e \in Seq(HandleValues) /\ Len(l) \in Nat /\ DOMAIN l = 1 .. Len(l)
        /\ DOMAIN e = 1 .. Len(l) + 1
        /\ e[Len(l) + 1] = h /\ \A j \in 1 .. Len(l) : e[j] = l[j]
    BY <1>9, <1>10, <1>11
  <2>4. ASSUME NEW z PROVE z \in ToSet(e) <=> z \in ToSet(l) \union {h}
    BY <2>3 DEF ToSet
  <2> QED
    BY <1>9, <1>11, <2>2, <2>3, <2>4
<1>13. u = [s EXCEPT !.slots = sl, !.free = fr, !.entries = e, !.index = x]
  BY <1>2, <1>4, <1>8, <1>11 DEF WithEntry
<1>14. /\ u \in Snapshots /\ u.array = s.array /\ u.data = s.data /\ u.entries = e
       /\ u.index = x /\ u.slots = sl /\ u.free = fr /\ u.holes = s.holes
  <2>1. x \in Seq(Cells)
    BY <1>12 DEF IndexFor, GoodTable
  <2>2. u \in Snapshots
    BY <1>1, <1>7, <1>12, <1>13, <2>1 DEF Snapshots
  <2>3. /\ u.array = s.array /\ u.data = s.data /\ u.entries = e
        /\ u.index = x /\ u.slots = sl /\ u.free = fr /\ u.holes = s.holes
    BY <1>1, <1>13 DEF Snapshots
  <2> QED
    BY <2>2, <2>3
<1>15. Handles(u) = Handles(s) \union {h}
  BY <1>8, <1>12, <1>14 DEF Handles
<1>16. \A g \in Handles(s) : u.slots[g.slot] = s.slots[g.slot]
  BY <1>2, <1>6, <1>7, <1>14
<1>17. SlotsInv(u)
  <2>1. \A g \in Handles(u) : /\ g.slot \in DOMAIN u.slots
                              /\ \A f \in Handles(u) : f.slot = g.slot => f = g
    BY <1>6, <1>7, <1>9, <1>14, <1>15
  <2>2. \A i \in DOMAIN u.free : /\ u.free[i] \in DOMAIN u.slots
                                 /\ \A g \in Handles(u) : g.slot # u.free[i]
                                 /\ \A k \in DOMAIN u.free : u.free[k] = u.free[i] => k = i
    BY <1>7, <1>9, <1>14, <1>15
  <2> QED
    BY <2>1, <2>2 DEF SlotsInv
<1>18. LayoutInv(u)
  <2>1. \A g \in Handles(s) : PieceOf(u, g) = PieceOf(s, g)
    BY <1>16 DEF PieceOf
  <2>2. PieceOf(u, h) = Hole(offset, length)
    BY <1>7, <1>9, <1>14 DEF PieceOf
  <2>3. \A a : Within(u, a) <=> Within(s, a)
    BY <1>14 DEF Within
  <2>4. \A a, b : Apart(a, b) => Apart(b, a)
    BY DEF Apart
  <2>5. PICK a : a = Hole(offset, length)
    OBVIOUS
  <2>6. /\ Within(s, a) /\ \A g \in Handles(s) : Apart(a, PieceOf(s, g))
        /\ \A i \in DOMAIN s.holes : Apart(a, s.holes[i])
    BY <2>5 DEF Unheld
  <2>7. \A g \in Handles(s) : Within(s, PieceOf(s, g)) /\ \A f \in Handles(s) : f # g => Apart(PieceOf(s, f), PieceOf(s, g))
    BY <1>1 DEF LayoutInv
  <2>8. \A i \in DOMAIN s.holes : /\ Within(s, s.holes[i])
                                  /\ \A g \in Handles(s) : Apart(s.holes[i], PieceOf(s, g))
                                  /\ \A k \in DOMAIN s.holes : k # i => Apart(s.holes[i], s.holes[k])
    BY <1>1 DEF LayoutInv
  <2>9. \A g \in Handles(u) :
          /\ Within(u, PieceOf(u, g))
          /\ \A f \in Handles(u) : f # g => Apart(PieceOf(u, f), PieceOf(u, g))
    BY <1>15, <2>1, <2>2, <2>3, <2>4, <2>5, <2>6, <2>7
  <2>10. \A i \in DOMAIN u.holes :
           /\ Within(u, u.holes[i])
           /\ \A g \in Handles(u) : Apart(u.holes[i], PieceOf(u, g))
           /\ \A k \in DOMAIN u.holes : k # i => Apart(u.holes[i], u.holes[k])
    BY <1>14, <1>15, <2>1, <2>2, <2>3, <2>4, <2>5, <2>6, <2>8
  <2>11. Len(u.data) <= MaxBytes
    BY <1>1, <1>14 DEF LayoutInv
  <2> QED
    BY <2>9, <2>10, <2>11 DEF LayoutInv
<1>19. SnapInv(u)
  BY <1>12, <1>14, <1>17, <1>18 DEF SnapInv
<1>20. h.id = id /\ h.length = length /\ u.slots[h.slot] = offset
  BY <1>7, <1>9, <1>14
<1> QED
  BY <1>14, <1>15, <1>16, <1>19, <1>20

----------------------------------------------------------------------------
(* Bytes.                                                                  *)

LEMMA ValueIs ==
  ASSUME NEW v \in ByteValues
  PROVE  v \in Seq(Bytes) /\ Len(v) \in Nat /\ DOMAIN v = 1 .. Len(v)
<1>1. v \in Seq(Range(v))
  BY ValuesAssumption
<1>2. \A j \in DOMAIN v : v[j] \in Bytes
  BY DEF Bytes, Range
<1>3. Len(v) \in Nat /\ DOMAIN v = 1 .. Len(v)
  BY <1>1
<1>4. v \in [1 .. Len(v) -> Bytes]
  BY <1>1, <1>2, <1>3
<1> QED
  BY <1>3, <1>4, SeqDef

LEMMA BytesAtIs ==
  ASSUME NEW d \in Seq(Bytes), NEW o \in Nat, NEW l \in Nat, o + l <= Len(d)
  PROVE  /\ BytesAt(d, o, l) \in Seq(Bytes) /\ Len(BytesAt(d, o, l)) = l
         /\ DOMAIN BytesAt(d, o, l) = 1 .. l
         /\ \A k \in 1 .. l : BytesAt(d, o, l)[k] = d[o + k]
<1>1. BytesAt(d, o, l) = SubSeq(d, o + 1, o + l)
  BY DEF BytesAt
<1>2. Len(SubSeq(d, o + 1, o + l)) = l
  OBVIOUS
<1>3. SubSeq(d, o + 1, o + l) \in Seq(Bytes)
  OBVIOUS
<1>4. \A k \in 1 .. l : SubSeq(d, o + 1, o + l)[k] = d[o + k]
  OBVIOUS
<1> QED
  BY <1>1, <1>2, <1>3, <1>4

Agree(d, e, o, l) ==
  /\ d \in Seq(Bytes) /\ e \in Seq(Bytes) /\ o \in Nat /\ l \in Nat
  /\ o + l <= Len(d) /\ o + l <= Len(e)
  /\ \A k \in 1 .. l : d[o + k] = e[o + k]

LEMMA BytesEqual ==
  ASSUME NEW d, NEW e, NEW o, NEW l, Agree(d, e, o, l)
  PROVE  BytesAt(d, o, l) = BytesAt(e, o, l)
<1>1. PICK a, b : a = BytesAt(d, o, l) /\ b = BytesAt(e, o, l)
  OBVIOUS
<1>2. /\ a \in Seq(Bytes) /\ Len(a) = l /\ b \in Seq(Bytes) /\ Len(b) = l
      /\ \A k \in 1 .. l : a[k] = d[o + k] /\ b[k] = e[o + k]
  BY <1>1, BytesAtIs DEF Agree
<1>3. \A k \in 1 .. Len(a) : a[k] = b[k]
  BY <1>2 DEF Agree
<1>4. a = b
  BY <1>2, <1>3, SeqEqual
<1> QED
  BY <1>1, <1>4

LEMMA BytesAre ==
  ASSUME NEW d \in Seq(Bytes), NEW o \in Nat, NEW w \in Seq(Bytes), o + Len(w) <= Len(d),
         \A k \in 1 .. Len(w) : d[o + k] = w[k]
  PROVE  BytesAt(d, o, Len(w)) = w
<1>1. PICK a : a = BytesAt(d, o, Len(w))
  OBVIOUS
<1>2. Len(w) \in Nat
  OBVIOUS
<1>3. a \in Seq(Bytes) /\ Len(a) = Len(w) /\ \A k \in 1 .. Len(w) : a[k] = d[o + k]
  BY <1>1, <1>2, BytesAtIs
<1>4. \A k \in 1 .. Len(a) : a[k] = w[k]
  BY <1>3
<1>5. a = w
  BY <1>3, <1>4, SeqEqual
<1> QED
  BY <1>1, <1>5

LEMMA JoinedIs ==
  ASSUME NEW d \in Seq(Bytes), NEW w \in Seq(Bytes), NEW e, e = d \o w,
         NEW m, m = Len(d), NEW n, n = Len(w)
  PROVE  /\ e \in Seq(Bytes) /\ Len(e) = m + n
         /\ \A j \in 1 .. m : e[j] = d[j]
         /\ \A j \in 1 .. n : e[m + j] = w[j]
<1>1. m \in Nat /\ n \in Nat
  OBVIOUS
<1>2. e \in Seq(Bytes) /\ Len(e) = m + n
  OBVIOUS
<1>3. \A j \in 1 .. m + n : e[j] = IF j <= m THEN d[j] ELSE w[j - m]
  OBVIOUS
<1>4. ASSUME NEW j \in 1 .. m PROVE e[j] = d[j]
  BY <1>1, <1>3
<1>5. ASSUME NEW j \in 1 .. n PROVE e[m + j] = w[j]
  <2>1. m + j \in 1 .. m + n /\ ~(m + j <= m) /\ (m + j) - m = j
    BY <1>1
  <2> QED
    BY <1>3, <2>1
<1> QED
  BY <1>2, <1>4, <1>5

LEMMA OverwrittenIs ==
  ASSUME NEW d \in Seq(Bytes), NEW o \in Int, NEW w \in Seq(Bytes)
  PROVE  /\ Overwritten(d, o, w) \in Seq(Bytes) /\ Len(Overwritten(d, o, w)) = Len(d)
         /\ \A j \in 1 .. Len(d) :
              Overwritten(d, o, w)[j] = IF j - o \in 1 .. Len(w) THEN w[j - o] ELSE d[j]
         /\ Len(d) <= o => Overwritten(d, o, w) = d
<1>1. DOMAIN d = 1 .. Len(d) /\ DOMAIN w = 1 .. Len(w) /\ Len(d) \in Nat /\ Len(w) \in Nat
  OBVIOUS
<1>2. PICK a : a = Overwritten(d, o, w)
  OBVIOUS
<1>3. a = [j \in 1 .. Len(d) |-> IF j - o \in 1 .. Len(w) THEN w[j - o] ELSE d[j]]
  BY <1>1, <1>2 DEF Overwritten
<1>4. \A j \in 1 .. Len(d) : a[j] = IF j - o \in 1 .. Len(w) THEN w[j - o] ELSE d[j]
  BY <1>3
<1>5. \A j \in 1 .. Len(d) : a[j] \in Bytes
  BY <1>1, <1>4
<1>6. a \in [1 .. Len(d) -> Bytes]
  BY <1>3, <1>5
<1>7. a \in Seq(Bytes) /\ Len(a) = Len(d)
  BY <1>1, <1>6, SeqDef, LenProperties
<1>8. ASSUME Len(d) <= o PROVE a = d
  <2>1. \A j \in 1 .. Len(d) : a[j] = d[j]
    BY <1>1, <1>4, <1>8
  <2> QED
    BY <1>7, <2>1
<1> QED
  BY <1>2, <1>4, <1>7, <1>8

(* The hole that is taken has room, and what is left of it stays apart.    *)
LEMMA FirstFitIs ==
  ASSUME NEW s \in Snapshots, NEW length, FirstFit(s, length) # 0
  PROVE  FirstFit(s, length) \in DOMAIN s.holes /\ s.holes[FirstFit(s, length)].length >= length
<1> DEFINE I == {i \in 1 .. Len(s.holes) : s.holes[i].length >= length}
<1>1. FirstFit(s, length) = IF I # {} THEN Min(I) ELSE 0
  BY DEF FirstFit, SelectInSeq
<1>2. DOMAIN s.holes = 1 .. Len(s.holes) /\ Len(s.holes) \in Nat
  BY FieldsOf
<1>3. I \subseteq Nat
  BY <1>2
<1>4. I # {} => Min(I) \in I
  <2> HIDE DEF I
  <2> QED
    BY <1>3, MinIs
<1> QED
  BY <1>1, <1>2, <1>4

LEMMA HoleTaken ==
  ASSUME NEW s, SnapInv(s), NEW i \in DOMAIN s.holes, NEW used \in Nat,
         used <= s.holes[i].length, NEW hs, hs = WithoutHole(s, i, used),
         NEW a, a = Hole(s.holes[i].offset, used)
  PROVE  /\ hs \in Seq(Holes)
         /\ Within(s, a) /\ \A h \in Handles(s) : Apart(a, PieceOf(s, h))
         /\ \A k \in DOMAIN hs : /\ Within(s, hs[k]) /\ Apart(a, hs[k])
                                 /\ \A h \in Handles(s) : Apart(hs[k], PieceOf(s, h))
                                 /\ \A m \in DOMAIN hs : m # k => Apart(hs[k], hs[m])
<1>1. s \in Snapshots /\ LayoutInv(s)
  BY DEF SnapInv
<1>2. PICK l, S : l = s.holes /\ S = Holes
  OBVIOUS
<1>3. l \in Seq(S) /\ i \in DOMAIN l
  BY <1>1, <1>2, FieldsOf
<1>4. PICK n \in Nat : n = Len(l) /\ DOMAIN l = 1 .. n
  BY <1>3
<1>5. PICK rest, c : rest = Front([l EXCEPT ![i] = Last(l)]) /\ c = l[i]
  OBVIOUS
<1>6. rest \in Seq(S) /\ Moved(l, i, rest)
  BY <1>3, <1>5, ListDeletes
<1>7. /\ DOMAIN rest = 1 .. n - 1 /\ Len(rest) = n - 1
      /\ \A k \in 1 .. n - 1 : rest[k] = l[IF k = i THEN n ELSE k]
  BY <1>3, <1>4, <1>6 DEF Moved
<1>8. PICK d : d = Hole(c.offset + used, c.length - used)
  OBVIOUS
<1>9. hs = IF c.length > used THEN Append(rest, d) ELSE rest
  BY <1>2, <1>5, <1>8 DEF WithoutHole
<1>10. c.offset \in Nat /\ c.length \in Nat
  BY <1>1, <1>2, <1>3, <1>5, FieldsOf
<1>11. /\ a.offset = c.offset /\ a.length = used
       /\ d.offset = c.offset + used /\ d.length = c.length - used /\ d \in Holes
  BY <1>2, <1>5, <1>8, <1>10 DEF Hole, Holes
<1>12. /\ \A k \in DOMAIN l : /\ Within(s, l[k])
                              /\ \A h \in Handles(s) : Apart(l[k], PieceOf(s, h))
                              /\ \A m \in DOMAIN l : m # k => Apart(l[k], l[m])
  BY <1>1, <1>2 DEF LayoutInv
<1>13. /\ \A k \in DOMAIN l : l[k].offset \in Nat /\ l[k].length \in Nat
       /\ \A h \in Handles(s) : PieceOf(s, h).offset \in Nat /\ PieceOf(s, h).length \in Nat
  <2>1. \A k \in DOMAIN l : l[k].offset \in Nat /\ l[k].length \in Nat
    BY <1>1, <1>2, FieldsOf
  <2>2. \A h \in Handles(s) : h.slot \in DOMAIN s.slots /\ h.length \in Nat /\ s.slots[h.slot] \in Nat
    BY <1>1, FieldsOf DEF SnapInv, SlotsInv
  <2> QED
    BY <2>1, <2>2, PieceIs
(* A part of c is apart from what c is apart from.                         *)
<1>14. ASSUME NEW b, b.offset \in Nat, b.length \in Nat, Apart(c, b)
       PROVE  Apart(a, b) /\ Apart(d, b) /\ Apart(b, d)
  BY <1>2, <1>5, <1>10, <1>11, <1>14 DEF Apart
<1>15. Within(s, a) /\ Within(s, d) /\ Apart(a, d)
  <2>1. Within(s, c) /\ Len(s.data) \in Nat /\ used <= c.length
    <3>1. s.data \in Seq(Bytes)
      BY <1>1, FieldsOf
    <3> QED
      BY <1>2, <1>3, <1>5, <1>12, <3>1
  <2> QED
    BY <1>10, <1>11, <2>1 DEF Within, Apart
<1>16. \A h \in Handles(s) : Apart(a, PieceOf(s, h)) /\ Apart(d, PieceOf(s, h))
  BY <1>3, <1>5, <1>12, <1>13, <1>14
<1>17. \A k \in 1 .. n - 1 :
         \E m \in DOMAIN l : m = (IF k = i THEN n ELSE k) /\ m # i /\ rest[k] = l[m]
  BY <1>4, <1>7
<1>18. ASSUME NEW k \in 1 .. n - 1
       PROVE  /\ Within(s, rest[k]) /\ Apart(a, rest[k]) /\ Apart(d, rest[k]) /\ Apart(rest[k], d)
              /\ \A h \in Handles(s) : Apart(rest[k], PieceOf(s, h))
              /\ \A m \in 1 .. n - 1 : m # k => Apart(rest[k], rest[m])
  <2>1. PICK j \in DOMAIN l : j = (IF k = i THEN n ELSE k) /\ j # i /\ rest[k] = l[j]
    BY <1>17
  <2>2. Apart(c, l[j])
    BY <1>3, <1>5, <1>12, <2>1
  <2>3. Apart(a, rest[k]) /\ Apart(d, rest[k]) /\ Apart(rest[k], d)
    BY <1>13, <1>14, <2>1, <2>2
  <2>4. ASSUME NEW m \in 1 .. n - 1, m # k PROVE Apart(rest[k], rest[m])
    <3>1. PICK o \in DOMAIN l : o = (IF m = i THEN n ELSE m) /\ rest[m] = l[o]
      BY <1>17
    <3>2. o # j
      BY <2>1, <2>4, <3>1
    <3> QED
      BY <1>12, <2>1, <3>1, <3>2
  <2> QED
    BY <1>12, <2>1, <2>3, <2>4
<1>19. CASE c.length <= used
  <2>1. hs = rest
    BY <1>9, <1>10, <1>19
  <2> QED
    BY <1>2, <1>6, <1>7, <1>15, <1>16, <1>18, <2>1
<1>20. CASE c.length > used
  <2>1. hs = Append(rest, d)
    BY <1>9, <1>20
  <2>2. hs \in Seq(Holes)
    BY <1>2, <1>6, <1>11, <2>1
  <2>3. n > 0
    BY <1>3, <1>4
  <2>4. DOMAIN hs = 1 .. n /\ hs[n] = d /\ \A k \in 1 .. n - 1 : hs[k] = rest[k]
    BY <1>6, <1>7, <2>1, <2>3
  <2>5. ASSUME NEW k \in DOMAIN hs
        PROVE  /\ Within(s, hs[k]) /\ Apart(a, hs[k])
               /\ \A h \in Handles(s) : Apart(hs[k], PieceOf(s, h))
               /\ \A m \in DOMAIN hs : m # k => Apart(hs[k], hs[m])
    <3>1. CASE k = n
      <4>1. \A m \in DOMAIN hs : m # n => m \in 1 .. n - 1
        BY <2>4
      <4> QED
        BY <1>15, <1>16, <1>18, <2>4, <3>1, <4>1
    <3>2. CASE k \in 1 .. n - 1
      <4>1. ASSUME NEW m \in DOMAIN hs, m # k PROVE Apart(hs[k], hs[m])
        <5>1. CASE m = n
          BY <1>18, <2>4, <3>2, <5>1
        <5>2. CASE m \in 1 .. n - 1
          BY <1>18, <2>4, <3>2, <4>1, <5>2
        <5> QED
          BY <2>4, <5>1, <5>2
      <4> QED
        BY <1>18, <2>4, <3>2, <4>1
    <3> QED
      BY <2>4, <3>1, <3>2
  <2> QED
    BY <1>15, <1>16, <2>2, <2>5
<1> QED
  BY <1>10, <1>19, <1>20

LEMMA EntryIs ==
  ASSUME NEW s, SnapInv(s), NEW h \in Handles(s)
  PROVE  /\ h.slot \in DOMAIN s.slots /\ h.length \in Nat /\ s.slots[h.slot] \in Nat
         /\ s.data \in Seq(Bytes) /\ Len(s.data) \in Nat
         /\ s.slots[h.slot] + h.length <= Len(s.data)
<1>1. s \in Snapshots /\ SlotsInv(s) /\ LayoutInv(s)
  BY DEF SnapInv
<1>2. h.slot \in DOMAIN s.slots /\ h.length \in Nat
  BY <1>1, FieldsOf DEF SlotsInv
<1>3. s.slots[h.slot] \in Nat /\ s.data \in Seq(Bytes)
  BY <1>1, <1>2, FieldsOf, SMTT(30)
<1>4. Within(s, PieceOf(s, h))
  BY <1>1 DEF LayoutInv
<1>5. Len(s.data) \in Nat
  BY <1>3
<1> QED
  BY <1>2, <1>3, <1>4, <1>5, PieceIs DEF Within

(* Into a hole: the other values keep their bytes.                         *)
Fills(s, v, i, array, offset, u) ==
  /\ SnapInv(s) /\ i = FirstFit(s, Len(v)) /\ i # 0 /\ array \in Nat
  /\ offset = s.holes[i].offset
  /\ u = [s EXCEPT !.array = array, !.data = Overwritten(@, offset, v),
                   !.holes = WithoutHole(s, i, Len(v))]

LEMMA HoleFilled ==
  ASSUME NEW s, NEW v \in ByteValues, NEW i, NEW array, NEW offset, NEW u,
         Fills(s, v, i, array, offset, u)
  PROVE  /\ SnapInv(u) /\ u.array = array /\ offset \in Nat /\ Handles(u) = Handles(s)
         /\ Len(u.data) = Len(s.data)
         /\ Unheld(u, Hole(offset, Len(v))) /\ BytesAt(u.data, offset, Len(v)) = v
         /\ \A h \in Handles(s) : ValueIn(u, h) = ValueIn(s, h)
<1> SnapInv(s) /\ i = FirstFit(s, Len(v)) /\ i # 0 /\ offset = s.holes[i].offset
  BY DEF Fills
<1> array \in Nat /\ u = [s EXCEPT !.array = array, !.data = Overwritten(@, offset, v),
                                   !.holes = WithoutHole(s, i, Len(v))]
  BY DEF Fills
<1>1. s \in Snapshots /\ IndexFor(s.index, s.entries) /\ SlotsInv(s) /\ LayoutInv(s)
  BY DEF SnapInv
<1>2. PICK d, hs, a : /\ d = Overwritten(s.data, offset, v) /\ hs = WithoutHole(s, i, Len(v))
                      /\ a = Hole(offset, Len(v))
  OBVIOUS
<1>3. v \in Seq(Bytes) /\ Len(v) \in Nat /\ DOMAIN v = 1 .. Len(v)
  BY ValueIs
<1>4. i \in DOMAIN s.holes /\ s.holes[i].length >= Len(v)
  BY <1>1, FirstFitIs
<1>5. offset \in Nat /\ s.holes[i].length \in Nat /\ s.data \in Seq(Bytes) /\ Len(s.data) \in Nat
  <2>1. offset \in Nat /\ s.holes[i].length \in Nat /\ s.data \in Seq(Bytes)
    BY <1>1, <1>4, FieldsOf
  <2> QED
    BY <2>1
<1>6. /\ hs \in Seq(Holes)
      /\ Within(s, a) /\ \A h \in Handles(s) : Apart(a, PieceOf(s, h))
      /\ \A k \in DOMAIN hs : /\ Within(s, hs[k]) /\ Apart(a, hs[k])
                              /\ \A h \in Handles(s) : Apart(hs[k], PieceOf(s, h))
                              /\ \A m \in DOMAIN hs : m # k => Apart(hs[k], hs[m])
  <2>1. Len(v) <= s.holes[i].length
    BY <1>3, <1>4, <1>5
  <2>2. PICK used \in Nat : used = Len(v)
    BY <1>3
  <2>3. hs = WithoutHole(s, i, used) /\ a = Hole(s.holes[i].offset, used) /\ used <= s.holes[i].length
    BY <1>2, <2>1, <2>2
  <2> QED
    BY <1>4, <2>3, HoleTaken
<1>7. /\ d \in Seq(Bytes) /\ Len(d) = Len(s.data)
      /\ \A j \in 1 .. Len(s.data) :
           d[j] = IF j - offset \in 1 .. Len(v) THEN v[j - offset] ELSE s.data[j]
  <2>1. PICK e : e = s.data
    OBVIOUS
  <2>2. offset \in Int /\ e \in Seq(Bytes) /\ v \in Seq(Bytes) /\ d = Overwritten(e, offset, v)
    BY <1>2, <1>3, <1>5, <2>1
  <2>3. /\ d \in Seq(Bytes) /\ Len(d) = Len(e)
        /\ \A j \in 1 .. Len(e) :
             d[j] = IF j - offset \in 1 .. Len(v) THEN v[j - offset] ELSE e[j]
    BY <2>2, OverwrittenIs, SMTT(30)
  <2> QED
    BY <2>1, <2>3
<1>8. u = [s EXCEPT !.array = array, !.data = d, !.holes = hs]
  BY <1>2
<1>9. /\ u \in Snapshots /\ u.array = array /\ u.data = d /\ u.slots = s.slots /\ u.free = s.free
      /\ u.entries = s.entries /\ u.holes = hs /\ u.index = s.index
  <2>1. u \in Snapshots
    BY <1>1, <1>6, <1>7, <1>8 DEF Snapshots
  <2>2. /\ u.array = array /\ u.data = d /\ u.slots = s.slots /\ u.free = s.free
        /\ u.entries = s.entries /\ u.holes = hs /\ u.index = s.index
    BY <1>1, <1>8 DEF Snapshots
  <2> QED
    BY <2>1, <2>2
<1>10. Handles(u) = Handles(s)
  BY <1>9 DEF Handles
<1>11. IndexFor(u.index, u.entries)
  BY <1>1, <1>9
<1>12. SlotsInv(u)
  BY <1>1, <1>9, <1>10 DEF SlotsInv
<1>13. (\A b : Within(u, b) <=> Within(s, b)) /\ (\A h : PieceOf(u, h) = PieceOf(s, h))
  BY <1>7, <1>9 DEF Within, PieceOf
<1>14. LayoutInv(u)
  BY <1>1, <1>6, <1>7, <1>9, <1>10, <1>13 DEF LayoutInv
<1>15. Unheld(u, a)
  BY <1>6, <1>9, <1>10, <1>13 DEF Unheld
<1>16. a.offset = offset /\ a.length = Len(v) /\ offset + Len(v) <= Len(s.data)
  BY <1>2, <1>6 DEF Hole, Within
<1>17. BytesAt(u.data, offset, Len(v)) = v
  <2>1. \A k \in 1 .. Len(v) : d[offset + k] = v[k]
    <3> SUFFICES ASSUME NEW k \in 1 .. Len(v) PROVE d[offset + k] = v[k]
      OBVIOUS
    <3>1. PICK m \in Nat, p \in Nat : m = Len(v) /\ p = Len(s.data)
      BY <1>3, <1>5
    <3>2. offset \in Nat /\ offset + m <= p /\ k \in 1 .. m
      BY <1>5, <1>16, <3>1
    <3>3. offset + k \in 1 .. p /\ (offset + k) - offset = k
      BY <3>2, SMTT(30)
    <3>4. d[offset + k] = IF k \in 1 .. m THEN v[k] ELSE s.data[offset + k]
      BY <1>7, <3>1, <3>3
    <3> QED
      BY <3>2, <3>4
  <2>2. BytesAt(d, offset, Len(v)) = v
    BY <1>3, <1>5, <1>7, <1>16, <2>1, BytesAre
  <2> QED
    BY <1>9, <2>2
<1>18. ASSUME NEW h \in Handles(s) PROVE ValueIn(u, h) = ValueIn(s, h)
  <2>1. PICK o, l : o = s.slots[h.slot] /\ l = h.length
    OBVIOUS
  <2>2. o \in Nat /\ l \in Nat /\ o + l <= Len(s.data)
    BY <2>1, EntryIs
  <2>3. Apart(a, PieceOf(s, h))
    BY <1>6
  <2>4. offset + Len(v) <= o \/ o + l <= offset
    BY <1>16, <2>1, <2>3, PieceIs DEF Apart
  <2>5. ASSUME NEW k \in 1 .. l
        PROVE  o + k \in 1 .. Len(s.data) /\ (o + k) - offset \notin 1 .. Len(v)
    <3>1. PICK m \in Nat, p \in Nat : m = Len(v) /\ p = Len(s.data)
      BY <1>3, <1>5
    <3>2. o + k \in 1 .. p
      BY <2>2, <3>1
    <3>3. (o + k) - offset \notin 1 .. m
      <4>1. o \in Nat /\ l \in Nat /\ offset \in Nat /\ (offset + m <= o \/ o + l <= offset)
        BY <1>5, <2>2, <2>4, <3>1
      <4> QED
        BY <4>1, SMTT(30)
    <3> QED
      BY <3>1, <3>2, <3>3
  <2>6. PICK e : e = s.data
    OBVIOUS
  <2>7. ASSUME NEW k \in 1 .. l PROVE d[o + k] = e[o + k]
    <3>1. o + k \in 1 .. Len(s.data) /\ (o + k) - offset \notin 1 .. Len(v)
      BY <2>5
    <3> QED
      BY <1>7, <2>6, <3>1
  <2>8. d \in Seq(Bytes) /\ e \in Seq(Bytes) /\ o + l <= Len(d) /\ o + l <= Len(e)
    BY <1>5, <1>7, <2>2, <2>6
  <2>9. BytesAt(d, o, l) = BytesAt(e, o, l)
    BY <2>2, <2>7, <2>8, BytesEqual DEF Agree
  <2> QED
    BY <1>9, <2>1, <2>6, <2>9 DEF ValueIn
<1>19. SnapInv(u)
  BY <1>9, <1>11, <1>12, <1>14 DEF SnapInv
<1> QED
  BY <1>2, <1>5, <1>7, <1>9, <1>10, <1>15, <1>17, <1>18, <1>19

(* At the end: the bytes that are there stay.                              *)
Lengthens(s, v, array, offset, u) ==
  /\ SnapInv(s) /\ Len(s.data) + Len(v) <= MaxBytes /\ array \in Nat
  /\ offset = Len(s.data)
  /\ u = [s EXCEPT !.data = @ \o v, !.array = array]

LEMMA EndFilled ==
  ASSUME NEW s, NEW v \in ByteValues, NEW array, NEW offset, NEW u,
         Lengthens(s, v, array, offset, u)
  PROVE  /\ SnapInv(u) /\ u.array = array /\ offset \in Nat /\ Handles(u) = Handles(s)
         /\ Len(u.data) = Len(s.data) + Len(v)
         /\ Unheld(u, Hole(offset, Len(v))) /\ BytesAt(u.data, offset, Len(v)) = v
         /\ \A h \in Handles(s) : ValueIn(u, h) = ValueIn(s, h)
<1> SnapInv(s) /\ Len(s.data) + Len(v) <= MaxBytes /\ offset = Len(s.data)
  BY DEF Lengthens
<1> array \in Nat /\ u = [s EXCEPT !.data = @ \o v, !.array = array]
  BY DEF Lengthens
<1>1. s \in Snapshots /\ IndexFor(s.index, s.entries) /\ SlotsInv(s) /\ LayoutInv(s)
  BY DEF SnapInv
<1>2. PICK e, d, a : e = s.data /\ d = e \o v /\ a = Hole(offset, Len(v))
  OBVIOUS
<1>3. v \in Seq(Bytes) /\ Len(v) \in Nat /\ e \in Seq(Bytes)
  BY <1>1, <1>2, ValueIs, FieldsOf
<1>4. PICK m \in Nat, n \in Nat : m = Len(e) /\ n = Len(v) /\ m = offset
  BY <1>2, <1>3
<1>5. /\ d \in Seq(Bytes) /\ Len(d) = m + n
      /\ \A j \in 1 .. m : d[j] = e[j]
      /\ \A j \in 1 .. n : d[m + j] = v[j]
  BY <1>2, <1>3, <1>4, JoinedIs, SMTT(30)
<1>6. u = [s EXCEPT !.array = array, !.data = d]
  <2>1. u = [s EXCEPT !.data = d, !.array = array]
    BY <1>2
  <2> QED
    BY <1>1, <2>1 DEF Snapshots
<1>7. /\ u \in Snapshots /\ u.array = array /\ u.data = d /\ u.slots = s.slots /\ u.free = s.free
      /\ u.entries = s.entries /\ u.holes = s.holes /\ u.index = s.index
  <2>1. u \in Snapshots
    BY <1>1, <1>5, <1>6 DEF Snapshots
  <2>2. /\ u.array = array /\ u.data = d /\ u.slots = s.slots /\ u.free = s.free
        /\ u.entries = s.entries /\ u.holes = s.holes /\ u.index = s.index
    BY <1>1, <1>6 DEF Snapshots
  <2> QED
    BY <2>1, <2>2
<1>8. Handles(u) = Handles(s)
  BY <1>7 DEF Handles
<1>9. IndexFor(u.index, u.entries)
  BY <1>1, <1>7
<1>10. SlotsInv(u)
  BY <1>1, <1>7, <1>8 DEF SlotsInv
<1>11. \A h : PieceOf(u, h) = PieceOf(s, h)
  BY <1>7 DEF PieceOf
<1>12. /\ \A h \in Handles(s) : PieceOf(s, h).offset \in Nat /\ PieceOf(s, h).length \in Nat
       /\ \A k \in DOMAIN s.holes : s.holes[k].offset \in Nat /\ s.holes[k].length \in Nat
  <2>1. \A h \in Handles(s) : s.slots[h.slot] \in Nat /\ h.length \in Nat
    BY EntryIs
  <2>2. \A h \in Handles(s) : PieceOf(s, h).offset \in Nat /\ PieceOf(s, h).length \in Nat
    BY <2>1, PieceIs
  <2>3. \A k \in DOMAIN s.holes : s.holes[k].offset \in Nat /\ s.holes[k].length \in Nat
    BY <1>1, FieldsOf
  <2> QED
    BY <2>2, <2>3
<1>13. \A b : b.offset \in Nat /\ b.length \in Nat /\ Within(s, b) => Within(u, b) /\ Apart(a, b)
  <2>1. a.offset = m
    BY <1>2, <1>4 DEF Hole
  <2> SUFFICES ASSUME NEW b, b.offset \in Nat, b.length \in Nat, Within(s, b)
               PROVE  Within(u, b) /\ Apart(a, b)
    OBVIOUS
  <2>2. b.offset + b.length <= m
    BY <1>2, <1>4 DEF Within
  <2>3. Len(u.data) = m + n
    BY <1>5, <1>7
  <2> QED
    BY <2>1, <2>2, <2>3 DEF Within, Apart
<1>14. LayoutInv(u)
  <2>1. Len(u.data) <= MaxBytes
    BY <1>2, <1>4, <1>5, <1>7
  <2>2. \A h \in Handles(u) :
          /\ Within(u, PieceOf(u, h))
          /\ \A g \in Handles(u) : g # h => Apart(PieceOf(u, g), PieceOf(u, h))
    BY <1>1, <1>8, <1>11, <1>12, <1>13 DEF LayoutInv
  <2>3. \A k \in DOMAIN u.holes :
          /\ Within(u, u.holes[k])
          /\ \A h \in Handles(u) : Apart(u.holes[k], PieceOf(u, h))
          /\ \A l \in DOMAIN u.holes : l # k => Apart(u.holes[k], u.holes[l])
    BY <1>1, <1>7, <1>8, <1>11, <1>12, <1>13 DEF LayoutInv
  <2> QED
    BY <2>1, <2>2, <2>3 DEF LayoutInv
<1>15. Unheld(u, a)
  <2>1. a.offset = m /\ a.length = n
    BY <1>2, <1>4 DEF Hole
  <2>2. Within(u, a)
    BY <1>5, <1>7, <2>1 DEF Within
  <2>3. \A h \in Handles(u) : Apart(a, PieceOf(u, h))
    BY <1>1, <1>8, <1>11, <1>12, <1>13 DEF LayoutInv
  <2>4. \A k \in DOMAIN u.holes : Apart(a, u.holes[k])
    BY <1>1, <1>7, <1>12, <1>13 DEF LayoutInv
  <2> QED
    BY <2>2, <2>3, <2>4 DEF Unheld
<1>16. BytesAt(u.data, offset, Len(v)) = v
  <2>1. m + Len(v) <= Len(d) /\ \A k \in 1 .. Len(v) : d[m + k] = v[k]
    BY <1>4, <1>5
  <2>2. BytesAt(d, m, Len(v)) = v
    BY <1>3, <1>5, <2>1, BytesAre
  <2> QED
    BY <1>4, <1>7, <2>2
<1>17. ASSUME NEW h \in Handles(s) PROVE ValueIn(u, h) = ValueIn(s, h)
  <2>1. PICK o, l : o = s.slots[h.slot] /\ l = h.length
    OBVIOUS
  <2>2. o \in Nat /\ l \in Nat /\ o + l <= m
    BY <1>2, <1>4, <2>1, EntryIs
  <2>3. ASSUME NEW k \in 1 .. l PROVE d[o + k] = e[o + k]
    <3>1. o + k \in 1 .. m
      BY <2>2
    <3> QED
      BY <1>5, <3>1
  <2>4. d \in Seq(Bytes) /\ e \in Seq(Bytes) /\ o + l <= Len(d) /\ o + l <= Len(e)
    BY <1>3, <1>4, <1>5, <2>2
  <2>5. BytesAt(d, o, l) = BytesAt(e, o, l)
    BY <2>2, <2>3, <2>4, BytesEqual DEF Agree
  <2> QED
    BY <1>2, <1>7, <2>1, <2>5 DEF ValueIn
<1>18. SnapInv(u)
  BY <1>7, <1>9, <1>10, <1>14 DEF SnapInv
<1> QED
  BY <1>2, <1>4, <1>5, <1>7, <1>8, <1>15, <1>16, <1>17, <1>18

(* What a write by a clone does to a snapshot of the same array.           *)
LEMMA OverwrittenKeeps ==
  ASSUME NEW s, SnapInv(s), NEW v \in ByteValues, NEW o \in Nat,
         NEW u, u = [s EXCEPT !.data = Overwritten(@, o, v)]
  PROVE  /\ SnapInv(u) /\ u.array = s.array /\ Len(u.data) = Len(s.data)
         /\ Len(s.data) <= o => u = s
<1>1. s \in Snapshots /\ IndexFor(s.index, s.entries) /\ SlotsInv(s) /\ LayoutInv(s)
  BY DEF SnapInv
<1>2. PICK d : d = Overwritten(s.data, o, v)
  OBVIOUS
<1>3. v \in Seq(Bytes) /\ s.data \in Seq(Bytes) /\ o \in Int
  BY <1>1, ValueIs, FieldsOf
<1>4. d \in Seq(Bytes) /\ Len(d) = Len(s.data) /\ (Len(s.data) <= o => d = s.data)
  BY <1>2, <1>3, OverwrittenIs
<1>5. u = [s EXCEPT !.data = d]
  BY <1>2
<1>6. u \in Snapshots
  BY <1>1, <1>4, <1>5 DEF Snapshots
<1>7. /\ u.array = s.array /\ u.data = d /\ u.slots = s.slots /\ u.free = s.free
      /\ u.entries = s.entries /\ u.holes = s.holes /\ u.index = s.index
  BY <1>1, <1>5 DEF Snapshots
<1>8. Handles(u) = Handles(s)
  BY <1>7 DEF Handles
<1>9. IndexFor(u.index, u.entries)
  BY <1>1, <1>7
<1>10. SlotsInv(u)
  BY <1>1, <1>7, <1>8 DEF SlotsInv
<1>11. (\A b : Within(u, b) <=> Within(s, b)) /\ (\A h : PieceOf(u, h) = PieceOf(s, h))
  BY <1>4, <1>7 DEF Within, PieceOf
<1>12. LayoutInv(u)
  BY <1>1, <1>4, <1>7, <1>8, <1>11 DEF LayoutInv
<1>13. d = s.data => u = s
  BY <1>1, <1>5 DEF Snapshots
<1>14. SnapInv(u)
  BY <1>6, <1>9, <1>10, <1>12 DEF SnapInv
<1> QED
  BY <1>4, <1>7, <1>13, <1>14

----------------------------------------------------------------------------
(* The operations as changes of the set of handles.                        *)

Removed(s, u, id) ==
  /\ SnapInv(u)
  /\ Handles(u) = {g \in Handles(s) : g.id # id}
  /\ \A g \in Handles(u) : ValueIn(u, g) = ValueIn(s, g)

Stored(s, u, id, v) ==
  /\ SnapInv(u)
  /\ \E h : Handles(u) = {g \in Handles(s) : g.id # id} \union {h} /\ h.id = id /\ ValueIn(u, h) = v
  /\ \A g \in Handles(s) : g.id # id => ValueIn(u, g) = ValueIn(s, g)

LEMMA RemovedHolds ==
  ASSUME NEW s, NEW u, NEW id \in HandleIds, Removed(s, u, id),
         NEW old, HoldsValues(s, old), NEW new, new[id] = NoBytes,
         \A x \in HandleIds : x # id => new[x] = old[x]
  PROVE  HoldsValues(u, new)
<1>1. \A g \in Handles(u) : g \in Handles(s) /\ g.id # id /\ ValueIn(u, g) = ValueIn(s, g)
  BY DEF Removed
<1>2. \A g \in Handles(u) : g.id \in HandleIds
  BY FieldsOf DEF Removed, SnapInv
<1>3. \A g \in Handles(u) : new[g.id] = ValueIn(u, g)
  BY <1>1, <1>2 DEF HoldsValues
<1>4. ASSUME NEW x \in HandleIds, \A h \in Handles(u) : h.id # x PROVE new[x] = NoBytes
  <2>1. CASE x # id
    <3>1. \A h \in Handles(s) : h.id # x
      BY <1>4, <2>1 DEF Removed
    <3> QED
      BY <2>1, <3>1 DEF HoldsValues
  <2> QED
    BY <2>1
<1> QED
  BY <1>3, <1>4 DEF HoldsValues

LEMMA StoredHolds ==
  ASSUME NEW s, NEW u, NEW id \in HandleIds, NEW v, Stored(s, u, id, v),
         NEW old, HoldsValues(s, old), NEW new, new[id] = v,
         \A x \in HandleIds : x # id => new[x] = old[x]
  PROVE  HoldsValues(u, new)
<1>1. PICK h : /\ Handles(u) = {g \in Handles(s) : g.id # id} \union {h}
               /\ h.id = id /\ ValueIn(u, h) = v
  BY DEF Stored
<1>2. \A g \in Handles(u) : g.id \in HandleIds
  BY FieldsOf DEF Stored, SnapInv
<1>3. ASSUME NEW g \in Handles(u) PROVE new[g.id] = ValueIn(u, g)
  <2>1. CASE g = h
    BY <1>1, <2>1
  <2>2. CASE g # h
    <3>1. g \in Handles(s) /\ g.id # id /\ g.id \in HandleIds
      BY <1>1, <1>2, <2>2
    <3>2. ValueIn(u, g) = ValueIn(s, g)
      BY <3>1 DEF Stored
    <3> QED
      BY <3>1, <3>2 DEF HoldsValues
  <2> QED
    BY <2>1, <2>2
<1>4. ASSUME NEW x \in HandleIds, \A g \in Handles(u) : g.id # x PROVE new[x] = NoBytes
  <2>1. x # id /\ \A g \in Handles(s) : g.id # x
    BY <1>1, <1>4
  <2> QED
    BY <2>1 DEF HoldsValues
<1> QED
  BY <1>3, <1>4 DEF HoldsValues

LEMMA WithoutIdRemoves ==
  ASSUME NEW s, SnapInv(s), NEW id \in HandleIds, NEW u, u = WithoutId(s, id)
  PROVE  Removed(s, u, id) /\ u.array = s.array /\ u.data = s.data
<1>1. /\ SnapInv(u) /\ u.array = s.array /\ u.data = s.data
      /\ Handles(u) = {g \in Handles(s) : g.id # id}
      /\ \A g \in Handles(u) : u.slots[g.slot] = s.slots[g.slot]
  BY WithoutIdKeeps
<1> QED
  BY <1>1 DEF Removed, ValueIn

(* The value lies in the bytes already; now it has an entry.               *)
LEMMA WithEntryStores ==
  ASSUME NEW s, NEW w, NEW id \in HandleIds, Removed(s, w, id), NEW v \in ByteValues,
         NEW t, SnapInv(t), Handles(t) = Handles(w), NEW offset \in Nat,
         Unheld(t, Hole(offset, Len(v))), BytesAt(t.data, offset, Len(v)) = v,
         \A h \in Handles(w) : ValueIn(t, h) = ValueIn(w, h),
         NEW u, u = WithEntry(t, id, offset, Len(v))
  PROVE  Stored(s, u, id, v) /\ u.array = t.array /\ u.data = t.data
<1>1. PICK l \in Nat : l = Len(v)
  BY ValueIs
<1>2. Handles(t) = {g \in Handles(s) : g.id # id} /\ \A g \in Handles(t) : g.id # id
  BY DEF Removed
<1>3. /\ SnapInv(u) /\ u.array = t.array /\ u.data = t.data
      /\ \E h : /\ Handles(u) = Handles(t) \union {h}
                /\ h.id = id /\ h.length = l /\ u.slots[h.slot] = offset
      /\ \A g \in Handles(t) : u.slots[g.slot] = t.slots[g.slot]
  <2>1. Unheld(t, Hole(offset, l)) /\ u = WithEntry(t, id, offset, l)
    BY <1>1
  <2> QED
    BY <1>2, <2>1, WithEntryKeeps
<1>4. PICK h : /\ Handles(u) = Handles(t) \union {h}
               /\ h.id = id /\ h.length = l /\ u.slots[h.slot] = offset
  BY <1>3
<1>5. ValueIn(u, h) = v
  BY <1>1, <1>3, <1>4 DEF ValueIn
<1>6. ASSUME NEW g \in Handles(s), g.id # id PROVE ValueIn(u, g) = ValueIn(s, g)
  <2>1. g \in Handles(t) /\ g \in Handles(w)
    BY <1>2, <1>6
  <2>2. ValueIn(u, g) = ValueIn(t, g)
    BY <1>3, <2>1 DEF ValueIn
  <2>3. ValueIn(w, g) = ValueIn(s, g)
    BY <2>1 DEF Removed
  <2> QED
    BY <2>1, <2>2, <2>3
<1> QED
  BY <1>2, <1>3, <1>4, <1>5, <1>6 DEF Stored

----------------------------------------------------------------------------
(* Moving the values together.                                             *)

LEMMA EntriesDiffer ==
  ASSUME NEW s, SnapInv(s)
  PROVE  /\ s.entries \in Seq(HandleValues)
         /\ \A j \in DOMAIN s.entries : s.entries[j] \in Handles(s)
         /\ \A h \in Handles(s) : \E j \in DOMAIN s.entries : h = s.entries[j]
         /\ \A j, k \in DOMAIN s.entries :
              j # k => s.entries[j] # s.entries[k] /\ s.entries[j].slot # s.entries[k].slot
<1>1. s \in Snapshots /\ IndexFor(s.index, s.entries) /\ SlotsInv(s)
  BY DEF SnapInv
<1>2. s.entries \in Seq(HandleValues)
  BY <1>1, FieldsOf
<1>3. /\ \A j \in DOMAIN s.entries : s.entries[j] \in Handles(s)
      /\ \A h \in Handles(s) : \E j \in DOMAIN s.entries : h = s.entries[j]
  BY DEF Handles, ToSet
<1>4. \A j, k \in DOMAIN s.entries : j # k => s.entries[j] # s.entries[k]
  BY <1>1 DEF IndexFor
<1>5. \A j, k \in DOMAIN s.entries : j # k => s.entries[j].slot # s.entries[k].slot
  BY <1>1, <1>3, <1>4 DEF SlotsInv
<1> QED
  BY <1>2, <1>3, <1>4, <1>5

Adds(s, j, x, y) ==
  /\ y.slots = [x.slots EXCEPT ![s.entries[j].slot] = Len(x.data)]
  /\ y.data = x.data \o ValueIn(s, s.entries[j])

LEMMA CompactingIs ==
  ASSUME NEW s, SnapInv(s), NEW n \in Nat, n = Len(s.entries)
  PROVE  /\ Compacting(s)[0] = [slots |-> s.slots, data |-> <<>>]
         /\ \A j \in 1 .. n : Adds(s, j, Compacting(s)[j - 1], Compacting(s)[j])
<1> DEFINE Step(x, j) ==
             [slots |-> [x.slots EXCEPT ![s.entries[j].slot] = Len(x.data)],
              data |-> x.data \o ValueIn(s, s.entries[j])]
           b == [slots |-> s.slots, data |-> <<>>]
           S == {x \in [slots : Seq(Nat), data : Seq(Bytes)] : Len(x.slots) = Len(s.slots)}
           step == [j \in 1 .. n |-> [x \in S |-> Step(x, j)]]
<1>1. s \in Snapshots /\ s.slots \in Seq(Nat) /\ Len(s.slots) \in Nat
  BY FieldsOf DEF SnapInv
<1>2. b \in S
  BY <1>1
<1>3. ASSUME NEW j \in 1 .. n, NEW x \in S PROVE Step(x, j) \in S
  <2>1. PICK h, k, w : h = s.entries[j] /\ k = h.slot /\ w = ValueIn(s, h)
    OBVIOUS
  <2>2. h \in Handles(s)
    BY <2>1, EntriesDiffer
  <2>3. k \in DOMAIN s.slots /\ w \in Seq(Bytes)
    BY <2>1, <2>2, EntryIs, BytesAtIs DEF ValueIn
  <2>4. PICK sl, d : sl = x.slots /\ d = x.data
    OBVIOUS
  <2>5. sl \in Seq(Nat) /\ d \in Seq(Bytes) /\ Len(sl) = Len(s.slots)
    BY <2>4
  <2>6. k \in DOMAIN sl /\ Len(d) \in Nat
    BY <1>1, <2>3, <2>5
  <2>7. [sl EXCEPT ![k] = Len(d)] \in Seq(Nat) /\ Len([sl EXCEPT ![k] = Len(d)]) = Len(sl)
    BY <2>5, <2>6
  <2>8. d \o w \in Seq(Bytes)
    BY <2>3, <2>5
  <2> QED
    BY <2>1, <2>4, <2>5, <2>7, <2>8
<1> HIDE DEF Step, b, S
<1>4. step \in [1 .. n -> [S -> S]]
  BY <1>3
<1>5. PICK g \in [0 .. n -> S] : g[0] = b /\ \A j \in 1 .. n : g[j] = step[j][g[j - 1]]
  <2> HIDE DEF step
  <2>1. Steps(S, b, n, step)
    BY <1>2, <1>4 DEF Steps
  <2>2. PICK g : Run(S, b, n, step, g)
    BY <2>1, StepsExist
  <2> QED
    BY <2>2 DEF Run
<1>6. ASSUME NEW j \in 1 .. n PROVE g[j] = Step(g[j - 1], j)
  <2>1. g[j - 1] \in S
    OBVIOUS
  <2>2. step[j][g[j - 1]] = Step(g[j - 1], j)
    BY <2>1
  <2> QED
    BY <1>5, <2>2
<1>7. g = [j \in 0 .. n |-> IF j = 0 THEN b ELSE Step(g[j - 1], j)]
  BY <1>5, <1>6
<1>8. PICK F : F = Compacting(s)
  OBVIOUS
<1>9. F = CHOOSE f : f = [j \in 0 .. n |-> IF j = 0 THEN b ELSE Step(f[j - 1], j)]
  BY <1>8 DEF Compacting, Step, b, ValueIn
<1>10. F = [j \in 0 .. n |-> IF j = 0 THEN b ELSE Step(F[j - 1], j)]
  BY <1>7, <1>9
<1>11. F[0] = b
  BY <1>10
<1>12. ASSUME NEW j \in 1 .. n PROVE F[j] = Step(F[j - 1], j)
  <2>1. j \in 0 .. n /\ j # 0
    OBVIOUS
  <2> QED
    BY <1>10, <2>1, Zenon
<1>13. \A x, j : Adds(s, j, x, Step(x, j))
  BY DEF Adds, Step
<1> QED
  BY <1>8, <1>11, <1>12, <1>13 DEF b

(* The bytes that the first j entries hold.                                *)
Held(s, j) ==
  {b \in 1 .. Len(s.data) :
     \E i \in 1 .. j : LET a == PieceOf(s, s.entries[i])
                       IN b \in a.offset + 1 .. a.offset + a.length}

(* x holds the first j entries of s one after another.                     *)
Gathered(s, j, x) ==
  /\ x.slots \in Seq(Nat) /\ Len(x.slots) = Len(s.slots) /\ x.data \in Seq(Bytes)
  /\ IsFiniteSet(Held(s, j)) /\ Len(x.data) = Cardinality(Held(s, j))
  /\ \A i \in 1 .. j :
       /\ x.slots[s.entries[i].slot] + s.entries[i].length <= Len(x.data)
       /\ ValueIn(x, s.entries[i]) = ValueIn(s, s.entries[i])
       /\ \A k \in 1 .. j : k # i => Apart(PieceOf(x, s.entries[i]), PieceOf(x, s.entries[k]))

LEMMA HeldGrows ==
  ASSUME NEW s, SnapInv(s), NEW j \in Nat, j + 1 \in DOMAIN s.entries, IsFiniteSet(Held(s, j))
  PROVE  /\ IsFiniteSet(Held(s, j + 1))
         /\ Cardinality(Held(s, j + 1)) = Cardinality(Held(s, j)) + s.entries[j + 1].length
<1>1. PICK h, o, l : h = s.entries[j + 1] /\ o = s.slots[h.slot] /\ l = h.length
  OBVIOUS
<1>2. h \in Handles(s) /\ o \in Nat /\ l \in Nat /\ o + l <= Len(s.data) /\ Len(s.data) \in Nat
  <2>1. h \in Handles(s)
    BY <1>1, EntriesDiffer
  <2> QED
    BY <1>1, <2>1, EntryIs
<1>3. PICK new : new = o + 1 .. o + l
  OBVIOUS
<1>4. IsFiniteSet(new) /\ Cardinality(new) = l
  <2>1. o + 1 \in Int /\ o + l \in Int
    BY <1>2
  <2>2. /\ IsFiniteSet((o + 1) .. (o + l))
        /\ Cardinality((o + 1) .. (o + l)) = IF o + 1 > o + l THEN 0 ELSE (o + l) - (o + 1) + 1
    BY <2>1, FS_Interval
  <2>3. l = IF o + 1 > o + l THEN 0 ELSE (o + l) - (o + 1) + 1
    BY <1>2
  <2> QED
    BY <1>3, <2>2, <2>3
<1>5. new \subseteq 1 .. Len(s.data)
  BY <1>2, <1>3
<1>6. PieceOf(s, h).offset = o /\ PieceOf(s, h).length = l
  BY <1>1, PieceIs
<1>7. Held(s, j + 1) = Held(s, j) \union new
  <2>1. \A i : i \in 1 .. j + 1 <=> i \in 1 .. j \/ i = j + 1
    OBVIOUS
  <2> DEFINE Holds(g, b) ==
               b \in PieceOf(s, g).offset + 1 .. PieceOf(s, g).offset + PieceOf(s, g).length
  <2>2. ASSUME NEW b PROVE b \in Held(s, j + 1) <=> b \in Held(s, j) \union new
    <3>1. b \in Held(s, j) <=> b \in 1 .. Len(s.data) /\ \E i \in 1 .. j : Holds(s.entries[i], b)
      BY DEF Held
    <3>2. b \in Held(s, j + 1) <=> /\ b \in 1 .. Len(s.data)
                                  /\ \E i \in 1 .. j + 1 : Holds(s.entries[i], b)
      BY DEF Held
    <3>3. Holds(h, b) <=> b \in new
      BY <1>3, <1>6
    <3> HIDE DEF Holds
    <3>4. (\E i \in 1 .. j + 1 : Holds(s.entries[i], b))
            <=> (\E i \in 1 .. j : Holds(s.entries[i], b)) \/ Holds(h, b)
      BY <1>1, <2>1
    <3> QED
      BY <1>5, <3>1, <3>2, <3>3, <3>4
  <2> QED
    BY <2>2
<1>8. Held(s, j) \intersect new = {}
  <2> SUFFICES ASSUME NEW b \in Held(s, j), b \in new PROVE FALSE
    OBVIOUS
  <2>1. PICK i \in 1 .. j : LET a == PieceOf(s, s.entries[i])
                            IN b \in a.offset + 1 .. a.offset + a.length
    BY DEF Held
  <2>2. PICK g : g = s.entries[i]
    OBVIOUS
  <2>3. i \in DOMAIN s.entries /\ i # j + 1
    <3>1. PICK n \in Nat : DOMAIN s.entries = 1 .. n
      BY EntriesDiffer
    <3> QED
      BY <3>1
  <2>4. g \in Handles(s) /\ g # h
    BY <1>1, <2>2, <2>3, EntriesDiffer
  <2>5. s.slots[g.slot] \in Nat /\ g.length \in Nat
    BY <2>4, EntryIs
  <2>6. Apart(PieceOf(s, g), PieceOf(s, h))
    BY <1>2, <2>4 DEF SnapInv, LayoutInv
  <2>7. s.slots[g.slot] + g.length <= o \/ o + l <= s.slots[g.slot]
    BY <1>6, <2>6, PieceIs DEF Apart
  <2>8. b \in s.slots[g.slot] + 1 .. s.slots[g.slot] + g.length
    BY <2>1, <2>2, PieceIs
  <2> QED
    BY <1>2, <1>3, <2>5, <2>7, <2>8
<1>9. PICK H : H = Held(s, j)
  OBVIOUS
<1>10. /\ IsFiniteSet(H \union new)
       /\ Cardinality(H \union new) = Cardinality(H) + Cardinality(new) - Cardinality(H \intersect new)
  BY <1>4, <1>9, FS_Union
<1>11. Cardinality(H \intersect new) = 0
  BY <1>8, <1>9, FS_EmptySet
<1>12. Cardinality(H) \in Nat
  BY <1>9, FS_CardinalityType
<1>13. Cardinality(H \union new) = Cardinality(H) + l
  BY <1>2, <1>4, <1>10, <1>11, <1>12
<1> QED
  BY <1>1, <1>7, <1>9, <1>10, <1>13

LEMMA GathersOne ==
  ASSUME NEW s, SnapInv(s), NEW j \in Nat, j + 1 \in DOMAIN s.entries, NEW x, Gathered(s, j, x),
         NEW y, Adds(s, j + 1, x, y)
  PROVE  Gathered(s, j + 1, y)
<1>1. PICK h, w, m, k : /\ h = s.entries[j + 1] /\ w = ValueIn(s, h) /\ m = Len(x.data) /\ k = h.slot
  OBVIOUS
<1>2. h \in Handles(s) /\ \A i \in 1 .. j : i \in DOMAIN s.entries /\ i # j + 1
  <2>1. PICK n \in Nat : DOMAIN s.entries = 1 .. n
    BY EntriesDiffer
  <2> QED
    BY <1>1, <2>1, EntriesDiffer
<1>3. \A i \in 1 .. j : s.entries[i] \in Handles(s) /\ s.entries[i].slot # k
  BY <1>1, <1>2, EntriesDiffer
<1>4. /\ k \in DOMAIN s.slots /\ h.length \in Nat /\ s.slots[k] \in Nat
      /\ s.data \in Seq(Bytes) /\ Len(s.data) \in Nat /\ s.slots[k] + h.length <= Len(s.data)
  BY <1>1, <1>2, EntryIs
<1>5. w \in Seq(Bytes) /\ Len(w) = h.length
  <2>1. PICK e, o, l : e = s.data /\ o = s.slots[k] /\ l = h.length
    OBVIOUS
  <2>2. e \in Seq(Bytes) /\ o \in Nat /\ l \in Nat /\ o + l <= Len(e)
    BY <1>4, <2>1
  <2>3. w = BytesAt(e, o, l)
    BY <1>1, <2>1 DEF ValueIn
  <2> QED
    BY <2>1, <2>2, <2>3, BytesAtIs
<1>6. PICK sl, d : sl = x.slots /\ d = x.data
  OBVIOUS
<1>7. sl \in Seq(Nat) /\ Len(sl) = Len(s.slots) /\ d \in Seq(Bytes) /\ m = Len(d) /\ m \in Nat
  BY <1>1, <1>6 DEF Gathered
<1>8. PICK sl2, d2 : sl2 = [sl EXCEPT ![k] = m] /\ d2 = d \o w
  OBVIOUS
<1>9. y.slots = sl2 /\ y.data = d2
  BY <1>1, <1>6, <1>8 DEF Adds
<1>10. k \in DOMAIN sl
  <2>1. s.slots \in Seq(Nat)
    BY FieldsOf DEF SnapInv
  <2> QED
    BY <1>4, <1>7, <2>1
<1>11. /\ sl2 \in Seq(Nat) /\ Len(sl2) = Len(sl) /\ sl2[k] = m
       /\ \A i \in DOMAIN sl : i # k => sl2[i] = sl[i]
  BY <1>7, <1>8, <1>10
<1>12. /\ d2 \in Seq(Bytes) /\ Len(d2) = m + h.length
       /\ \A i \in 1 .. m : d2[i] = d[i]
       /\ \A i \in 1 .. h.length : d2[m + i] = w[i]
  BY <1>5, <1>7, <1>8, JoinedIs
<1>13. ASSUME NEW i \in 1 .. j
       PROVE  /\ y.slots[s.entries[i].slot] = sl[s.entries[i].slot]
              /\ sl[s.entries[i].slot] \in Nat /\ s.entries[i].length \in Nat
              /\ sl[s.entries[i].slot] + s.entries[i].length <= m
  <2>1. PICK g : g = s.entries[i] /\ g \in Handles(s) /\ g.slot # k
    BY <1>3
  <2>2. g.slot \in DOMAIN s.slots /\ g.length \in Nat
    BY <2>1, EntryIs
  <2>3. g.slot \in DOMAIN sl
    <3>1. s.slots \in Seq(Nat)
      BY FieldsOf DEF SnapInv
    <3> QED
      BY <1>7, <2>2, <3>1
  <2>4. sl[g.slot] \in Nat /\ sl2[g.slot] = sl[g.slot]
    <3>1. sl2[g.slot] = sl[g.slot]
      BY <1>11, <2>1, <2>3
    <3>2. PICK i0 : i0 = g.slot
      OBVIOUS
    <3>3. sl[i0] \in Nat
      BY <1>7, <2>3, <3>2
    <3> QED
      BY <3>1, <3>2, <3>3
  <2>5. sl[g.slot] + g.length <= m
    BY <1>1, <1>6, <2>1 DEF Gathered
  <2> QED
    BY <1>9, <2>1, <2>2, <2>4, <2>5
<1>14. y.slots[k] = m /\ Len(y.data) = m + h.length
  BY <1>9, <1>11, <1>12
<1>15. /\ IsFiniteSet(Held(s, j + 1)) /\ Len(y.data) = Cardinality(Held(s, j + 1))
  <2>1. IsFiniteSet(Held(s, j)) /\ m = Cardinality(Held(s, j))
    BY <1>1 DEF Gathered
  <2>2. IsFiniteSet(Held(s, j + 1)) /\ Cardinality(Held(s, j + 1)) = m + h.length
    BY <1>1, <2>1, HeldGrows
  <2> QED
    BY <1>14, <2>2
<1>16. ASSUME NEW i \in 1 .. j + 1
       PROVE  /\ y.slots[s.entries[i].slot] + s.entries[i].length <= Len(y.data)
              /\ ValueIn(y, s.entries[i]) = ValueIn(s, s.entries[i])
  <2>1. CASE i = j + 1
    <3>1. s.entries[i] = h
      BY <1>1, <2>1
    <3>2. y.slots[h.slot] = m /\ m + h.length <= Len(y.data)
      BY <1>1, <1>4, <1>7, <1>14
    <3>3. BytesAt(d2, m, Len(w)) = w
      <4>1. m + Len(w) <= Len(d2) /\ \A n \in 1 .. Len(w) : d2[m + n] = w[n]
        <5>1. PICK l \in Nat : l = h.length
          BY <1>4
        <5>2. m + l <= Len(d2)
          BY <1>7, <1>12, <5>1
        <5> QED
          BY <1>5, <1>12, <5>1, <5>2
      <4> QED
        BY <1>5, <1>7, <1>12, <4>1, BytesAre
    <3>4. ValueIn(y, h) = w
      BY <1>5, <1>9, <3>2, <3>3 DEF ValueIn
    <3> QED
      BY <1>1, <3>1, <3>2, <3>4
  <2>2. CASE i \in 1 .. j
    <3>1. PICK g, o, l : g = s.entries[i] /\ o = sl[g.slot] /\ l = g.length
      OBVIOUS
    <3>2. y.slots[g.slot] = o /\ o \in Nat /\ l \in Nat /\ o + l <= m
      BY <1>13, <2>2, <3>1
    <3>3. y.slots[g.slot] + g.length <= Len(y.data)
      <4>1. m <= Len(y.data) /\ Len(y.data) \in Nat /\ m \in Nat
        <5>1. PICK b \in Nat : b = h.length
          BY <1>4
        <5>2. m \in Nat /\ Len(y.data) = m + b
          BY <1>7, <1>14, <5>1
        <5> QED
          BY <5>2
      <4>2. o + l <= Len(y.data)
        BY <3>2, <4>1
      <4> QED
        BY <3>1, <3>2, <4>2
    <3>4. ASSUME NEW n \in 1 .. l PROVE d2[o + n] = d[o + n]
      <4>1. o + n \in 1 .. m
        BY <1>7, <3>2
      <4> QED
        BY <1>12, <4>1
    <3>5. o + l <= Len(d2) /\ o + l <= Len(d) /\ d2 \in Seq(Bytes) /\ d \in Seq(Bytes)
      BY <1>4, <1>7, <1>12, <3>2
    <3>6. BytesAt(d2, o, l) = BytesAt(d, o, l)
      <4>1. Agree(d2, d, o, l)
        BY <3>2, <3>4, <3>5 DEF Agree
      <4> QED
        BY <4>1, BytesEqual
    <3>7. ValueIn(x, g) = ValueIn(s, g)
      BY <2>2, <3>1 DEF Gathered
    <3>8. ValueIn(x, g) = BytesAt(d, o, l) /\ ValueIn(y, g) = BytesAt(d2, o, l)
      BY <1>6, <1>9, <3>1, <3>2 DEF ValueIn
    <3> QED
      BY <3>1, <3>3, <3>6, <3>7, <3>8
  <2> QED
    BY <2>1, <2>2
<1>17. ASSUME NEW i \in 1 .. j + 1, NEW n \in 1 .. j + 1, n # i
       PROVE  Apart(PieceOf(y, s.entries[i]), PieceOf(y, s.entries[n]))
  <2>1. ASSUME NEW f \in 1 .. j
        PROVE  /\ PieceOf(y, s.entries[f]) = PieceOf(x, s.entries[f])
               /\ Apart(PieceOf(y, s.entries[f]), PieceOf(y, h))
               /\ Apart(PieceOf(y, h), PieceOf(y, s.entries[f]))
    <3>0. PICK g, o : g = s.entries[f] /\ o = sl[g.slot]
      OBVIOUS
    <3>1. y.slots[g.slot] = o /\ o + g.length <= m
      BY <1>13, <3>0
    <3>2. PieceOf(y, g) = PieceOf(x, g)
      BY <1>6, <3>0, <3>1 DEF PieceOf
    <3>3. PieceOf(y, g).offset + PieceOf(y, g).length <= PieceOf(y, h).offset
      <4>1. PieceOf(y, g).offset = o /\ PieceOf(y, g).length = g.length
        BY <3>1, PieceIs
      <4>2. PieceOf(y, h).offset = m
        BY <1>1, <1>14, PieceIs
      <4> QED
        BY <3>1, <4>1, <4>2
    <3> QED
      BY <3>0, <3>2, <3>3 DEF Apart
  <2>2. i \in 1 .. j /\ n \in 1 .. j => Apart(PieceOf(x, s.entries[i]), PieceOf(x, s.entries[n]))
    BY <1>17 DEF Gathered
  <2>3. (i \in 1 .. j \/ i = j + 1) /\ (n \in 1 .. j \/ n = j + 1)
    OBVIOUS
  <2> QED
    BY <1>1, <1>17, <2>1, <2>2, <2>3
<1> QED
  BY <1>7, <1>9, <1>11, <1>12, <1>15, <1>16, <1>17 DEF Gathered

Compacts(s, n, x) ==
  SnapInv(s) /\ n \in Nat /\ n = Len(s.entries) /\ x = Compacted(s)

LEMMA CompactedIs ==
  ASSUME NEW s, NEW n, NEW x, Compacts(s, n, x)
  PROVE  Gathered(s, n, x) /\ Len(x.data) <= Len(s.data)
<1> SnapInv(s) /\ n \in Nat /\ n = Len(s.entries) /\ x = Compacted(s)
  BY DEF Compacts
<1>1. PICK F : F = Compacting(s)
  OBVIOUS
<1>2. /\ F[0].slots = s.slots /\ F[0].data = <<>>
      /\ \A j \in 1 .. n : Adds(s, j, F[j - 1], F[j])
  <2>1. /\ Compacting(s)[0] = [slots |-> s.slots, data |-> <<>>]
        /\ \A j \in 1 .. n : Adds(s, j, Compacting(s)[j - 1], Compacting(s)[j])
    BY CompactingIs, Zenon
  <2>2. F[0] = [slots |-> s.slots, data |-> <<>>]
    BY <1>1, <2>1
  <2> QED
    BY <1>1, <2>1, <2>2
<1> DEFINE G == {j \in Nat : j <= n => Gathered(s, j, F[j])}
<1>3. 0 \in G
  <2>1. Held(s, 0) = {}
    BY DEF Held
  <2>2. IsFiniteSet(Held(s, 0)) /\ Cardinality(Held(s, 0)) = 0
    BY <2>1, FS_EmptySet
  <2>3. s.slots \in Seq(Nat)
    BY FieldsOf DEF SnapInv
  <2>4. <<>> \in Seq(Bytes) /\ Len(<<>>) = 0
    OBVIOUS
  <2>5. PICK x0 : x0 = F[0]
    OBVIOUS
  <2>6. x0.slots = s.slots /\ x0.data = <<>>
    BY <1>2, <2>5
  <2>7. Gathered(s, 0, x0)
    BY <2>2, <2>3, <2>4, <2>6 DEF Gathered
  <2> QED
    BY <2>5, <2>7
<1>4. ASSUME NEW j \in Nat, j \in G PROVE j + 1 \in G
  <2> SUFFICES ASSUME j + 1 <= n PROVE Gathered(s, j + 1, F[j + 1])
    OBVIOUS
  <2>1. Gathered(s, j, F[j])
    BY <1>4
  <2>2. j + 1 \in 1 .. n /\ (j + 1) - 1 = j
    OBVIOUS
  <2>3. j + 1 \in DOMAIN s.entries
    BY <2>2, EntriesDiffer
  <2>4. Adds(s, j + 1, F[j], F[j + 1])
    BY <1>2, <2>2
  <2> QED
    BY <2>1, <2>3, <2>4, GathersOne
<1> HIDE DEF G
<1>5. n \in G
  BY <1>3, <1>4, ByInduction
<1>6. Gathered(s, n, x)
  BY <1>1, <1>5 DEF G, Compacted
<1>7. Cardinality(Held(s, n)) <= Len(s.data)
  <2>1. PICK m \in Nat : m = Len(s.data)
    BY FieldsOf DEF SnapInv
  <2>2. IsFiniteSet(1 .. m) /\ Cardinality(1 .. m) = m
    <3> PICK a, b : a = 1 /\ b = m
      OBVIOUS
    <3> a \in Int /\ b \in Int
      OBVIOUS
    <3>1. /\ IsFiniteSet(a .. b)
          /\ Cardinality(a .. b) = IF a > b THEN 0 ELSE b - a + 1
      BY FS_Interval
    <3> QED
      BY <3>1
  <2>3. Held(s, n) \subseteq 1 .. m
    BY <2>1 DEF Held
  <2>4. Cardinality(Held(s, n)) <= Cardinality(1 .. m)
    BY <2>2, <2>3, FS_Subset
  <2> QED
    BY <2>1, <2>2, <2>4
<1> QED
  BY <1>6, <1>7 DEF Gathered

(* Moved together, the values are the same and no hole is left.            *)
LEMMA CompactedKeeps ==
  ASSUME NEW s, SnapInv(s), NEW x, x = Compacted(s), NEW u, u \in Snapshots,
         u.data = x.data, u.slots = x.slots, u.free = s.free, u.entries = s.entries,
         u.holes = <<>>, u.index = s.index
  PROVE  SnapInv(u) /\ Handles(u) = Handles(s) /\ \A h \in Handles(s) : ValueIn(u, h) = ValueIn(s, h)
<1>1. PICK n \in Nat : n = Len(s.entries) /\ DOMAIN s.entries = 1 .. n
  BY EntriesDiffer
<1>2. Gathered(s, n, x) /\ Len(x.data) <= Len(s.data)
  BY <1>1, CompactedIs DEF Compacts
<1>3. Handles(u) = Handles(s) /\ \A h \in Handles(s) : \E i \in 1 .. n : h = s.entries[i]
  <2>1. Handles(u) = Handles(s)
    BY Zenon DEF Handles
  <2>2. \A h \in Handles(s) : \E i \in DOMAIN s.entries : h = s.entries[i]
    BY EntriesDiffer, Zenon
  <2> QED
    BY <1>1, <2>1, <2>2, Zenon
<1>4. DOMAIN u.slots = DOMAIN s.slots
  <2>1. s.slots \in Seq(Nat) /\ x.slots \in Seq(Nat) /\ Len(x.slots) = Len(s.slots)
    BY <1>2, FieldsOf DEF SnapInv, Gathered
  <2> QED
    BY <2>1
<1>5. SlotsInv(u)
  BY <1>3, <1>4 DEF SnapInv, SlotsInv
<1>6. \A h : PieceOf(u, h) = PieceOf(x, h) /\ ValueIn(u, h) = ValueIn(x, h)
  BY DEF PieceOf, ValueIn
<1>7. ASSUME NEW h \in Handles(s)
      PROVE  /\ Within(u, PieceOf(u, h)) /\ ValueIn(u, h) = ValueIn(s, h)
             /\ \A g \in Handles(s) : g # h => Apart(PieceOf(u, g), PieceOf(u, h))
  <2>1. PICK i \in 1 .. n : h = s.entries[i]
    BY <1>3
  <2>2. x.slots[h.slot] + h.length <= Len(x.data) /\ ValueIn(x, h) = ValueIn(s, h)
    BY <1>2, <2>1 DEF Gathered
  <2>3. Within(u, PieceOf(u, h))
    BY <2>2, PieceIs DEF Within
  <2>4. ASSUME NEW g \in Handles(s), g # h PROVE Apart(PieceOf(u, g), PieceOf(u, h))
    <3>1. PICK k \in 1 .. n : g = s.entries[k]
      BY <1>3
    <3>2. Apart(PieceOf(x, g), PieceOf(x, h))
      BY <1>2, <2>1, <2>4, <3>1 DEF Gathered
    <3> QED
      BY <1>6, <3>2
  <2> QED
    BY <1>6, <2>2, <2>3, <2>4
<1>8. LayoutInv(u)
  <2>1. PICK a, b : a = Len(s.data) /\ b = Len(u.data)
    OBVIOUS
  <2>2. a \in Nat /\ b \in Nat /\ b <= a /\ a <= MaxBytes /\ MaxBytes \in Nat
    <3>1. s.data \in Seq(Bytes) /\ u.data \in Seq(Bytes)
      BY FieldsOf DEF SnapInv
    <3> QED
      BY <1>2, <2>1, <3>1, SizesAssumption DEF SnapInv, LayoutInv
  <2>3. DOMAIN u.holes = {} /\ Len(u.data) <= MaxBytes
    BY <2>1, <2>2
  <2> QED
    BY <1>3, <1>7, <2>3 DEF LayoutInv
<1>9. IndexFor(u.index, u.entries)
  BY DEF SnapInv
<1> QED
  BY <1>3, <1>5, <1>7, <1>8, <1>9 DEF SnapInv

----------------------------------------------------------------------------
(* Indexing the entries of an import.                                      *)

LEMMA IndexingIs ==
  ASSUME NEW s, NEW e, e = s.entries, e \in Seq(HandleValues), NEW n \in Nat, n = Len(e),
         NEW F, F = Indexing(s)
  PROVE  /\ F[0] = EmptyTable(MinCap)
         /\ \A j \in 1 .. n : F[j] = InsertOrUpdate(F[j - 1], e[j].id, j)
<1> DEFINE Step(u, j) == InsertOrUpdate(u, e[j].id, j)
           S == {u \in Seq(Cells) : GoodTable(u)}
           step == [j \in 1 .. n |-> [u \in S |-> Step(u, j)]]
           E == EmptyTable(MinCap)
<1>1. E \in S
  BY EmptyTableIs, SizesAssumption DEF GoodTable
<1>2. ASSUME NEW j \in 1 .. n, NEW u \in S PROVE Step(u, j) \in S
  <2>1. j \in Nat /\ j > 0 /\ j \in DOMAIN e
    OBVIOUS
  <2>2. e[j].id \in HandleIds
    <3>1. e[j] \in HandleValues
      BY <2>1
    <3> QED
      BY <3>1 DEF HandleValues
  <2>3. PICK w : w = InsertOrUpdate(u, e[j].id, j)
    OBVIOUS
  <2>4. GoodTable(w)
    BY <2>1, <2>2, <2>3, InsertKeeps
  <2> QED
    BY <2>3, <2>4 DEF GoodTable
<1> HIDE DEF Step, E, S
<1>3. step \in [1 .. n -> [S -> S]]
  BY <1>2
<1>4. PICK g : Run(S, E, n, step, g)
  <2> HIDE DEF step
  <2>1. Steps(S, E, n, step)
    BY <1>1, <1>3 DEF Steps
  <2> QED
    BY <2>1, StepsExist
<1>5. g \in [0 .. n -> S] /\ g[0] = E /\ \A j \in 1 .. n : g[j] = step[j][g[j - 1]]
  BY <1>4 DEF Run
<1>6. ASSUME NEW j \in 1 .. n PROVE g[j] = Step(g[j - 1], j)
  <2>1. g[j - 1] \in S
    BY <1>5
  <2>2. step[j][g[j - 1]] = Step(g[j - 1], j)
    BY <2>1
  <2> QED
    BY <1>5, <2>2
<1>7. g = [j \in 0 .. n |-> IF j = 0 THEN E ELSE Step(g[j - 1], j)]
  BY <1>5, <1>6
<1>8. F = CHOOSE f : f = [j \in 0 .. n |-> IF j = 0 THEN E ELSE Step(f[j - 1], j)]
  BY DEF Indexing, Step, E
<1>9. F = [j \in 0 .. n |-> IF j = 0 THEN E ELSE Step(F[j - 1], j)]
  BY <1>7, <1>8
<1>10. F[0] = E
  BY <1>9
<1>11. ASSUME NEW j \in 1 .. n PROVE F[j] = Step(F[j - 1], j)
  <2>1. j \in 0 .. n /\ j # 0
    OBVIOUS
  <2> QED
    BY <1>9, <2>1, Zenon
<1> QED
  BY <1>10, <1>11 DEF Step, E

(* t is the index of the first j entries.                                  *)
IndexOf(t, e, j) ==
  /\ GoodTable(t) /\ Room(t)
  /\ \A i \in 1 .. j : LookupId(t, e[i].id) = i
  /\ \A id \in HandleIds : LookupId(t, id) # 0 =>
       LookupId(t, id) \in 1 .. j /\ e[LookupId(t, id)].id = id
DifferentIds(e) ==
  e \in Seq(HandleValues) /\ \A i, j \in DOMAIN e : e[i].id = e[j].id => i = j

LEMMA IndexesOne ==
  ASSUME NEW e, DifferentIds(e), NEW j \in Nat, j + 1 \in DOMAIN e, NEW t, IndexOf(t, e, j)
  PROVE  IndexOf(InsertOrUpdate(t, e[j + 1].id, j + 1), e, j + 1)
<1>1. PICK id, u : id = e[j + 1].id /\ u = InsertOrUpdate(t, id, j + 1)
  OBVIOUS
<1>2. \A i \in DOMAIN e : e[i].id \in HandleIds
  <2>1. \A h \in HandleValues : h.id \in HandleIds
    BY DEF HandleValues
  <2>2. \A i \in DOMAIN e : e[i] \in HandleValues
    BY DEF DifferentIds
  <2> QED
    BY <2>1, <2>2
<1>3. /\ GoodTable(u) /\ Room(u) /\ LookupId(u, id) = j + 1
      /\ \A x \in HandleIds : x # id => LookupId(u, x) = LookupId(t, x)
  <2>1. j + 1 \in Nat /\ j + 1 > 0 /\ id \in HandleIds /\ GoodTable(t)
    BY <1>1, <1>2 DEF IndexOf
  <2> QED
    BY <1>1, <2>1, InsertKeeps
<1>4. \A i \in 1 .. j : i \in DOMAIN e /\ i # j + 1
  <2>1. PICK n \in Nat : DOMAIN e = 1 .. n
    BY DEF DifferentIds
  <2> QED
    BY <2>1
<1>5. ASSUME NEW i \in 1 .. j + 1 PROVE LookupId(u, e[i].id) = i
  <2>1. CASE i = j + 1
    BY <1>1, <1>3, <2>1
  <2>2. CASE i \in 1 .. j
    <3>1. e[i].id \in HandleIds /\ e[i].id # id
      BY <1>1, <1>2, <1>4, <2>2 DEF DifferentIds
    <3>2. LookupId(t, e[i].id) = i
      BY <2>2 DEF IndexOf
    <3> QED
      BY <1>3, <3>1, <3>2
  <2> QED
    BY <2>1, <2>2
<1>6. ASSUME NEW x \in HandleIds, LookupId(u, x) # 0
      PROVE  LookupId(u, x) \in 1 .. j + 1 /\ e[LookupId(u, x)].id = x
  <2>1. CASE x = id
    BY <1>1, <1>3, <2>1
  <2>2. CASE x # id
    <3>1. LookupId(u, x) = LookupId(t, x)
      BY <1>3, <2>2
    <3>2. LookupId(t, x) \in 1 .. j /\ e[LookupId(t, x)].id = x
      BY <1>6, <3>1 DEF IndexOf
    <3> QED
      BY <3>1, <3>2
  <2> QED
    BY <2>1, <2>2
<1> QED
  BY <1>1, <1>3, <1>5, <1>6 DEF IndexOf

LEMMA IndexingFinds ==
  ASSUME NEW s, SnapInv(s)
  PROVE  IndexFor(Indexing(s)[Len(s.entries)], s.entries)
<1>1. PICK e, F : e = s.entries /\ F = Indexing(s)
  OBVIOUS
<1>2. e \in Seq(HandleValues)
  BY <1>1, EntriesDiffer
<1>3. PICK n \in Nat : n = Len(e) /\ DOMAIN e = 1 .. n
  BY <1>2
<1>4. DifferentIds(e)
  <2>1. IndexFor(s.index, e)
    BY <1>1 DEF SnapInv
  <2> QED
    BY <1>2, <2>1 DEF IndexFor, DifferentIds
<1>5. /\ F[0] = EmptyTable(MinCap)
      /\ \A j \in 1 .. n : F[j] = InsertOrUpdate(F[j - 1], e[j].id, j)
  BY <1>1, <1>2, <1>3, IndexingIs
<1> DEFINE G == {j \in Nat : j <= n => IndexOf(F[j], e, j)}
<1>6. 0 \in G
  <2>1. /\ GoodTable(EmptyTable(MinCap)) /\ Room(EmptyTable(MinCap))
        /\ \A id \in HandleIds : LookupId(EmptyTable(MinCap), id) = 0
    BY EmptyTableIs, SizesAssumption
  <2>2. IndexOf(F[0], e, 0)
    BY <1>5, <2>1 DEF IndexOf
  <2> QED
    BY <2>2
<1>7. ASSUME NEW j \in Nat, j \in G PROVE j + 1 \in G
  <2> SUFFICES ASSUME j + 1 <= n PROVE IndexOf(F[j + 1], e, j + 1)
    OBVIOUS
  <2>1. IndexOf(F[j], e, j)
    BY <1>7
  <2>2. j + 1 \in 1 .. n /\ (j + 1) - 1 = j
    OBVIOUS
  <2>3. F[j + 1] = InsertOrUpdate(F[j], e[j + 1].id, j + 1)
    BY <1>5, <2>2
  <2> QED
    BY <1>3, <1>4, <2>1, <2>2, <2>3, IndexesOne
<1> HIDE DEF G
<1>8. n \in G
  BY <1>6, <1>7, ByInduction
<1>9. IndexOf(F[n], e, n)
  BY <1>8 DEF G
<1>10. IndexFor(F[n], e)
  BY <1>3, <1>9 DEF IndexOf, IndexFor
<1> QED
  BY <1>1, <1>3, <1>10

----------------------------------------------------------------------------
(* Arrays and new snapshots.                                               *)

(* There are fewer arrays in use than NewArray has to choose from.         *)
LEMMA NewArrayIs ==
  ASSUME NEW r, NEW a, a = NewArray(r)
  PROVE  a \in Nat /\ a # heldView.array
<1> DEFINE made == {p \in Registries : Exists(p)}
           array == [q \in made |-> snaps[q].array]
           T == {snaps[q].array : q \in made}
           all == 1 .. Cardinality(Registries) + 2
<1>1. IsFiniteSet(made) /\ Cardinality(made) <= Cardinality(Registries)
  <2>1. made \in SUBSET Registries
    OBVIOUS
  <2> HIDE DEF made
  <2> QED
    BY <2>1, RegistriesAssumption, FS_Subset
<1>2. IsFiniteSet(T) /\ Cardinality(T) <= Cardinality(made)
  <2>1. array \in [made -> T] /\ \A t \in T : \E q \in made : array[q] = t
    OBVIOUS
  <2>2. array \in Surjection(made, T)
    BY <2>1 DEF Surjection
  <2> HIDE DEF made, T, array
  <2> QED
    BY <1>1, <2>2, FS_Surjection
<1>3. PICK c, m, n : c = Cardinality(Registries) /\ m = Cardinality(made) /\ n = Cardinality(T)
  OBVIOUS
<1>4. c \in Nat /\ m \in Nat /\ n \in Nat /\ m <= c /\ n <= m
  <2> HIDE DEF made, T
  <2> QED
    BY <1>1, <1>2, <1>3, RegistriesAssumption, FS_CardinalityType
<1>5. PICK U : U = T \union {heldView.array}
  OBVIOUS
<1>6. IsFiniteSet(U) /\ Cardinality(U) <= n + 1
  <2> HIDE DEF T
  <2>1. /\ IsFiniteSet(T \union {heldView.array})
        /\ Cardinality(T \union {heldView.array}) =
             IF heldView.array \in T THEN n ELSE n + 1
    BY <1>2, <1>3, FS_AddElement
  <2> QED
    BY <1>4, <1>5, <2>1
<1>7. IsFiniteSet(all) /\ Cardinality(all) = c + 2
  <2> PICK x, y : x = 1 /\ y = c + 2
    OBVIOUS
  <2>1. x \in Int /\ y \in Int
    BY <1>4
  <2>2. IsFiniteSet(x .. y) /\ Cardinality(x .. y) = IF x > y THEN 0 ELSE y - x + 1
    BY <2>1, FS_Interval
  <2>3. all = x .. y /\ (IF x > y THEN 0 ELSE y - x + 1) = c + 2
    BY <1>3, <1>4
  <2> QED
    BY <2>2, <2>3
<1>8. all \ U # {}
  <2> SUFFICES ASSUME all \subseteq U PROVE FALSE
    OBVIOUS
  <2>1. Cardinality(all) <= Cardinality(U)
    <3> HIDE DEF all
    <3> QED
      BY <1>6, FS_Subset
  <2>2. Cardinality(U) \in Nat
    BY <1>6, FS_CardinalityType
  <2> HIDE DEF all
  <2> QED
    BY <1>4, <1>6, <1>7, <2>1, <2>2
<1>9. a = Min(all \ U)
  <2>1. U = {heldView.array} \union T
    BY <1>5
  <2> QED
    BY <2>1 DEF NewArray
<1>10. all \ U \subseteq Nat
  BY <1>3, <1>4
<1>11. a \in all \ U
  <2> HIDE DEF all
  <2> QED
    BY <1>8, <1>9, <1>10, MinIs
<1> QED
  BY <1>5, <1>10, <1>11

LEMMA NewSnapshotIs ==
  ASSUME NEW a \in Nat, NEW s, s = NewSnapshot(a)
  PROVE  SnapInv(s) /\ Handles(s) = {} /\ s.array = a /\ s.data = <<>>
<1>1. PICK t : t = EmptyTable(MinCap)
  OBVIOUS
<1>2. /\ GoodTable(t) /\ Room(t)
      /\ \A id \in HandleIds : LookupId(t, id) = 0
  BY <1>1, EmptyTableIs, SizesAssumption
<1>3. /\ s.array = a /\ s.data = <<>> /\ s.slots = <<>> /\ s.free = <<>>
      /\ s.entries = <<>> /\ s.holes = <<>> /\ s.index = t
  BY <1>1 DEF NewSnapshot
<1>4. s \in Snapshots
  <2>1. t \in Seq(Cells)
    BY <1>2 DEF GoodTable
  <2> QED
    BY <1>1, <2>1 DEF NewSnapshot, Snapshots
<1>5. Handles(s) = {}
  BY <1>3 DEF Handles, ToSet
<1>6. IndexFor(s.index, s.entries)
  BY <1>2, <1>3 DEF IndexFor
<1>7. SlotsInv(s)
  BY <1>3, <1>5 DEF SlotsInv
<1>8. LayoutInv(s)
  BY <1>3, <1>5, SizesAssumption DEF LayoutInv
<1> QED
  BY <1>3, <1>4, <1>5, <1>6, <1>7, <1>8 DEF SnapInv

LEMMA HoldsSame ==
  ASSUME NEW s, NEW u, Handles(u) = Handles(s),
         \A h \in Handles(s) : ValueIn(u, h) = ValueIn(s, h),
         NEW values, HoldsValues(s, values)
  PROVE  HoldsValues(u, values)
BY DEF HoldsValues

----------------------------------------------------------------------------
(* A step that stores one snapshot.                                        *)

Replaces(r, u) ==
  /\ StoreSnapshot(r, u)
  /\ SnapInv(u)
  /\ r \notin garbled' => HoldsValues(u, lastSet'[r])
  /\ lastSet' = [q \in Registries |-> [id \in HandleIds |-> lastSet'[q][id]]]
  /\ \A q \in Registries \ {r} :
       lastSet'[q] = lastSet[q] /\ (q \notin garbled' => q \notin garbled)

LEMMA ReplacesKeeps ==
  ASSUME RegistriesInv, NEW r \in Registries, NEW u, Replaces(r, u)
  PROVE  RegistriesInv' /\ snaps' = [snaps EXCEPT ![r] = u]
<1>1. snaps' = [snaps EXCEPT ![r] = u] /\ snaps \in [Registries -> Snapshots \union {NoRegistry}]
  BY DEF Replaces, StoreSnapshot, RegistriesInv
<1>2. u \in Snapshots
  BY DEF Replaces, SnapInv
<1>3. snaps' \in [Registries -> Snapshots \union {NoRegistry}]
  BY <1>1, <1>2
<1>4. snaps'[r] = u /\ \A q \in Registries \ {r} : snaps'[q] = snaps[q]
  BY <1>1
<1>5. \A q \in Registries : snaps'[q] # NoRegistry => SnapInv(snaps'[q])
  BY <1>4 DEF Replaces, RegistriesInv, Exists
<1>6. ASSUME NEW q \in Registries \ garbled', snaps'[q] # NoRegistry
      PROVE  HoldsValues(snaps'[q], lastSet'[q])
  <2>1. CASE q = r
    BY <1>4, <1>6, <2>1 DEF Replaces
  <2>2. CASE q # r
    <3>1. snaps'[q] = snaps[q] /\ lastSet'[q] = lastSet[q] /\ q \notin garbled
      BY <1>4, <1>6, <2>2 DEF Replaces
    <3>2. HoldsValues(snaps[q], lastSet[q])
      BY <1>6, <3>1 DEF RegistriesInv, Exists
    <3> QED
      BY <3>1, <3>2
  <2> QED
    BY <2>1, <2>2
<1>7. lastSet' = [q \in Registries |-> [id \in HandleIds |-> lastSet'[q][id]]]
  BY DEF Replaces
<1> QED
  BY <1>1, <1>3, <1>5, <1>6, <1>7 DEF RegistriesInv, Exists

(* What a view shows stays within the bytes of its array.                  *)
Extends(r, u) ==
  /\ "heldView" \notin garbled' => "heldView" \notin garbled
  /\ \/ u.array # heldView.array
     \/ "heldView" \in garbled'
     \/ Exists(r) /\ u.array = snaps[r].array /\ Len(u.data) >= Len(snaps[r].data)

LEMMA ViewKeeps ==
  ASSUME RegistriesInv, ViewInv, heldView' = heldView, NEW r \in Registries, Exists(r), NEW u,
         SnapInv(u), StoreSnapshot(r, u), Extends(r, u)
  PROVE  ViewInv'
<1>1. /\ heldView \in [array : Nat, offset : Nat, bytes : Seq(Bytes), had : Seq(Bytes)]
      /\ "heldView" \notin garbled => heldView.bytes = heldView.had
  BY DEF ViewInv
<1>2. snaps'[r] = u /\ u # NoRegistry
  <2>1. u \in Snapshots
    BY DEF SnapInv
  <2>2. u # NoRegistry
    BY <2>1, FieldsOf
  <2> QED
    BY <2>2 DEF StoreSnapshot, RegistriesInv
<1>3. ASSUME NEW q \in Registries, "heldView" \notin garbled', snaps'[q].array = heldView.array,
             \A p \in Registries \ {q} : snaps'[p] = NoRegistry
      PROVE  heldView.offset + Len(heldView.bytes) <= Len(snaps'[q].data)
  <2>1. q = r
    BY <1>2, <1>3
  <2>2. u.array = snaps[r].array /\ Len(u.data) >= Len(snaps[r].data) /\ "heldView" \notin garbled
    BY <1>2, <1>3, <2>1 DEF Extends
  <2>3. \A p \in Registries \ {r} : ~Exists(p)
    BY <1>3, <2>1 DEF StoreSnapshot, RegistriesInv, Exists
  <2>4. heldView.offset + Len(heldView.bytes) <= Len(snaps[r].data)
    BY <1>2, <1>3, <2>1, <2>2, <2>3 DEF ViewInv
  <2>5. PICK a, b, c : /\ a = heldView.offset + Len(heldView.bytes)
                       /\ b = Len(snaps[r].data) /\ c = Len(u.data)
    OBVIOUS
  <2>6. a \in Nat /\ b \in Nat /\ c \in Nat
    <3>1. snaps[r].data \in Seq(Bytes) /\ u.data \in Seq(Bytes)
      BY FieldsOf DEF RegistriesInv, SnapInv
    <3>2. heldView.bytes \in Seq(Bytes) /\ heldView.offset \in Nat
      BY <1>1
    <3>3. \A d \in Seq(Bytes) : Len(d) \in Nat
      OBVIOUS
    <3>4. Len(heldView.bytes) \in Nat
      BY <3>2, <3>3
    <3>5. b \in Nat /\ c \in Nat
      BY <2>5, <3>1, <3>3
    <3> QED
      BY <2>5, <3>2, <3>4, <3>5
  <2>7. a <= b /\ b <= c
    BY <2>2, <2>4, <2>5, <2>6
  <2> QED
    BY <1>2, <2>1, <2>5, <2>6, <2>7
<1>4. "heldView" \notin garbled' => heldView.bytes = heldView.had
  BY <1>1 DEF Extends
<1> QED
  BY <1>1, <1>3, <1>4 DEF ViewInv, Exists

----------------------------------------------------------------------------
(* Defragment and Clear.                                                   *)

LEMMA ExistingIs ==
  ASSUME RegistriesInv, NEW r \in Registries, Exists(r), NEW s, s = snaps[r]
  PROVE  /\ SnapInv(s) /\ s \in Snapshots
         /\ r \notin garbled => HoldsValues(s, lastSet[r])
BY DEF RegistriesInv, SnapInv

LEMMA DefragmentKeeps ==
  ASSUME HandlesInv, NEW r \in Registries, Defragment(r)
  PROVE  HandlesInv'
<1>1. PICK s : s = snaps[r]
  OBVIOUS
<1>2. /\ RegistriesInv /\ ViewInv /\ Exists(r) /\ SnapInv(s) /\ s \in Snapshots
      /\ r \notin garbled => HoldsValues(s, lastSet[r])
  BY <1>1, ExistingIs DEF HandlesInv, Defragment
<1>3. PICK x, a : x = Compacted(s) /\ a = NewArray(r)
  OBVIOUS
<1>4. PICK u : u = IF s.entries = <<>>
                   THEN [s EXCEPT !.data = <<>>, !.holes = <<>>]
                   ELSE [s EXCEPT !.array = a, !.holes = <<>>, !.data = x.data, !.slots = x.slots]
  OBVIOUS
<1>5. /\ StoreSnapshot(r, u) /\ heldView' = heldView /\ lastSet' = lastSet
      /\ garbled' = IF s.entries = <<>> /\ heldView.array = s.array
                    THEN garbled \union {"heldView"} ELSE garbled
  BY <1>1, <1>3, <1>4 DEF Defragment
<1>6. /\ SnapInv(u) /\ Handles(u) = Handles(s)
      /\ \A h \in Handles(s) : ValueIn(u, h) = ValueIn(s, h)
      /\ u.array = heldView.array => s.entries = <<>> /\ s.array = heldView.array
  <2>1. CASE s.entries = <<>>
    <3>1. /\ u.array = s.array /\ u.data = <<>> /\ u.slots = s.slots /\ u.free = s.free
          /\ u.entries = s.entries /\ u.holes = <<>> /\ u.index = s.index
      BY <1>2, <1>4, <2>1 DEF Snapshots
    <3>2. u \in Snapshots
      <4>1. PICK none : none = <<>>
        OBVIOUS
      <4>2. none \in Seq(Bytes) /\ none \in Seq(Holes)
        BY <4>1
      <4>3. u = [s EXCEPT !.data = none, !.holes = none]
        BY <1>4, <2>1, <4>1
      <4> QED
        BY <1>2, <4>2, <4>3 DEF Snapshots
    <3>3. Handles(u) = Handles(s) /\ Handles(s) = {}
      BY <2>1, <3>1 DEF Handles, ToSet
    <3>4. SlotsInv(u)
      BY <1>2, <3>1, <3>3 DEF SnapInv, SlotsInv
    <3>5. LayoutInv(u)
      BY <3>1, <3>3, SizesAssumption DEF LayoutInv
    <3> QED
      BY <1>2, <2>1, <3>1, <3>2, <3>3, <3>4, <3>5 DEF SnapInv
  <2>2. CASE s.entries # <<>>
    <3>1. /\ u.array = a /\ u.data = x.data /\ u.slots = x.slots /\ u.free = s.free
          /\ u.entries = s.entries /\ u.holes = <<>> /\ u.index = s.index
      BY <1>2, <1>4, <2>2 DEF Snapshots
    <3>2. x.slots \in Seq(Nat) /\ x.data \in Seq(Bytes) /\ a \in Nat
      <4>1. PICK n \in Nat : n = Len(s.entries)
        BY <1>2, FieldsOf
      <4>2. Gathered(s, n, x)
        BY <1>2, <1>3, <4>1, CompactedIs DEF Compacts
      <4> QED
        BY <1>3, <4>2, NewArrayIs DEF Gathered
    <3>3. u \in Snapshots
      <4>1. PICK xs, xd, none : xs = x.slots /\ xd = x.data /\ none = <<>>
        OBVIOUS
      <4>2. xs \in Seq(Nat) /\ xd \in Seq(Bytes) /\ none \in Seq(Holes)
        BY <3>2, <4>1
      <4>3. u = [s EXCEPT !.array = a, !.holes = none, !.data = xd, !.slots = xs]
        BY <1>4, <2>2, <4>1
      <4> QED
        BY <1>2, <3>2, <4>2, <4>3 DEF Snapshots
    <3>4. SnapInv(u) /\ Handles(u) = Handles(s) /\ \A h \in Handles(s) : ValueIn(u, h) = ValueIn(s, h)
      BY <1>2, <1>3, <3>1, <3>3, CompactedKeeps
    <3> QED
      BY <1>3, <3>1, <3>4, NewArrayIs
  <2> QED
    BY <2>1, <2>2
<1>7. r \notin garbled' => HoldsValues(u, lastSet'[r])
  BY <1>2, <1>5, <1>6, HoldsSame
<1>8. Replaces(r, u)
  <2>1. lastSet' = [q \in Registries |-> [id \in HandleIds |-> lastSet'[q][id]]]
    BY <1>2, <1>5 DEF RegistriesInv
  <2>2. \A q \in Registries : q \notin garbled' => q \notin garbled
    BY <1>5
  <2> QED
    BY <1>5, <1>6, <1>7, <2>1, <2>2 DEF Replaces
<1>9. RegistriesInv'
  BY <1>2, <1>8, ReplacesKeeps
<1>10. Extends(r, u)
  BY <1>5, <1>6 DEF Extends
<1>11. ViewInv'
  BY <1>2, <1>5, <1>6, <1>10, ViewKeeps
<1> QED
  BY <1>9, <1>11 DEF HandlesInv

LEMMA ClearAllKeeps ==
  ASSUME HandlesInv, NEW r \in Registries, ClearAll(r)
  PROVE  HandlesInv'
<1>1. PICK a, u : a = NewArray(r) /\ u = NewSnapshot(a)
  OBVIOUS
<1>2. a \in Nat /\ a # heldView.array
  BY <1>1, NewArrayIs
<1>3. SnapInv(u) /\ Handles(u) = {} /\ u.array = a /\ u.data = <<>>
  BY <1>1, <1>2, NewSnapshotIs
<1>4. /\ RegistriesInv /\ ViewInv /\ Exists(r) /\ StoreSnapshot(r, u) /\ heldView' = heldView
      /\ lastSet' = [lastSet EXCEPT ![r] = [i \in HandleIds |-> NoBytes]]
      /\ garbled' = garbled \ {r}
  BY <1>1 DEF HandlesInv, ClearAll
<1>5. /\ lastSet' = [q \in Registries |-> [id \in HandleIds |-> lastSet'[q][id]]]
      /\ lastSet'[r] = [i \in HandleIds |-> NoBytes]
      /\ \A q \in Registries \ {r} : lastSet'[q] = lastSet[q]
  BY <1>4 DEF RegistriesInv
<1>6. HoldsValues(u, lastSet'[r])
  BY <1>3, <1>5 DEF HoldsValues
<1>7. Replaces(r, u)
  BY <1>3, <1>4, <1>5, <1>6 DEF Replaces
<1>8. RegistriesInv'
  BY <1>4, <1>7, ReplacesKeeps
<1>9. Extends(r, u)
  BY <1>2, <1>3, <1>4, RegistriesAssumption DEF Extends
<1>10. ViewInv'
  BY <1>3, <1>4, <1>9, ViewKeeps
<1> QED
  BY <1>8, <1>10 DEF HandlesInv

----------------------------------------------------------------------------
(* ImportExport and CloneRegistry.                                         *)

(* The slots that are kept are those up to the last one in use.            *)
Starts(s, x, sl) ==
  LET used == {s.entries[j].slot : j \in DOMAIN s.entries}
  IN x = Compacted(s) /\ sl = [n \in 1 .. (IF used = {} THEN 0 ELSE Max(used)) |-> x.slots[n]]

LEMMA StartsAre ==
  ASSUME NEW s, SnapInv(s), NEW x, NEW sl, Starts(s, x, sl)
  PROVE  /\ sl \in Seq(Nat)
         /\ \A h \in Handles(s) : h.slot \in DOMAIN sl /\ sl[h.slot] = x.slots[h.slot]
<1> PICK used : used = {s.entries[j].slot : j \in DOMAIN s.entries}
  OBVIOUS
<1>0. x = Compacted(s) /\ sl = [n \in 1 .. (IF used = {} THEN 0 ELSE Max(used)) |-> x.slots[n]]
  BY DEF Starts
<1>1. PICK n \in Nat : n = Len(s.entries)
  BY FieldsOf DEF SnapInv
<1>2. Gathered(s, n, x)
  BY <1>0, <1>1, CompactedIs DEF Compacts
<1>3. PICK xs, m : xs = x.slots /\ m = Len(xs)
  OBVIOUS
<1>4. xs \in Seq(Nat) /\ m \in Nat /\ m = Len(s.slots) /\ DOMAIN xs = 1 .. m
  BY <1>2, <1>3 DEF Gathered
<1>5. DOMAIN s.slots = 1 .. m
  <2>1. s.slots \in Seq(Nat)
    BY FieldsOf DEF SnapInv
  <2> QED
    BY <1>4, <2>1
<1>6. \A h \in Handles(s) : h.slot \in 1 .. m /\ h.slot \in used
  <2>1. \A h \in Handles(s) : h.slot \in 1 .. m
    BY <1>5, EntryIs
  <2>2. \A h \in Handles(s) : h.slot \in used
    BY EntriesDiffer
  <2> QED
    BY <2>1, <2>2
<1>7. used \subseteq 0 .. m
  <2>1. \A j \in DOMAIN s.entries : s.entries[j] \in Handles(s)
    BY EntriesDiffer
  <2> QED
    BY <1>6, <2>1
<1>8. PICK top : top = IF used = {} THEN 0 ELSE Max(used)
  OBVIOUS
<1>9. top \in 0 .. m /\ \A k \in used : top >= k
  <2>1. CASE used = {}
    <3>1. top = 0
      BY <1>8, <2>1
    <3>2. m \in Nat
      BY <1>4
    <3> QED
      BY <2>1, <3>1, <3>2
  <2>2. CASE used # {}
    <3>1. m \in Nat
      BY <1>4
    <3>2. Max(used) \in used /\ \A k \in used : Max(used) >= k
      BY <1>7, <2>2, <3>1, MaxIs
    <3> QED
      BY <1>7, <1>8, <2>2, <3>2
  <2> QED
    BY <2>1, <2>2
<1>10. sl = [k \in 1 .. top |-> xs[k]]
  BY <1>0, <1>3, <1>8
<1>11. sl \in Seq(Nat)
  <2>1. top \in Nat /\ \A k \in 1 .. top : xs[k] \in Nat
    BY <1>4, <1>9
  <2>2. sl \in [1 .. top -> Nat]
    BY <1>10, <2>1
  <2> QED
    BY <2>1, <2>2, SeqDef
<1>12. ASSUME NEW h \in Handles(s) PROVE h.slot \in DOMAIN sl /\ sl[h.slot] = xs[h.slot]
  <2>1. PICK k : k = h.slot
    OBVIOUS
  <2>2. k \in 1 .. top
    BY <1>4, <1>6, <1>9, <2>1
  <2>3. k \in DOMAIN sl /\ sl[k] = xs[k]
    BY <1>10, <2>2
  <2> QED
    BY <2>1, <2>3
<1> QED
  BY <1>3, <1>11, <1>12

LEMMA ImportedKeeps ==
  ASSUME NEW s, SnapInv(s), NEW x, x = Compacted(s), NEW u, u \in Snapshots,
         u.data = s.data, u.free = <<>>, u.entries = s.entries, u.holes = <<>>,
         u.index = Indexing(s)[Len(s.entries)],
         \A h \in Handles(s) : h.slot \in DOMAIN u.slots /\ u.slots[h.slot] = x.slots[h.slot]
  PROVE  /\ SnapInv(u) /\ Handles(u) = Handles(s)
         /\ x.slots = s.slots => \A h \in Handles(s) : ValueIn(u, h) = ValueIn(s, h)
<1>1. PICK n \in Nat : n = Len(s.entries) /\ DOMAIN s.entries = 1 .. n
  BY EntriesDiffer
<1>2. Gathered(s, n, x) /\ Len(x.data) <= Len(s.data)
  BY <1>1, CompactedIs DEF Compacts
<1>3. Handles(u) = Handles(s) /\ \A h \in Handles(s) : \E i \in 1 .. n : h = s.entries[i]
  <2>1. Handles(u) = Handles(s)
    BY Zenon DEF Handles
  <2>2. \A h \in Handles(s) : \E i \in DOMAIN s.entries : h = s.entries[i]
    BY EntriesDiffer, Zenon
  <2> QED
    BY <1>1, <2>1, <2>2, Zenon
<1>4. SlotsInv(u)
  <2>1. \A h \in Handles(u) : \A g \in Handles(u) : g.slot = h.slot => g = h
    BY <1>3 DEF SnapInv, SlotsInv
  <2>2. \A h \in Handles(u) : h.slot \in DOMAIN u.slots
    BY <1>3
  <2>3. DOMAIN u.free = {}
    OBVIOUS
  <2> QED
    BY <2>1, <2>2, <2>3 DEF SlotsInv
<1>5. \A h \in Handles(s) : PieceOf(u, h) = PieceOf(x, h)
  BY DEF PieceOf
<1>6. ASSUME NEW h \in Handles(s)
      PROVE  /\ Within(u, PieceOf(u, h))
             /\ \A g \in Handles(s) : g # h => Apart(PieceOf(u, g), PieceOf(u, h))
  <2>1. PICK i \in 1 .. n : h = s.entries[i]
    BY <1>3
  <2>2. PICK o, l, b, c : /\ o = x.slots[h.slot] /\ l = h.length
                          /\ b = Len(x.data) /\ c = Len(s.data)
    OBVIOUS
  <2>3. o + l <= b /\ b <= c
    BY <1>2, <2>1, <2>2 DEF Gathered
  <2>4. o \in Nat /\ l \in Nat /\ b \in Nat /\ c \in Nat
    <3>1. h.slot \in DOMAIN s.slots /\ l \in Nat /\ c \in Nat /\ s.slots \in Seq(Nat)
      BY <2>2, EntryIs, FieldsOf DEF SnapInv
    <3>2. PICK xs, xd : xs = x.slots /\ xd = x.data
      OBVIOUS
    <3>3. xs \in Seq(Nat) /\ Len(xs) = Len(s.slots) /\ xd \in Seq(Bytes)
      BY <1>2, <3>2 DEF Gathered
    <3>4. h.slot \in DOMAIN xs /\ Len(xd) \in Nat
      BY <3>1, <3>3
    <3>5. xs[h.slot] \in Nat
      BY <3>3, <3>4
    <3> QED
      BY <2>2, <3>1, <3>2, <3>4, <3>5
  <2>5. o + l <= c
    BY <2>3, <2>4
  <2>6. Within(u, PieceOf(u, h))
    BY <2>2, <2>5, PieceIs DEF Within
  <2>7. ASSUME NEW g \in Handles(s), g # h PROVE Apart(PieceOf(u, g), PieceOf(u, h))
    <3>1. PICK k \in 1 .. n : g = s.entries[k]
      BY <1>3
    <3>2. Apart(PieceOf(x, g), PieceOf(x, h))
      BY <1>2, <2>1, <2>7, <3>1 DEF Gathered
    <3> QED
      BY <1>5, <3>2
  <2> QED
    BY <2>6, <2>7
<1>7. LayoutInv(u)
  BY <1>3, <1>6 DEF SnapInv, LayoutInv
<1>8. IndexFor(u.index, u.entries)
  BY IndexingFinds
<1>9. x.slots = s.slots => \A h \in Handles(s) : ValueIn(u, h) = ValueIn(s, h)
  BY DEF ValueIn
<1> QED
  BY <1>3, <1>4, <1>7, <1>8, <1>9 DEF SnapInv

LEMMA ImportExportKeeps ==
  ASSUME HandlesInv, NEW r \in Registries, ImportExport(r)
  PROVE  HandlesInv'
<1>1. PICK s : s = snaps[r]
  OBVIOUS
<1>2. /\ RegistriesInv /\ ViewInv /\ Exists(r) /\ SnapInv(s) /\ s \in Snapshots
      /\ r \notin garbled => HoldsValues(s, lastSet[r])
  BY <1>1, ExistingIs DEF HandlesInv, ImportExport
<1>3. PICK x, a, used, t :
        /\ x = Compacted(s) /\ a = NewArray(r)
        /\ used = {s.entries[j].slot : j \in DOMAIN s.entries}
        /\ t = Indexing(s)[Len(s.entries)]
  OBVIOUS
<1>4. PICK sl : Starts(s, x, sl)
                /\ sl = [n \in 1 .. (IF used = {} THEN 0 ELSE Max(used)) |-> x.slots[n]]
  BY <1>3 DEF Starts
<1>5. PICK u, none : none = <<>> /\ u = [s EXCEPT !.array = a, !.slots = sl, !.free = none,
                                                 !.holes = none, !.index = t]
  OBVIOUS
<1>6. /\ StoreSnapshot(r, u) /\ heldView' = heldView /\ lastSet' = lastSet
      /\ garbled' = IF InOrder(s) THEN garbled ELSE garbled \union {r}
  BY <1>1, <1>3, <1>4, <1>5 DEF ImportExport
<1>7. /\ a \in Nat /\ a # heldView.array /\ sl \in Seq(Nat) /\ t \in Seq(Cells)
      /\ none \in Seq(Nat) /\ none \in Seq(Holes)
  <2>1. sl \in Seq(Nat)
    BY <1>2, <1>4, StartsAre
  <2>2. IndexFor(t, s.entries)
    BY <1>2, <1>3, IndexingFinds
  <2>3. t \in Seq(Cells)
    BY <2>2 DEF IndexFor, GoodTable
  <2> QED
    BY <1>3, <1>5, <2>1, <2>3, NewArrayIs
<1>8. u \in Snapshots
  BY <1>2, <1>5, <1>7 DEF Snapshots
<1>9. /\ u.array = a /\ u.data = s.data /\ u.slots = sl /\ u.free = <<>>
      /\ u.entries = s.entries /\ u.holes = <<>> /\ u.index = t
  BY <1>2, <1>5 DEF Snapshots
<1>10. /\ SnapInv(u) /\ Handles(u) = Handles(s)
       /\ x.slots = s.slots => \A h \in Handles(s) : ValueIn(u, h) = ValueIn(s, h)
  <2>1. \A h \in Handles(s) : h.slot \in DOMAIN u.slots /\ u.slots[h.slot] = x.slots[h.slot]
    <3>1. Starts(s, x, sl) /\ SnapInv(s)
      BY <1>2, <1>4
    <3>2. \A h \in Handles(s) : h.slot \in DOMAIN sl /\ sl[h.slot] = x.slots[h.slot]
      BY <3>1, StartsAre
    <3> QED
      BY <1>9, <3>2
  <2> QED
    BY <1>2, <1>3, <1>8, <1>9, <2>1, ImportedKeeps
<1>11. ASSUME r \notin garbled' PROVE HoldsValues(u, lastSet'[r])
  <2>1. InOrder(s) /\ r \notin garbled
    BY <1>6, <1>11
  <2>2. x.slots = s.slots
    BY <1>3, <2>1 DEF InOrder
  <2> QED
    BY <1>2, <1>6, <1>10, <2>1, <2>2, HoldsSame
<1>12. Replaces(r, u)
  <2>1. lastSet' = [q \in Registries |-> [id \in HandleIds |-> lastSet'[q][id]]]
    BY <1>2, <1>6 DEF RegistriesInv
  <2> QED
    BY <1>6, <1>10, <1>11, <2>1 DEF Replaces
<1>13. RegistriesInv'
  BY <1>2, <1>12, ReplacesKeeps
<1>14. Extends(r, u)
  BY <1>6, <1>7, <1>9 DEF Extends
<1>15. ViewInv'
  BY <1>2, <1>6, <1>10, <1>14, ViewKeeps
<1> QED
  BY <1>13, <1>15 DEF HandlesInv

LEMMA CloneRegistryKeeps ==
  ASSUME HandlesInv, NEW r \in Registries, NEW q \in Registries, CloneRegistry(r, q)
  PROVE  HandlesInv'
<1>1. PICK s : s = snaps[r]
  OBVIOUS
<1>2. /\ RegistriesInv /\ ViewInv /\ Exists(r) /\ ~Exists(q) /\ r # q
      /\ SnapInv(s) /\ s \in Snapshots
      /\ r \notin garbled => HoldsValues(s, lastSet[r])
  BY <1>1, ExistingIs DEF HandlesInv, CloneRegistry
<1>3. /\ StoreSnapshot(q, s) /\ heldView' = heldView
      /\ lastSet' = [lastSet EXCEPT ![q] = lastSet[r]]
      /\ garbled' = IF r \in garbled THEN garbled \union {q} ELSE garbled
  BY <1>1 DEF CloneRegistry
<1>4. /\ lastSet' = [p \in Registries |-> [id \in HandleIds |-> lastSet'[p][id]]]
      /\ lastSet'[q] = lastSet[r]
      /\ \A p \in Registries \ {q} : lastSet'[p] = lastSet[p]
  BY <1>2, <1>3 DEF RegistriesInv
<1>5. Replaces(q, s)
  BY <1>2, <1>3, <1>4 DEF Replaces
<1>6. RegistriesInv'
  BY <1>2, <1>5, ReplacesKeeps
<1>7. ViewInv'
  <2>1. snaps'[r] # NoRegistry /\ snaps'[q] # NoRegistry
    <3>1. s # NoRegistry
      BY <1>2, FieldsOf
    <3>2. snaps' = [snaps EXCEPT ![q] = s] /\ snaps \in [Registries -> Snapshots \union {NoRegistry}]
      BY <1>2, <1>3 DEF StoreSnapshot, RegistriesInv
    <3> QED
      BY <1>1, <1>2, <3>1, <3>2
  <2>2. \A p \in Registries : \E o \in Registries \ {p} : snaps'[o] # NoRegistry
    BY <1>2, <2>1
  <2>3. "heldView" \notin garbled' => "heldView" \notin garbled
    BY <1>3
  <2> QED
    BY <1>2, <1>3, <2>2, <2>3 DEF ViewInv, Exists
<1> QED
  BY <1>6, <1>7 DEF HandlesInv

----------------------------------------------------------------------------
(* GetView, DeleteId and UpdateHandle.                                     *)

LEMMA ReadIs ==
  ASSUME NEW s, SnapInv(s), NEW id \in HandleIds
  PROVE  \/ ReadValue(s, id) = NoBytes /\ \A h \in Handles(s) : h.id # id
         \/ \E h \in Handles(s) : /\ h.id = id /\ h = s.entries[LookupId(s.index, id)]
                                  /\ ReadValue(s, id) = ValueIn(s, h)
<1>1. PICK pos, e, t : pos = LookupId(s.index, id) /\ e = s.entries /\ t = s.index
  OBVIOUS
<1>2. e \in Seq(HandleValues) /\ IndexFor(t, e) /\ pos = LookupId(t, id)
  BY <1>1, FieldsOf DEF SnapInv
<1>3. /\ pos = 0 => \A h \in ToSet(e) : h.id # id
      /\ pos # 0 => pos \in DOMAIN e /\ e[pos] \in ToSet(e) /\ e[pos].id = id
  BY <1>2, IndexFinds
<1>4. CASE pos = 0
  <2>1. ReadValue(s, id) = NoBytes
    BY <1>1, <1>4 DEF ReadValue
  <2> QED
    BY <1>1, <1>3, <1>4, <2>1 DEF Handles
<1>5. CASE pos # 0
  <2>1. PICK h, o, l, m : h = e[pos] /\ o = s.slots[h.slot] /\ l = h.length /\ m = Len(s.data)
    OBVIOUS
  <2>2. h \in Handles(s) /\ h.id = id
    BY <1>1, <1>3, <1>5, <2>1 DEF Handles
  <2>3. o \in Nat /\ l \in Nat /\ m \in Nat /\ o + l <= m
    BY <2>1, <2>2, EntryIs
  <2>4. m <= MaxBytes /\ MaxBytes \in Nat
    BY <2>1, SizesAssumption DEF SnapInv, LayoutInv
  <2>5. o # Dead /\ ~(o + l > m)
    BY <2>3, <2>4 DEF Dead
  <2>6. ReadValue(s, id) = ValueIn(s, h)
    BY <1>1, <1>5, <2>1, <2>5 DEF ReadValue, ValueIn
  <2> QED
    BY <1>1, <2>1, <2>2, <2>6
<1> QED
  BY <1>4, <1>5

LEMMA GetViewKeeps ==
  ASSUME HandlesInv, NEW r \in Registries, NEW id \in HandleIds, GetView(r, id)
  PROVE  HandlesInv'
<1>1. PICK s, b : s = snaps[r] /\ b = ReadValue(s, id)
  OBVIOUS
<1>2. RegistriesInv /\ ViewInv /\ Exists(r) /\ SnapInv(s) /\ s \in Snapshots /\ b # NoBytes
  BY <1>1, ExistingIs DEF HandlesInv, GetView
<1>3. PICK h \in Handles(s) : h = s.entries[LookupId(s.index, id)] /\ b = ValueIn(s, h)
  BY <1>1, <1>2, ReadIs
<1>4. PICK o, l, d : o = s.slots[h.slot] /\ l = h.length /\ d = s.data
  OBVIOUS
<1>5. o \in Nat /\ l \in Nat /\ d \in Seq(Bytes) /\ o + l <= Len(d)
  BY <1>2, <1>4, EntryIs
<1>6. b \in Seq(Bytes) /\ Len(b) = l
  <2>1. b = BytesAt(d, o, l)
    BY <1>3, <1>4 DEF ValueIn
  <2> QED
    BY <1>5, <2>1, BytesAtIs
<1>7. /\ heldView' = [array |-> s.array, offset |-> o, bytes |-> b, had |-> b]
      /\ snaps' = snaps /\ lastSet' = lastSet /\ garbled' = garbled
  BY <1>1, <1>3, <1>4 DEF GetView
<1>8. RegistriesInv'
  BY <1>2, <1>7 DEF RegistriesInv, Exists
<1>9. s.array \in Nat
  BY <1>2, FieldsOf
<1>10. /\ heldView' \in [array : Nat, offset : Nat, bytes : Seq(Bytes), had : Seq(Bytes)]
       /\ heldView'.bytes = heldView'.had /\ heldView'.offset = o /\ heldView'.bytes = b
  BY <1>5, <1>6, <1>7, <1>9
<1>11. ASSUME NEW q \in Registries, \A p \in Registries \ {q} : snaps'[p] = NoRegistry
       PROVE  heldView'.offset + Len(heldView'.bytes) <= Len(snaps'[q].data)
  <2>1. q = r
    BY <1>2, <1>7, <1>11 DEF Exists
  <2> QED
    BY <1>1, <1>4, <1>5, <1>6, <1>7, <1>10, <2>1
<1>12. ViewInv'
  BY <1>10, <1>11 DEF ViewInv, Exists
<1> QED
  BY <1>8, <1>12 DEF HandlesInv

LEMMA ExpectIs ==
  ASSUME RegistriesInv, NEW r \in Registries, NEW id \in HandleIds, NEW v, Expect(r, id, v)
  PROVE  /\ lastSet' = [q \in Registries |-> [i \in HandleIds |-> lastSet'[q][i]]]
         /\ lastSet'[r][id] = v
         /\ \A i \in HandleIds : i # id => lastSet'[r][i] = lastSet[r][i]
         /\ \A q \in Registries \ {r} : lastSet'[q] = lastSet[q]
<1>1. PICK old : old = lastSet[r]
  OBVIOUS
<1>2. PICK new : new = [old EXCEPT ![id] = v]
  OBVIOUS
<1>3. /\ lastSet = [q \in Registries |-> [i \in HandleIds |-> lastSet[q][i]]]
      /\ lastSet' = [lastSet EXCEPT ![r] = new]
  BY <1>1, <1>2 DEF RegistriesInv, Expect
<1>4. old = [i \in HandleIds |-> old[i]]
  BY <1>1, <1>3
<1>5. /\ new = [i \in HandleIds |-> new[i]] /\ new[id] = v
      /\ \A i \in HandleIds : i # id => new[i] = old[i]
  BY <1>2, <1>4
<1>6. lastSet'[r] = new /\ \A q \in Registries \ {r} : lastSet'[q] = lastSet[q]
  BY <1>3
<1>7. \A q \in Registries : lastSet'[q] = [i \in HandleIds |-> lastSet'[q][i]]
  BY <1>3, <1>5, <1>6
<1>8. lastSet' = [q \in Registries |-> lastSet'[q]]
  BY <1>3
<1>9. lastSet' = [q \in Registries |-> [i \in HandleIds |-> lastSet'[q][i]]]
  BY <1>7, <1>8
<1> QED
  BY <1>1, <1>5, <1>6, <1>9

LEMMA DeleteIdKeeps ==
  ASSUME HandlesInv, NEW r \in Registries, NEW id \in HandleIds, DeleteId(r, id)
  PROVE  HandlesInv'
<1>1. PICK s : s = snaps[r]
  OBVIOUS
<1>2. /\ RegistriesInv /\ ViewInv /\ Exists(r) /\ SnapInv(s) /\ s \in Snapshots
      /\ r \notin garbled => HoldsValues(s, lastSet[r])
  BY <1>1, ExistingIs DEF HandlesInv, DeleteId
<1>3. PICK u : u = WithoutId(s, id)
  OBVIOUS
<1>4. Removed(s, u, id) /\ u.array = s.array /\ u.data = s.data
  BY <1>2, <1>3, WithoutIdRemoves
<1>5. /\ StoreSnapshot(r, u) /\ Expect(r, id, NoBytes)
      /\ heldView' = heldView /\ garbled' = garbled
  BY <1>1, <1>3 DEF DeleteId
<1>6. /\ lastSet' = [q \in Registries |-> [i \in HandleIds |-> lastSet'[q][i]]]
      /\ lastSet'[r][id] = NoBytes
      /\ \A i \in HandleIds : i # id => lastSet'[r][i] = lastSet[r][i]
      /\ \A q \in Registries \ {r} : lastSet'[q] = lastSet[q]
  BY <1>2, <1>5, ExpectIs
<1>7. SnapInv(u)
  BY <1>4 DEF Removed
<1>8. r \notin garbled => HoldsValues(u, lastSet'[r])
  BY <1>2, <1>4, <1>6, RemovedHolds
<1>9. Replaces(r, u)
  BY <1>5, <1>6, <1>7, <1>8 DEF Replaces
<1>10. RegistriesInv'
  BY <1>2, <1>9, ReplacesKeeps
<1>11. Extends(r, u)
  <2>1. Len(u.data) >= Len(s.data)
    <3>1. PICK m : m = Len(s.data)
      OBVIOUS
    <3>2. s.data \in Seq(Bytes)
      BY <1>2, FieldsOf
    <3>3. m \in Nat
      BY <3>1, <3>2
    <3> QED
      BY <1>4, <3>1, <3>3
  <2> QED
    BY <1>1, <1>2, <1>4, <1>5, <2>1 DEF Extends
<1>12. ViewInv'
  BY <1>2, <1>5, <1>7, <1>11, ViewKeeps
<1> QED
  BY <1>10, <1>12 DEF HandlesInv

(* One handle is shorter than it was.                                      *)
Shortens(s, pos, length, u) ==
  /\ SnapInv(s) /\ pos \in DOMAIN s.entries /\ length \in Nat
  /\ length <= s.entries[pos].length
  /\ u = [s EXCEPT !.entries[pos].length = length]
CutsValue(old, new, id, length) ==
  /\ new[id] = SubSeq(old[id], 1, length)
  /\ \A x \in HandleIds : x # id => new[x] = old[x]

LEMMA ShorterIs ==
  ASSUME NEW s, NEW pos, NEW length, NEW u, Shortens(s, pos, length, u)
  PROVE  /\ u \in Snapshots /\ u.array = s.array /\ u.data = s.data /\ u.slots = s.slots
         /\ u.free = s.free /\ u.holes = s.holes /\ u.index = s.index
         /\ DOMAIN u.entries = DOMAIN s.entries
         /\ u.entries[pos].length = length
         /\ \A j \in DOMAIN s.entries :
              /\ u.entries[j].slot = s.entries[j].slot /\ u.entries[j].id = s.entries[j].id
              /\ u.entries[j].length \in Nat /\ u.entries[j].length <= s.entries[j].length
              /\ j # pos => u.entries[j] = s.entries[j]
<1>1. s \in Snapshots /\ pos \in DOMAIN s.entries /\ length \in Nat
  BY DEF Shortens, SnapInv
<1>2. PICK e, h : e = s.entries /\ h = e[pos]
  OBVIOUS
<1>3. e \in Seq(HandleValues) /\ pos \in DOMAIN e
  BY <1>1, <1>2, FieldsOf
<1>4. h \in HandleValues /\ \A j \in DOMAIN e : e[j] \in HandleValues
  BY <1>2, <1>3
<1>5. \A k \in HandleValues : k.length \in Nat
  BY DEF HandleValues
<1>6. PICK g : g = [h EXCEPT !.length = length]
  OBVIOUS
<1>7. g \in HandleValues /\ g.slot = h.slot /\ g.id = h.id /\ g.length = length
  BY <1>1, <1>4, <1>6 DEF HandleValues
<1>8. PICK f : f = [e EXCEPT ![pos] = g]
  OBVIOUS
<1>9. /\ f \in Seq(HandleValues) /\ DOMAIN f = DOMAIN e /\ f[pos] = g
      /\ \A j \in DOMAIN e : j # pos => f[j] = e[j]
  BY <1>3, <1>7, <1>8
<1>10. u = [s EXCEPT !.entries = f]
  BY <1>2, <1>6, <1>8 DEF Shortens
<1>11. u \in Snapshots
  BY <1>1, <1>9, <1>10 DEF Snapshots
<1>12. /\ u.array = s.array /\ u.data = s.data /\ u.slots = s.slots
       /\ u.free = s.free /\ u.holes = s.holes /\ u.index = s.index /\ u.entries = f
  BY <1>1, <1>10 DEF Snapshots
<1>13. length <= h.length
  BY <1>2 DEF Shortens
<1>14. ASSUME NEW j \in DOMAIN e
       PROVE  /\ f[j].slot = e[j].slot /\ f[j].id = e[j].id
              /\ f[j].length \in Nat /\ f[j].length <= e[j].length
  <2>1. CASE j = pos
    BY <1>1, <1>2, <1>7, <1>9, <1>13, <2>1
  <2>2. CASE j # pos
    <3>1. f[j] = e[j] /\ e[j].length \in Nat
      BY <1>4, <1>5, <1>9, <2>2
    <3> QED
      BY <3>1
  <2> QED
    BY <2>1, <2>2
<1> QED
  BY <1>2, <1>7, <1>9, <1>11, <1>12, <1>14

LEMMA ShorterKeeps ==
  ASSUME NEW s, NEW pos, NEW length, NEW u, Shortens(s, pos, length, u)
  PROVE  SnapInv(u)
<1>1. SnapInv(s) /\ IndexFor(s.index, s.entries) /\ SlotsInv(s) /\ LayoutInv(s)
  BY DEF Shortens, SnapInv
<1>2. PICK e, f : e = s.entries /\ f = u.entries
  OBVIOUS
<1>3. /\ u \in Snapshots /\ u.data = s.data /\ u.slots = s.slots
      /\ u.free = s.free /\ u.holes = s.holes /\ u.index = s.index
      /\ DOMAIN f = DOMAIN e
      /\ \A j \in DOMAIN e : /\ f[j].slot = e[j].slot /\ f[j].id = e[j].id
                             /\ f[j].length \in Nat /\ f[j].length <= e[j].length
  BY <1>2, ShorterIs
<1>4. \A g \in Handles(u) : \E j \in DOMAIN e : g = f[j]
  BY <1>2, <1>3 DEF Handles, ToSet
<1>5. /\ \A j \in DOMAIN e : e[j] \in Handles(s)
      /\ \A j, k \in DOMAIN e : j # k => e[j] # e[k] /\ e[j].slot # e[k].slot
  BY <1>1, <1>2, EntriesDiffer
<1>6. IndexFor(u.index, f)
  BY <1>1, <1>2, <1>3 DEF IndexFor
<1>7. SlotsInv(u)
  <2>1. ASSUME NEW g \in Handles(u)
        PROVE  /\ g.slot \in DOMAIN u.slots
               /\ \A k \in Handles(u) : k.slot = g.slot => k = g
               /\ \A i \in DOMAIN u.free : g.slot # u.free[i]
    <3>1. PICK j \in DOMAIN e : g = f[j]
      BY <1>4
    <3>2. e[j] \in Handles(s) /\ g.slot = e[j].slot
      BY <1>3, <1>5, <3>1
    <3>3. g.slot \in DOMAIN u.slots /\ \A i \in DOMAIN u.free : g.slot # u.free[i]
      BY <1>1, <1>3, <3>2 DEF SlotsInv
    <3>4. ASSUME NEW k \in Handles(u), k.slot = g.slot PROVE k = g
      <4>1. PICK i \in DOMAIN e : k = f[i]
        BY <1>4
      <4>2. i = j
        BY <1>3, <1>5, <3>2, <3>4, <4>1
      <4> QED
        BY <3>1, <4>1, <4>2
    <3> QED
      BY <3>3, <3>4
  <2>2. \A i \in DOMAIN u.free :
          /\ u.free[i] \in DOMAIN u.slots
          /\ \A k \in DOMAIN u.free : u.free[k] = u.free[i] => k = i
    BY <1>1, <1>3 DEF SlotsInv
  <2> QED
    BY <2>1, <2>2 DEF SlotsInv
<1>8. ASSUME NEW j \in DOMAIN e
      PROVE  /\ Within(u, PieceOf(u, f[j]))
             /\ \A a \in Holes : Apart(a, PieceOf(s, e[j])) => Apart(a, PieceOf(u, f[j]))
             /\ \A k \in DOMAIN e : k # j => Apart(PieceOf(u, f[k]), PieceOf(u, f[j]))
  <2>1. e[j] \in Handles(s)
    BY <1>5
  <2>2. PICK o, l, m, n : /\ o = s.slots[e[j].slot] /\ l = e[j].length
                          /\ m = f[j].length /\ n = Len(s.data)
    OBVIOUS
  <2>3. o \in Nat /\ l \in Nat /\ n \in Nat /\ o + l <= n /\ m \in Nat /\ m <= l
    BY <1>1, <1>3, <2>1, <2>2, EntryIs
  <2>4. /\ PieceOf(s, e[j]).offset = o /\ PieceOf(s, e[j]).length = l
        /\ PieceOf(u, f[j]).offset = o /\ PieceOf(u, f[j]).length = m
    BY <1>3, <2>2, PieceIs
  <2>5. Within(u, PieceOf(u, f[j]))
    <3>1. o + m <= n
      BY <2>3
    <3> QED
      BY <1>3, <2>2, <2>4, <3>1 DEF Within
  <2>6. ASSUME NEW a \in Holes, Apart(a, PieceOf(s, e[j])) PROVE Apart(a, PieceOf(u, f[j]))
    <3>1. PICK x, y : x = a.offset /\ y = a.length
      OBVIOUS
    <3>2. x \in Nat /\ y \in Nat
      BY <3>1 DEF Holes
    <3>3. x + y <= o \/ o + l <= x
      BY <2>4, <2>6, <3>1 DEF Apart
    <3>4. x + y <= o \/ o + m <= x
      BY <2>3, <3>2, <3>3
    <3> QED
      BY <2>4, <3>1, <3>4 DEF Apart
  <2>7. ASSUME NEW k \in DOMAIN e, k # j PROVE Apart(PieceOf(u, f[k]), PieceOf(u, f[j]))
    <3>1. e[k] \in Handles(s) /\ Apart(PieceOf(s, e[k]), PieceOf(s, e[j]))
      BY <1>1, <1>5, <2>1, <2>7 DEF LayoutInv
    <3>2. PICK x, y, z : x = s.slots[e[k].slot] /\ y = e[k].length /\ z = f[k].length
      OBVIOUS
    <3>3. x \in Nat /\ y \in Nat /\ z \in Nat /\ z <= y
      BY <1>1, <1>3, <3>1, <3>2, EntryIs
    <3>4. /\ PieceOf(s, e[k]).offset = x /\ PieceOf(s, e[k]).length = y
          /\ PieceOf(u, f[k]).offset = x /\ PieceOf(u, f[k]).length = z
      BY <1>3, <3>2, PieceIs
    <3>5. x + y <= o \/ o + l <= x
      BY <2>4, <3>1, <3>4 DEF Apart
    <3>6. x + z <= o \/ o + m <= x
      BY <2>3, <3>3, <3>5
    <3> QED
      BY <2>4, <3>4, <3>6 DEF Apart
  <2> QED
    BY <2>5, <2>6, <2>7
<1>9. LayoutInv(u)
  <2>1. ASSUME NEW g \in Handles(u)
        PROVE  /\ Within(u, PieceOf(u, g))
               /\ \A k \in Handles(u) : k # g => Apart(PieceOf(u, k), PieceOf(u, g))
               /\ \A i \in DOMAIN u.holes : Apart(u.holes[i], PieceOf(u, g))
    <3>1. PICK j \in DOMAIN e : g = f[j]
      BY <1>4
    <3>2. Within(u, PieceOf(u, g))
      BY <1>8, <3>1
    <3>3. ASSUME NEW k \in Handles(u), k # g PROVE Apart(PieceOf(u, k), PieceOf(u, g))
      <4>1. PICK i \in DOMAIN e : k = f[i]
        BY <1>4
      <4>2. i # j
        BY <3>1, <3>3, <4>1
      <4> QED
        BY <1>8, <3>1, <4>1, <4>2
    <3>4. ASSUME NEW i \in DOMAIN u.holes PROVE Apart(u.holes[i], PieceOf(u, g))
      <4>1. PICK hs : hs = s.holes
        OBVIOUS
      <4>2. hs \in Seq(Holes) /\ i \in DOMAIN hs
        BY <1>1, <1>3, <4>1, FieldsOf DEF SnapInv
      <4>3. hs[i] \in Holes
        BY <4>2
      <4>4. Apart(hs[i], PieceOf(s, e[j]))
        BY <1>1, <1>5, <4>1, <4>2 DEF LayoutInv
      <4>5. Apart(hs[i], PieceOf(u, f[j]))
        BY <1>8, <4>3, <4>4
      <4> QED
        BY <1>3, <3>1, <4>1, <4>5
    <3> QED
      BY <3>2, <3>3, <3>4
  <2>2. \A a : Within(u, a) <=> Within(s, a)
    BY <1>3 DEF Within
  <2>3. /\ Len(u.data) <= MaxBytes
        /\ \A i \in DOMAIN u.holes :
             /\ Within(u, u.holes[i])
             /\ \A k \in DOMAIN u.holes : k # i => Apart(u.holes[i], u.holes[k])
    BY <1>1, <1>3, <2>2 DEF LayoutInv
  <2> QED
    BY <2>1, <2>3 DEF LayoutInv
<1> QED
  BY <1>2, <1>3, <1>6, <1>7, <1>9 DEF SnapInv

(* A shorter handle reads the first bytes of its value.                    *)
LEMMA ShorterHolds ==
  ASSUME NEW s, NEW pos, NEW length, NEW u, Shortens(s, pos, length, u),
         NEW id \in HandleIds, s.entries[pos].id = id, NEW old, HoldsValues(s, old),
         NEW new, CutsValue(old, new, id, length)
  PROVE  HoldsValues(u, new)
<1>0. new[id] = SubSeq(old[id], 1, length) /\ \A x \in HandleIds : x # id => new[x] = old[x]
  BY DEF CutsValue
<1>1. SnapInv(s) /\ pos \in DOMAIN s.entries /\ length \in Nat /\ length <= s.entries[pos].length
  BY DEF Shortens
<1>2. PICK e, f : e = s.entries /\ f = u.entries
  OBVIOUS
<1>3. /\ u.data = s.data /\ u.slots = s.slots /\ DOMAIN f = DOMAIN e /\ f[pos].length = length
      /\ \A j \in DOMAIN e : /\ f[j].slot = e[j].slot /\ f[j].id = e[j].id
                             /\ j # pos => f[j] = e[j]
  BY <1>2, ShorterIs
<1>4. /\ \A g \in Handles(u) : \E j \in DOMAIN e : g = f[j]
      /\ \A j \in DOMAIN e : f[j] \in Handles(u)
  BY <1>2, <1>3 DEF Handles, ToSet
<1>5. /\ \A j \in DOMAIN e : e[j] \in Handles(s)
      /\ \A h \in Handles(s) : \E j \in DOMAIN e : h = e[j]
  BY <1>1, <1>2, EntriesDiffer
<1>6. \A j \in DOMAIN e : j # pos => e[j].id # id
  <2>1. IndexFor(s.index, e)
    BY <1>1, <1>2 DEF SnapInv
  <2> QED
    BY <1>1, <1>2, <2>1 DEF IndexFor
<1>7. \A j \in DOMAIN e : e[j].id \in HandleIds
  BY <1>1, <1>5, FieldsOf DEF SnapInv
<1>8. ValueIn(u, f[pos]) = SubSeq(ValueIn(s, e[pos]), 1, length)
  <2>1. PICK o, l, d : o = s.slots[e[pos].slot] /\ l = e[pos].length /\ d = s.data
    OBVIOUS
  <2>2. /\ o \in Nat /\ l \in Nat /\ d \in Seq(Bytes) /\ Len(d) \in Nat
        /\ o + l <= Len(d) /\ length <= l
    BY <1>1, <1>2, <1>5, <2>1, EntryIs
  <2>3. PICK a, b : a = BytesAt(d, o, l) /\ b = SubSeq(a, 1, length)
    OBVIOUS
  <2>4. a \in Seq(Bytes) /\ Len(a) = l /\ \A k \in 1 .. l : a[k] = d[o + k]
    BY <2>2, <2>3, BytesAtIs
  <2>5. b \in Seq(Bytes) /\ Len(b) = length /\ \A k \in 1 .. length : b[k] = a[k]
    BY <1>1, <2>2, <2>3, <2>4
  <2>6. o + Len(b) <= Len(d) /\ \A k \in 1 .. Len(b) : d[o + k] = b[k]
    <3>1. PICK m, n : m = Len(d) /\ n = length
      OBVIOUS
    <3>2. o + n <= m
      BY <1>1, <2>2, <3>1
    <3>3. \A k \in 1 .. n : k \in 1 .. l
      BY <1>1, <2>2, <3>1
    <3>4. \A k \in 1 .. n : d[o + k] = b[k]
      BY <2>4, <2>5, <3>1, <3>3
    <3> QED
      BY <2>5, <3>1, <3>2, <3>4
  <2>7. BytesAt(d, o, Len(b)) = b
    BY <2>2, <2>5, <2>6, BytesAre
  <2>8. ValueIn(u, f[pos]) = BytesAt(d, o, length) /\ ValueIn(s, e[pos]) = a
    BY <1>1, <1>2, <1>3, <2>1, <2>3 DEF ValueIn
  <2> QED
    BY <2>3, <2>5, <2>7, <2>8
<1>9. ASSUME NEW g \in Handles(u) PROVE new[g.id] = ValueIn(u, g)
  <2>1. PICK j \in DOMAIN e : g = f[j]
    BY <1>4
  <2>2. CASE j = pos
    <3>1. g.id = id /\ old[id] = ValueIn(s, e[pos])
      BY <1>2, <1>3, <1>5, <2>1, <2>2 DEF HoldsValues
    <3> QED
      BY <1>0, <1>8, <2>1, <2>2, <3>1
  <2>3. CASE j # pos
    <3>1. g = e[j] /\ g.id # id /\ g.id \in HandleIds /\ g \in Handles(s)
      BY <1>3, <1>5, <1>6, <1>7, <2>1, <2>3
    <3>2. ValueIn(u, g) = ValueIn(s, g) /\ old[g.id] = ValueIn(s, g)
      BY <1>3, <3>1 DEF ValueIn, HoldsValues
    <3> QED
      BY <1>0, <3>1, <3>2
  <2> QED
    BY <2>2, <2>3
<1>10. ASSUME NEW x \in HandleIds, \A g \in Handles(u) : g.id # x PROVE new[x] = NoBytes
  <2>1. \A j \in DOMAIN e : e[j].id # x
    BY <1>3, <1>4, <1>10
  <2>2. x # id /\ \A h \in Handles(s) : h.id # x
    BY <1>1, <1>2, <1>5, <2>1
  <2> QED
    BY <1>0, <2>2 DEF HoldsValues
<1> QED
  BY <1>9, <1>10 DEF HoldsValues

LEMMA UpdateHandleKeeps ==
  ASSUME HandlesInv, NEW r \in Registries, NEW id \in HandleIds, NEW length \in 0 .. MaxBytes,
         UpdateHandle(r, id, length)
  PROVE  HandlesInv'
<1>1. PICK s, pos : s = snaps[r] /\ pos = LookupId(s.index, id)
  OBVIOUS
<1>2. /\ RegistriesInv /\ ViewInv /\ Exists(r) /\ SnapInv(s) /\ s \in Snapshots
      /\ r \notin garbled => HoldsValues(s, lastSet[r])
  BY <1>1, ExistingIs DEF HandlesInv, UpdateHandle
<1>3. PICK u : u = [s EXCEPT !.entries[pos].length = length]
  OBVIOUS
<1>4. /\ pos # 0 /\ length < s.entries[pos].length
      /\ StoreSnapshot(r, u) /\ Expect(r, id, SubSeq(lastSet[r][id], 1, length))
      /\ heldView' = heldView /\ garbled' = garbled
  BY <1>1, <1>3 DEF UpdateHandle
<1>5. pos \in DOMAIN s.entries /\ s.entries[pos].id = id
  <2>1. PICK e, t : e = s.entries /\ t = s.index
    OBVIOUS
  <2>2. e \in Seq(HandleValues) /\ IndexFor(t, e)
    BY <1>2, <2>1, FieldsOf DEF SnapInv
  <2> QED
    BY <1>1, <1>4, <2>1, <2>2, IndexFinds
<1>6. Shortens(s, pos, length, u)
  <2>1. length \in Nat
    BY SizesAssumption
  <2>2. PICK l : l = s.entries[pos].length
    OBVIOUS
  <2>3. l \in Nat
    <3>1. s.entries[pos] \in Handles(s)
      BY <1>2, <1>5, EntriesDiffer
    <3> QED
      BY <1>2, <2>2, <3>1, FieldsOf
  <2>4. length <= l
    BY <1>4, <2>1, <2>2, <2>3
  <2> QED
    BY <1>2, <1>3, <1>5, <2>1, <2>2, <2>4 DEF Shortens
<1>7. SnapInv(u) /\ u.array = s.array /\ u.data = s.data
  BY <1>6, ShorterIs, ShorterKeeps
<1>8. /\ lastSet' = [q \in Registries |-> [i \in HandleIds |-> lastSet'[q][i]]]
      /\ lastSet'[r][id] = SubSeq(lastSet[r][id], 1, length)
      /\ \A i \in HandleIds : i # id => lastSet'[r][i] = lastSet[r][i]
      /\ \A q \in Registries \ {r} : lastSet'[q] = lastSet[q]
  <2>1. PICK v : v = SubSeq(lastSet[r][id], 1, length)
    OBVIOUS
  <2>2. Expect(r, id, v)
    BY <1>4, <2>1
  <2> QED
    BY <1>2, <2>1, <2>2, ExpectIs
<1>9. r \notin garbled => HoldsValues(u, lastSet'[r])
  <2>1. PICK old, new : old = lastSet[r] /\ new = lastSet'[r]
    OBVIOUS
  <2>2. CutsValue(old, new, id, length)
    BY <1>8, <2>1 DEF CutsValue
  <2>3. ASSUME HoldsValues(s, old) PROVE HoldsValues(u, new)
    <3>1. s.entries[pos].id = id /\ Shortens(s, pos, length, u)
      BY <1>5, <1>6
    <3> QED
      BY <2>2, <2>3, <3>1, ShorterHolds
  <2> QED
    BY <1>2, <2>1, <2>3
<1>10. Replaces(r, u)
  BY <1>4, <1>7, <1>8, <1>9 DEF Replaces
<1>11. RegistriesInv'
  BY <1>2, <1>10, ReplacesKeeps
<1>12. Extends(r, u)
  <2>1. Len(u.data) >= Len(s.data)
    <3>1. PICK m : m = Len(s.data)
      OBVIOUS
    <3>2. s.data \in Seq(Bytes)
      BY <1>2, FieldsOf
    <3>3. m \in Nat
      BY <3>1, <3>2
    <3> QED
      BY <1>7, <3>1, <3>3
  <2> QED
    BY <1>1, <1>2, <1>4, <1>7, <2>1 DEF Extends
<1>13. ViewInv'
  BY <1>2, <1>4, <1>7, <1>12, ViewKeeps
<1> QED
  BY <1>11, <1>13 DEF HandlesInv

----------------------------------------------------------------------------
(* SetInHole and SetAtEnd.                                                 *)

LEMMA SetInHoleKeeps ==
  ASSUME HandlesInv, NEW r \in Registries, NEW id \in HandleIds, NEW v \in ByteValues,
         SetInHole(r, id, v)
  PROVE  HandlesInv'
<1>1. PICK s, w : s = snaps[r] /\ w = WithoutId(s, id)
  OBVIOUS
<1>2. /\ RegistriesInv /\ ViewInv /\ Exists(r) /\ SnapInv(s) /\ s \in Snapshots
      /\ r \notin garbled => HoldsValues(s, lastSet[r])
  BY <1>1, ExistingIs DEF HandlesInv, SetInHole
<1>3. PICK i, a, l : i = FirstFit(w, Len(v)) /\ a = NewArray(r) /\ l = Len(v)
  OBVIOUS
<1>4. PICK o : o = w.holes[i].offset
  OBVIOUS
<1>5. PICK t : t = [w EXCEPT !.array = a, !.data = Overwritten(@, o, v),
                             !.holes = WithoutHole(w, i, Len(v))]
  OBVIOUS
<1>6. PICK u : u = WithEntry(t, id, o, Len(v))
  OBVIOUS
<1>7. /\ i # 0 /\ StoreSnapshot(r, u) /\ Expect(r, id, v)
      /\ heldView' = heldView /\ garbled' = garbled
  BY <1>1, <1>3, <1>4, <1>5, <1>6 DEF SetInHole
<1>8. Removed(s, w, id) /\ SnapInv(w)
  BY <1>1, <1>2, WithoutIdRemoves DEF Removed
<1>9. a \in Nat /\ a # heldView.array
  BY <1>3, NewArrayIs
<1>10. /\ SnapInv(t) /\ t.array = a /\ o \in Nat /\ Handles(t) = Handles(w)
       /\ Unheld(t, Hole(o, Len(v))) /\ BytesAt(t.data, o, Len(v)) = v
       /\ \A h \in Handles(w) : ValueIn(t, h) = ValueIn(w, h)
  <2>1. SnapInv(w) /\ i = FirstFit(w, Len(v)) /\ i # 0 /\ a \in Nat
    BY <1>3, <1>7, <1>8, <1>9
  <2>2. Fills(w, v, i, a, o, t)
    BY <1>4, <1>5, <2>1 DEF Fills
  <2> QED
    BY <2>2, HoleFilled
<1>11. Stored(s, u, id, v) /\ u.array = a
  BY <1>6, <1>8, <1>10, WithEntryStores
<1>12. /\ lastSet' = [q \in Registries |-> [x \in HandleIds |-> lastSet'[q][x]]]
       /\ lastSet'[r][id] = v
       /\ \A x \in HandleIds : x # id => lastSet'[r][x] = lastSet[r][x]
       /\ \A q \in Registries \ {r} : lastSet'[q] = lastSet[q]
  BY <1>2, <1>7, ExpectIs
<1>13. SnapInv(u)
  BY <1>11 DEF Stored
<1>14. r \notin garbled => HoldsValues(u, lastSet'[r])
  BY <1>2, <1>11, <1>12, StoredHolds
<1>15. Replaces(r, u)
  BY <1>7, <1>12, <1>13, <1>14 DEF Replaces
<1>16. RegistriesInv'
  BY <1>2, <1>15, ReplacesKeeps
<1>17. Extends(r, u)
  BY <1>7, <1>9, <1>11 DEF Extends
<1>18. ViewInv'
  BY <1>2, <1>7, <1>13, <1>17, ViewKeeps
<1> QED
  BY <1>16, <1>18 DEF HandlesInv

(* What SetAtEnd stores: u for r, o the end of the bytes before.           *)
Appends(r, id, v, inPlace, u, o) ==
  /\ Stored(snaps[r], u, id, v) /\ o \in Nat /\ o = Len(snaps[r].data)
  /\ Len(u.data) >= Len(snaps[r].data)
  /\ inPlace => u.array = snaps[r].array
  /\ ~inPlace => u.array # heldView.array
  /\ snaps' = [q \in Registries |->
       IF q = r THEN u
       ELSE IF inPlace /\ Exists(q) /\ snaps[q].array = snaps[r].array
            THEN [snaps[q] EXCEPT !.data = Overwritten(@, o, v)] ELSE snaps[q]]
  /\ heldView' = IF inPlace /\ heldView.array = snaps[r].array /\ o >= heldView.offset
                 THEN [heldView EXCEPT !.bytes = Overwritten(@, o - heldView.offset, v)]
                 ELSE heldView
  /\ Expect(r, id, v)
  /\ garbled' = garbled
       \union {q \in Registries \ {r} : /\ inPlace /\ Exists(q) /\ snaps[q].array = snaps[r].array
                                        /\ Len(snaps[q].data) > o}
       \union {q \in {"heldView"} : /\ inPlace /\ heldView.array = snaps[r].array
                                    /\ \E p \in Registries \ {r} : Exists(p)}

LEMMA SetAtEndAppends ==
  ASSUME HandlesInv, NEW r \in Registries, NEW id \in HandleIds, NEW v \in ByteValues,
         NEW inPlace \in BOOLEAN, SetAtEnd(r, id, v, inPlace)
  PROVE  \E u, o : Appends(r, id, v, inPlace, u, o)
<1>1. PICK s, w : s = snaps[r] /\ w = WithoutId(s, id)
  OBVIOUS
<1>2. RegistriesInv /\ Exists(r) /\ SnapInv(s) /\ s \in Snapshots
  BY <1>1, ExistingIs DEF HandlesInv, SetAtEnd
<1>3. PICK o, b : o = Len(w.data) /\ b = IF inPlace THEN w.array ELSE NewArray(r)
  OBVIOUS
<1>4. PICK t : t = [w EXCEPT !.data = @ \o v, !.array = b]
  OBVIOUS
<1>5. PICK u : u = WithEntry(t, id, o, Len(v))
  OBVIOUS
<1>6. Removed(s, w, id) /\ SnapInv(w) /\ w.array = s.array /\ w.data = s.data
  BY <1>1, <1>2, WithoutIdRemoves DEF Removed
<1>7. o + Len(v) <= MaxBytes
  BY <1>1, <1>3 DEF SetAtEnd
<1>8. /\ b \in Nat /\ (inPlace => b = s.array) /\ (~inPlace => b # heldView.array)
  <2>1. s.array \in Nat /\ NewArray(r) \in Nat /\ NewArray(r) # heldView.array
    BY <1>2, FieldsOf, NewArrayIs
  <2> QED
    BY <1>3, <1>6, <2>1
<1>9. /\ SnapInv(t) /\ t.array = b /\ o \in Nat /\ Handles(t) = Handles(w)
      /\ Len(t.data) = o + Len(v)
      /\ Unheld(t, Hole(o, Len(v))) /\ BytesAt(t.data, o, Len(v)) = v
      /\ \A h \in Handles(w) : ValueIn(t, h) = ValueIn(w, h)
  <2>1. SnapInv(w) /\ o = Len(w.data) /\ b \in Nat /\ Len(w.data) + Len(v) <= MaxBytes
    BY <1>3, <1>6, <1>7, <1>8
  <2>2. /\ SnapInv(t) /\ t.array = b /\ o \in Nat /\ Handles(t) = Handles(w)
        /\ Len(t.data) = Len(w.data) + Len(v)
        /\ Unheld(t, Hole(o, Len(v))) /\ BytesAt(t.data, o, Len(v)) = v
        /\ \A h \in Handles(w) : ValueIn(t, h) = ValueIn(w, h)
    <3>1. Lengthens(w, v, b, o, t)
      BY <1>4, <2>1 DEF Lengthens
    <3> QED
      BY <3>1, EndFilled
  <2> QED
    BY <2>1, <2>2
<1>10. Stored(s, u, id, v) /\ u.array = b /\ u.data = t.data
  BY <1>5, <1>6, <1>9, WithEntryStores
<1>11. o = Len(s.data) /\ Len(u.data) >= Len(s.data)
  <2>1. Len(v) \in Nat
    BY ValueIs
  <2> QED
    BY <1>3, <1>6, <1>9, <1>10, <2>1
<1>12. u = WithEntry([w EXCEPT !.data = @ \o v, !.array = IF inPlace THEN @ ELSE NewArray(r)],
                     id, o, Len(v))
  <2>1. t = [w EXCEPT !.data = @ \o v, !.array = IF inPlace THEN @ ELSE NewArray(r)]
    BY <1>3, <1>4
  <2> QED
    BY <1>5, <2>1
<1>13. snaps' = [q \in Registries |->
         IF q = r THEN u
         ELSE IF inPlace /\ Exists(q) /\ snaps[q].array = s.array
              THEN [snaps[q] EXCEPT !.data = Overwritten(@, o, v)] ELSE snaps[q]]
  BY <1>1, <1>3, <1>6, <1>12 DEF SetAtEnd
<1>14. heldView' = IF inPlace /\ heldView.array = s.array /\ o >= heldView.offset
                   THEN [heldView EXCEPT !.bytes = Overwritten(@, o - heldView.offset, v)]
                   ELSE heldView
  BY <1>1, <1>3, <1>6 DEF SetAtEnd
<1>15. /\ Expect(r, id, v)
       /\ garbled' = garbled
            \union {q \in Registries \ {r} : /\ inPlace /\ Exists(q) /\ snaps[q].array = s.array
                                             /\ Len(snaps[q].data) > o}
            \union {q \in {"heldView"} : /\ inPlace /\ heldView.array = s.array
                                         /\ \E p \in Registries \ {r} : Exists(p)}
  BY <1>1, <1>3, <1>6 DEF SetAtEnd
<1>16. Appends(r, id, v, inPlace, u, o)
  BY <1>1, <1>8, <1>9, <1>10, <1>11, <1>13, <1>14, <1>15 DEF Appends
<1> QED
  BY <1>16

LEMMA AppendsKeepsRegistries ==
  ASSUME RegistriesInv, NEW r \in Registries, NEW id \in HandleIds, NEW v \in ByteValues,
         Exists(r), NEW inPlace \in BOOLEAN, NEW u, NEW o, Appends(r, id, v, inPlace, u, o)
  PROVE  /\ RegistriesInv' /\ snaps'[r] = u
         /\ \A q \in Registries : Exists(q) => snaps'[q] # NoRegistry
<1>1. PICK s : s = snaps[r]
  OBVIOUS
<1>2. SnapInv(s) /\ (r \notin garbled => HoldsValues(s, lastSet[r]))
  BY <1>1, ExistingIs
<1>3. /\ lastSet' = [q \in Registries |-> [x \in HandleIds |-> lastSet'[q][x]]]
      /\ lastSet'[r][id] = v
      /\ \A x \in HandleIds : x # id => lastSet'[r][x] = lastSet[r][x]
      /\ \A q \in Registries \ {r} : lastSet'[q] = lastSet[q]
  BY ExpectIs DEF Appends
<1>4. Stored(s, u, id, v) /\ SnapInv(u) /\ u \in Snapshots /\ o \in Nat
  BY <1>1 DEF Appends, Stored, SnapInv
<1>5. DOMAIN snaps' = Registries /\ snaps' = [q \in Registries |-> snaps'[q]] /\ snaps'[r] = u
  BY DEF Appends
<1>6. r \notin garbled' => HoldsValues(u, lastSet'[r])
  <2>1. garbled \subseteq garbled'
    BY DEF Appends
  <2>2. PICK old, new : old = lastSet[r] /\ new = lastSet'[r]
    OBVIOUS
  <2>3. new[id] = v /\ \A x \in HandleIds : x # id => new[x] = old[x]
    BY <1>3, <2>2
  <2>4. HoldsValues(s, old) => HoldsValues(u, new)
    BY <1>4, <2>3, StoredHolds
  <2> QED
    BY <1>2, <2>1, <2>2, <2>4
<1>7. ASSUME NEW q \in Registries \ {r}
      PROVE  /\ snaps'[q] = NoRegistry <=> snaps[q] = NoRegistry
             /\ snaps'[q] \in Snapshots \union {NoRegistry}
             /\ snaps'[q] # NoRegistry => SnapInv(snaps'[q])
             /\ snaps'[q] # NoRegistry /\ q \notin garbled' => HoldsValues(snaps'[q], lastSet'[q])
  <2>1. PICK t : t = snaps[q]
    OBVIOUS
  <2>2. /\ t \in Snapshots \union {NoRegistry}
        /\ t # NoRegistry => SnapInv(t) /\ t \in Snapshots
        /\ t # NoRegistry /\ q \notin garbled => HoldsValues(t, lastSet[q])
    BY <2>1 DEF RegistriesInv, Exists, SnapInv
  <2>3. CASE inPlace /\ Exists(q) /\ snaps[q].array = s.array
    <3>1. PICK y : y = [t EXCEPT !.data = Overwritten(@, o, v)]
      OBVIOUS
    <3>2. snaps'[q] = y
      BY <1>1, <2>1, <2>3, <3>1 DEF Appends
    <3>3. SnapInv(t) /\ t # NoRegistry
      BY <2>1, <2>2, <2>3 DEF Exists
    <3>4. SnapInv(y) /\ (Len(t.data) <= o => y = t)
      BY <1>4, <3>1, <3>3, OverwrittenKeeps
    <3>5. y \in Snapshots /\ y # NoRegistry
      BY <3>4, FieldsOf DEF SnapInv
    <3>6. ASSUME q \notin garbled' PROVE HoldsValues(y, lastSet'[q])
      <4>1. q \notin garbled /\ ~(Len(t.data) > o)
        BY <1>1, <2>1, <2>3, <3>6 DEF Appends
      <4>2. PICK m : m = Len(t.data)
        OBVIOUS
      <4>3. m \in Nat
        BY <3>3, <4>2, FieldsOf DEF SnapInv
      <4>4. y = t
        BY <1>4, <3>4, <4>1, <4>2, <4>3
      <4> QED
        BY <1>3, <2>2, <3>3, <4>1, <4>4
    <3> QED
      BY <2>1, <3>2, <3>3, <3>4, <3>5, <3>6
  <2>4. CASE ~(inPlace /\ Exists(q) /\ snaps[q].array = s.array)
    <3>1. snaps'[q] = t
      BY <1>1, <2>1, <2>4 DEF Appends
    <3>2. q \notin garbled' => q \notin garbled
      BY DEF Appends
    <3> QED
      BY <1>3, <2>1, <2>2, <3>1, <3>2
  <2> QED
    BY <2>3, <2>4
<1>8. u # NoRegistry
  BY <1>4, FieldsOf
<1>9. snaps' \in [Registries -> Snapshots \union {NoRegistry}]
  BY <1>4, <1>5, <1>7
<1>10. RegistriesInv'
  BY <1>3, <1>4, <1>5, <1>6, <1>7, <1>9 DEF RegistriesInv, Exists
<1> QED
  BY <1>5, <1>7, <1>8, <1>10 DEF Exists

LEMMA AppendsKeepsView ==
  ASSUME RegistriesInv, ViewInv, NEW r \in Registries, NEW id \in HandleIds,
         NEW v \in ByteValues, Exists(r), NEW inPlace \in BOOLEAN, NEW u, NEW o,
         Appends(r, id, v, inPlace, u, o)
  PROVE  ViewInv'
<1>1. PICK s : s = snaps[r]
  OBVIOUS
<1>2. PICK bytes, at : bytes = heldView.bytes /\ at = heldView.offset
  OBVIOUS
<1>3. /\ heldView \in [array : Nat, offset : Nat, bytes : Seq(Bytes), had : Seq(Bytes)]
      /\ bytes \in Seq(Bytes) /\ at \in Nat /\ Len(bytes) \in Nat
  <2>1. heldView \in [array : Nat, offset : Nat, bytes : Seq(Bytes), had : Seq(Bytes)]
    BY DEF ViewInv
  <2>2. bytes \in Seq(Bytes) /\ at \in Nat
    BY <1>2, <2>1
  <2> QED
    BY <2>1, <2>2
<1>4. o \in Nat /\ o = Len(s.data) /\ Len(u.data) >= o
  BY <1>1 DEF Appends
<1>5. PICK new : new = IF inPlace /\ heldView.array = s.array /\ o >= at
                       THEN Overwritten(bytes, o - at, v) ELSE bytes
  OBVIOUS
<1>6. new \in Seq(Bytes) /\ Len(new) = Len(bytes) /\ (at + Len(bytes) <= o => new = bytes)
  <2>1. PICK n, d : n = Len(bytes) /\ d = o - at
    OBVIOUS
  <2>2. n \in Nat /\ d \in Int
    BY <1>3, <1>4, <2>1
  <2>3. v \in Seq(Bytes)
    BY ValueIs
  <2>4. /\ Overwritten(bytes, d, v) \in Seq(Bytes) /\ Len(Overwritten(bytes, d, v)) = n
        /\ n <= d => Overwritten(bytes, d, v) = bytes
    BY <1>3, <2>1, <2>2, <2>3, OverwrittenIs
  <2>5. at + n <= o => n <= d
    BY <1>3, <1>4, <2>1, <2>2
  <2> QED
    BY <1>3, <1>5, <2>1, <2>4, <2>5
<1>7. heldView' = [heldView EXCEPT !.bytes = new]
  BY <1>1, <1>2, <1>3, <1>5 DEF Appends
<1>8. /\ heldView' \in [array : Nat, offset : Nat, bytes : Seq(Bytes), had : Seq(Bytes)]
      /\ heldView'.array = heldView.array /\ heldView'.offset = at
      /\ heldView'.bytes = new /\ heldView'.had = heldView.had
  BY <1>2, <1>3, <1>6, <1>7
<1>9. snaps'[r] = u /\ \A q \in Registries : Exists(q) => snaps'[q] # NoRegistry
  BY AppendsKeepsRegistries
<1>10. ASSUME "heldView" \notin garbled', inPlace, heldView.array = s.array
       PROVE  /\ \A p \in Registries \ {r} : ~Exists(p)
              /\ at + Len(bytes) <= o
  <2>1. "heldView" \notin garbled /\ \A p \in Registries \ {r} : ~Exists(p)
    BY <1>1, <1>10 DEF Appends
  <2> QED
    BY <1>1, <1>2, <1>4, <1>10, <2>1 DEF ViewInv
<1>11. ASSUME "heldView" \notin garbled' PROVE new = heldView.had
  <2>1. bytes = heldView.had
    BY <1>2, <1>11 DEF ViewInv, Appends
  <2>2. new = bytes
    BY <1>5, <1>6, <1>10, <1>11
  <2> QED
    BY <2>1, <2>2
<1>12. ASSUME NEW q \in Registries, "heldView" \notin garbled', snaps'[q].array = heldView.array,
              \A p \in Registries \ {q} : snaps'[p] = NoRegistry
       PROVE  at + Len(new) <= Len(snaps'[q].data)
  <2>1. q = r /\ u.array = heldView.array
    BY <1>9, <1>12
  <2>2. inPlace /\ heldView.array = s.array
    BY <1>1, <2>1 DEF Appends
  <2>3. at + Len(bytes) <= o
    BY <1>10, <1>12, <2>2
  <2>4. PICK n, m : n = at + Len(bytes) /\ m = Len(u.data)
    OBVIOUS
  <2>5. m \in Nat
    <3>1. SnapInv(u)
      BY DEF Appends, Stored
    <3> QED
      BY <2>4, <3>1, FieldsOf DEF SnapInv
  <2>6. n <= m
    BY <1>3, <1>4, <2>3, <2>4, <2>5
  <2> QED
    BY <1>6, <1>9, <2>1, <2>4, <2>6
<1> QED
  BY <1>8, <1>11, <1>12 DEF ViewInv, Exists

LEMMA SetAtEndKeeps ==
  ASSUME HandlesInv, NEW r \in Registries, NEW id \in HandleIds, NEW v \in ByteValues,
         NEW inPlace \in BOOLEAN, SetAtEnd(r, id, v, inPlace)
  PROVE  HandlesInv'
<1>1. RegistriesInv /\ ViewInv /\ Exists(r)
  BY DEF HandlesInv, SetAtEnd
<1>2. PICK u, o : Appends(r, id, v, inPlace, u, o)
  BY SetAtEndAppends
<1>3. RegistriesInv'
  BY <1>1, <1>2, AppendsKeepsRegistries
<1>4. ViewInv'
  BY <1>1, <1>2, AppendsKeepsView
<1> QED
  BY <1>3, <1>4 DEF HandlesInv

----------------------------------------------------------------------------
(* The specification.                                                      *)

LEMMA HandlesInitInv == HandlesInit => HandlesInv
<1> SUFFICES ASSUME HandlesInit PROVE HandlesInv
  OBVIOUS
<1>1. PICK u : u = NewSnapshot(1)
  OBVIOUS
<1>2. SnapInv(u) /\ Handles(u) = {} /\ u \in Snapshots
  BY <1>1, NewSnapshotIs DEF SnapInv
<1>3. /\ snaps = [r \in Registries |-> IF r = FirstRegistry THEN u ELSE NoRegistry]
      /\ heldView = [array |-> 0, offset |-> 0, bytes |-> <<>>, had |-> <<>>]
      /\ lastSet = [r \in Registries |-> [i \in HandleIds |-> NoBytes]]
  BY <1>1 DEF HandlesInit, HandlesOf
<1>4. \A r \in Registries : Exists(r) => snaps[r] = u
  BY <1>3 DEF Exists
<1>5. \A r \in Registries : HoldsValues(u, lastSet[r])
  BY <1>2, <1>3 DEF HoldsValues
<1>6. RegistriesInv
  <2>1. snaps \in [Registries -> Snapshots \union {NoRegistry}]
    BY <1>2, <1>3
  <2>2. lastSet = [r \in Registries |-> [i \in HandleIds |-> lastSet[r][i]]]
    BY <1>3
  <2> QED
    BY <1>2, <1>4, <1>5, <2>1, <2>2 DEF RegistriesInv
<1>7. ViewInv
  <2>1. \A r \in Registries : Exists(r) => Len(snaps[r].data) \in Nat
    <3>1. u.data \in Seq(Bytes)
      BY <1>2, FieldsOf
    <3>2. Len(u.data) \in Nat
      BY <3>1
    <3> QED
      BY <1>4, <3>2
  <2>2. heldView.offset = 0 /\ heldView.bytes = <<>> /\ heldView.had = <<>>
    BY <1>3
  <2>3. heldView \in [array : Nat, offset : Nat, bytes : Seq(Bytes), had : Seq(Bytes)]
    <3>1. PICK none : none = <<>>
      OBVIOUS
    <3>2. none \in Seq(Bytes)
      BY <3>1
    <3> QED
      BY <1>3, <3>1, <3>2
  <2>4. heldView.offset + Len(heldView.bytes) = 0
    BY <2>2
  <2>5. \A r \in Registries : Exists(r) => heldView.offset + Len(heldView.bytes) <= Len(snaps[r].data)
    BY <2>1, <2>4
  <2> QED
    BY <2>2, <2>3, <2>5 DEF ViewInv
<1> QED
  BY <1>6, <1>7 DEF HandlesInv

LEMMA HandlesNextInv == HandlesInv /\ [HandlesNext]_handleVars => HandlesInv'
<1> SUFFICES ASSUME HandlesInv, [HandlesNext]_handleVars PROVE HandlesInv'
  OBVIOUS
<1>1. CASE UNCHANGED handleVars
  <2>1. /\ snaps' = snaps /\ heldView' = heldView /\ lastSet' = lastSet /\ garbled' = garbled
    BY <1>1 DEF handleVars
  <2> QED
    BY <2>1 DEF HandlesInv, RegistriesInv, ViewInv, Exists
<1>2. ASSUME NEW r \in Registries, NEW id \in HandleIds, GetView(r, id) PROVE HandlesInv'
  BY <1>2, GetViewKeeps
<1>3. ASSUME NEW r \in Registries, NEW id \in HandleIds, DeleteId(r, id) PROVE HandlesInv'
  BY <1>3, DeleteIdKeeps
<1>4. ASSUME NEW r \in Registries, NEW id \in HandleIds, NEW v \in ByteValues, SetInHole(r, id, v)
      PROVE  HandlesInv'
  BY <1>4, SetInHoleKeeps
<1>5. ASSUME NEW r \in Registries, NEW id \in HandleIds, NEW v \in ByteValues,
             NEW inPlace \in BOOLEAN, SetAtEnd(r, id, v, inPlace)
      PROVE  HandlesInv'
  BY <1>5, SetAtEndKeeps
<1>6. ASSUME NEW r \in Registries, NEW id \in HandleIds, NEW length \in 0 .. MaxBytes,
             UpdateHandle(r, id, length)
      PROVE  HandlesInv'
  BY <1>6, UpdateHandleKeeps
<1>7. ASSUME NEW r \in Registries, Defragment(r) PROVE HandlesInv'
  BY <1>7, DefragmentKeeps
<1>8. ASSUME NEW r \in Registries, ImportExport(r) PROVE HandlesInv'
  BY <1>8, ImportExportKeeps
<1>9. ASSUME NEW r \in Registries, NEW q \in Registries, CloneRegistry(r, q) PROVE HandlesInv'
  BY <1>9, CloneRegistryKeeps
<1>10. ASSUME NEW r \in Registries, ClearAll(r) PROVE HandlesInv'
  BY <1>10, ClearAllKeeps
<1> QED
  BY <1>1, <1>2, <1>3, <1>4, <1>5, <1>6, <1>7, <1>8, <1>9, <1>10 DEF HandlesNext

(* Whatever is set, deleted, moved, imported, cloned or cleared, the index *)
(* finds each handle, handles and holes lie apart and within the bytes, no *)
(* slot has two owners, and each handle holds the value last set for it.   *)
THEOREM HandlesInductive == HandlesSpec => []HandlesInv
<1> QED
  BY HandlesInitInv, HandlesNextInv, PTL DEF HandlesSpec

LEMMA InvReadsBack == HandlesInv => ReadsBack
<1> SUFFICES ASSUME HandlesInv PROVE ReadsBack
  OBVIOUS
<1>1. ASSUME NEW r \in Registries \ garbled, Exists(r)
      PROVE  /\ \A id \in HandleIds : ReadValue(snaps[r], id) = lastSet[r][id]
             /\ IdCells(snaps[r].index, "empty") > 0
  <2>1. PICK s, values : s = snaps[r] /\ values = lastSet[r]
    OBVIOUS
  <2>2. SnapInv(s) /\ s \in Snapshots /\ HoldsValues(s, values)
    BY <1>1, <2>1, ExistingIs DEF HandlesInv
  <2>3. ASSUME NEW id \in HandleIds PROVE ReadValue(s, id) = values[id]
    <3>1. CASE ReadValue(s, id) = NoBytes /\ \A h \in Handles(s) : h.id # id
      BY <2>2, <3>1 DEF HoldsValues
    <3>2. CASE \E h \in Handles(s) : h.id = id /\ ReadValue(s, id) = ValueIn(s, h)
      BY <2>2, <3>2 DEF HoldsValues
    <3> QED
      BY <2>2, <3>1, <3>2, ReadIs
  <2>4. IdCells(s.index, "empty") > 0
    <3>1. PICK t : t = s.index
      OBVIOUS
    <3>2. t \in Seq(Cells) /\ Room(t)
      BY <2>2, <3>1 DEF SnapInv, IndexFor, GoodTable
    <3>3. IdCells(t, "empty") > 0
      BY <3>2, CellCounts
    <3> QED
      BY <3>1, <3>3
  <2> QED
    BY <2>1, <2>3, <2>4
<1>2. "heldView" \notin garbled => heldView.bytes = heldView.had
  BY DEF HandlesInv, ViewInv
<1> QED
  BY <1>1, <1>2 DEF ReadsBack

(* In every registry whose bytes no clone and no import out of order has   *)
(* touched, every id reads the value last set for it, a value that was     *)
(* returned keeps its bytes, and find always meets an empty cell.          *)
THEOREM HandlesReadBack == HandlesSpec => []ReadsBack
<1> QED
  BY HandlesInductive, InvReadsBack, PTL

=============================================================================
