--------------------------- MODULE HandleRegistry ---------------------------
(***************************************************************************)
(* bits.Registry: values packed into one byte array behind 64-bit handles. *)
(*                                                                         *)
(* A snapshot holds the bytes, the slots (where each value starts), the    *)
(* dense list of handles, the holes deletions have left and a hash table   *)
(* from ids to positions.  A writer, under the registry's mutex, builds a  *)
(* new snapshot and stores it; readers load it without a lock, so that     *)
(* each operation is one step.  What snapshots share is the byte array: an *)
(* append that finds room writes into the array of the snapshot it starts  *)
(* from.                                                                   *)
(*                                                                         *)
(* Left out: the OnWrite hook, slot generations and slotToEntry, which no  *)
(* operation reads.  The background defragmentation is Defragment at a     *)
(* time of its own.                                                        *)
(***************************************************************************)
EXTENDS SequencesExt, FiniteSetsExt, Naturals

CONSTANTS
  Registries,     \* registries sharing snapshots: one and its clones
  FirstRegistry,  \* the one that is made first
  HandleIds,      \* the ids keys hash to
  IdHash,         \* hashUint64 on the ids
  ByteValues,     \* the values stored: sequences of bytes
  MinCap,         \* minIDTableCap
  CompactionThreshold,
  MaxSlots,       \* MaxOffset, the number of slots
  MaxBytes,       \* maxDataOffset
  MaxHandleSteps  \* bound on the operations
\* In the code MaxSlots is 2^16 and MaxBytes 2^32 - 1.

ASSUME FirstAssumption == FirstRegistry \in Registries
ASSUME HashAssumption == IdHash \in [HandleIds -> Nat]
ASSUME RegistriesAssumption == IsFiniteSet(Registries) /\ "heldView" \notin Registries
ASSUME ValuesAssumption == \A v \in ByteValues : v \in Seq(Range(v))
ASSUME SizesAssumption ==
  /\ MinCap \in Nat /\ MinCap >= 2
  /\ CompactionThreshold \in Nat /\ MaxSlots \in Nat /\ MaxBytes \in Nat

VARIABLES
  snaps,        \* snaps[r]: the snapshot r holds, if r exists
  heldView,     \* one value a GetView has returned, and the bytes it had then
  lastSet,      \* lastSet[r][i]: the value last set (history, not in the code)
  handleSteps,  \* the operations made (bounds the model)
  garbled       \* registries whose bytes the code does not keep (history)

handleVars == <<snaps, heldView, lastSet, handleSteps, garbled>>

----------------------------------------------------------------------------
(* idTable: open addressing with tombstones.                               *)

IdCell(is, id, pos) == [is |-> is, id |-> id, pos |-> pos]
EmptyCell == IdCell("empty", 0, 0)
TombCell == IdCell("tomb", 0, 0)

EmptyTable(cap) == [j \in 1 .. cap |-> EmptyCell]
Probe(t, id, n) == t[1 + ((IdHash[id] + n) % Len(t))]
IdCells(t, is) == Cardinality({j \in DOMAIN t : t[j].is = is})

(* The probes find makes for id before it meets an empty cell.             *)
Reached(t, id) ==
  {n \in 0 .. Len(t) - 1 : \A m \in 0 .. n - 1 : Probe(t, id, m).is # "empty"}
Hits(t, id) ==
  {n \in Reached(t, id) : Probe(t, id, n) = IdCell("occupied", id, Probe(t, id, n).pos)}

LookupId(t, id) ==
  IF Hits(t, id) = {} THEN 0 ELSE Probe(t, id, Min(Hits(t, id))).pos

InsertOrUpdateInPlace(t, id, pos) ==
  LET tombs == {n \in Reached(t, id) : Probe(t, id, n).is = "tomb"}
      n == IF Hits(t, id) # {} THEN Min(Hits(t, id))
           ELSE IF tombs # {} THEN Min(tombs) ELSE Max(Reached(t, id))
  IN [t EXCEPT ![1 + ((IdHash[id] + n) % Len(t))] = IdCell("occupied", id, pos)]

(* rehashed[j]: the first j cells of t are in a table of cap cells.        *)
Rehashing(t, cap) ==
  LET rehashed[j \in 0 .. Len(t)] ==
        IF j = 0 THEN EmptyTable(cap)
        ELSE IF t[j].is = "occupied"
             THEN InsertOrUpdateInPlace(rehashed[j - 1], t[j].id, t[j].pos)
             ELSE rehashed[j - 1]
  IN rehashed
Rehashed(t, cap) == Rehashing(t, cap)[Len(t)]

(* n doublings are enough for n ids at a load of 0.6.                      *)
Doubling(n) ==
  LET doubled[i \in 0 .. n] == IF i = 0 THEN MinCap ELSE 2 * doubled[i - 1]
  IN doubled
CapForCount(n) ==
  Doubling(n)[Min({i \in 0 .. n : (Doubling(n)[i] * 6) \div 10 >= n})]

InsertOrUpdate(t, id, pos) ==
  LET full == (IdCells(t, "occupied") + IdCells(t, "tomb") + 1) * 10 >= Len(t) * 7
      u == IF full THEN Rehashed(t, CapForCount(IdCells(t, "occupied") + 1)) ELSE t
  IN InsertOrUpdateInPlace(u, id, pos)

DeleteFromTable(t, id) ==
  LET u == [t EXCEPT ![1 + ((IdHash[id] + Min(Hits(t, id))) % Len(t))] = TombCell]
  IN IF IdCells(u, "tomb") >= CompactionThreshold THEN Rehashed(u, Len(u)) ELSE u

----------------------------------------------------------------------------
(* Snapshots.  Offsets count from 0, slots and positions from 1.           *)

NoRegistry == <<>>
NewSnapshot(array) ==
  [array |-> array, data |-> <<>>, slots |-> <<>>, free |-> <<>>,
   entries |-> <<>>, holes |-> <<>>, index |-> EmptyTable(MinCap)]

Exists(r) == snaps[r] # NoRegistry
HandleOf(slot, length, id) == [slot |-> slot, length |-> length, id |-> id]
Hole(offset, length) == [offset |-> offset, length |-> length]
Dead == MaxBytes + 1     \* the offset of a slot that is free

BytesAt(data, offset, length) == SubSeq(data, offset + 1, offset + length)
Overwritten(data, offset, bytes) ==
  [j \in DOMAIN data |-> IF j - offset \in DOMAIN bytes THEN bytes[j - offset]
                         ELSE data[j]]

NoBytes == <<"not found">>

ReadValue(s, id) ==
  LET h == s.entries[LookupId(s.index, id)]
      offset == s.slots[h.slot]
  IN IF LookupId(s.index, id) = 0 \/ offset = Dead \/ offset + h.length > Len(s.data)
     THEN NoBytes ELSE BytesAt(s.data, offset, h.length)

(* deletePosLocked: the last handle moves to the position that is freed.   *)
DeletePos(s, pos) ==
  LET h == s.entries[pos]
      moved == Last(s.entries)
      index == IF pos = Len(s.entries) THEN s.index
               ELSE InsertOrUpdate(s.index, moved.id, pos)
  IN [s EXCEPT
       !.entries = Front([@ EXCEPT ![pos] = moved]),
       !.index = DeleteFromTable(index, h.id),
       !.slots = [@ EXCEPT ![h.slot] = Dead],
       !.free = <<h.slot>> \o @,
       !.holes = Append(@, Hole(s.slots[h.slot], h.length))]

WithoutId(s, id) ==
  IF LookupId(s.index, id) = 0 THEN s ELSE DeletePos(s, LookupId(s.index, id))

(* allocSlot and appendEntry for a value that lies at offset.              *)
WithEntry(s, id, offset, length) ==
  LET slot == IF s.free = <<>> THEN Len(s.slots) + 1 ELSE Head(s.free)
  IN [s EXCEPT
       !.slots = IF s.free = <<>> THEN Append(@, offset)
                 ELSE [@ EXCEPT ![slot] = offset],
       !.free = IF s.free = <<>> THEN @ ELSE Tail(@),
       !.entries = Append(@, HandleOf(slot, length, id)),
       !.index = InsertOrUpdate(@, id, Len(s.entries) + 1)]

(* The first hole that is long enough, 0 if there is none.                 *)
FirstFit(s, length) == SelectInSeq(s.holes, LAMBDA h : h.length >= length)

WithoutHole(s, i, used) ==
  LET h == s.holes[i]
      rest == Front([s.holes EXCEPT ![i] = Last(s.holes)])
  IN IF h.length > used
     THEN Append(rest, Hole(h.offset + used, h.length - used)) ELSE rest

HandlesOf(existing) ==
  /\ snaps = [r \in Registries |-> IF r \in existing THEN NewSnapshot(1) ELSE NoRegistry]
  /\ heldView = [array |-> 0, offset |-> 0, bytes |-> <<>>, had |-> <<>>]
  /\ lastSet = [r \in Registries |-> [i \in HandleIds |-> NoBytes]]
  /\ handleSteps = 0
  /\ garbled = {}
HandlesInit == HandlesOf({FirstRegistry})

(* An array nobody else refers to.                                         *)
NewArray(r) ==
  Min((1 .. Cardinality(Registries) + 2)
      \ ({heldView.array} \union {snaps[q].array : q \in {p \in Registries : Exists(p)}}))

StoreSnapshot(r, s) == snaps' = [snaps EXCEPT ![r] = s]
Expect(r, id, v) == lastSet' = [lastSet EXCEPT ![r][id] = v]

----------------------------------------------------------------------------
(* Operations.                                                             *)

GetView(r, id) ==
  /\ Exists(r)
  /\ ReadValue(snaps[r], id) # NoBytes
  /\ LET h == snaps[r].entries[LookupId(snaps[r].index, id)]
         bytes == ReadValue(snaps[r], id)
     IN heldView' = [array |-> snaps[r].array, offset |-> snaps[r].slots[h.slot],
                 bytes |-> bytes, had |-> bytes]
  /\ UNCHANGED <<snaps, lastSet, garbled>>

(* Set into a hole works on a copy of the bytes.                           *)
SetInHole(r, id, v) ==
  LET s == WithoutId(snaps[r], id)
      i == FirstFit(s, Len(v))
      offset == s.holes[i].offset
  IN /\ Exists(r)
     /\ i # 0
     /\ s.free # <<>> \/ Len(s.slots) < MaxSlots
     /\ StoreSnapshot(r, WithEntry([s EXCEPT !.array = NewArray(r),
                              !.data = Overwritten(@, offset, v),
                              !.holes = WithoutHole(s, i, Len(v))],
                           id, offset, Len(v)))
     /\ Expect(r, id, v)
     /\ UNCHANGED <<heldView, garbled>>

(* Set at the end.  With room in the array the bytes are written in place, *)
(* where another snapshot of the array may have written before.            *)
SetAtEnd(r, id, v, inPlace) ==
  LET s == WithoutId(snaps[r], id)
      offset == Len(s.data)
      Shared(q) == inPlace /\ Exists(q) /\ snaps[q].array = s.array
      new == WithEntry([s EXCEPT !.data = @ \o v,
                          !.array = IF inPlace THEN @ ELSE NewArray(r)],
                       id, offset, Len(v))
  IN /\ Exists(r)
     /\ FirstFit(s, Len(v)) = 0
     /\ s.free # <<>> \/ Len(s.slots) < MaxSlots
     /\ offset + Len(v) <= MaxBytes
     /\ snaps' = [q \in Registries |->
          IF q = r THEN new
          ELSE IF Shared(q)
               THEN [snaps[q] EXCEPT !.data = Overwritten(@, offset, v)]
               ELSE snaps[q]]
     /\ heldView' = IF inPlace /\ heldView.array = s.array /\ offset >= heldView.offset
                THEN [heldView EXCEPT !.bytes = Overwritten(@, offset - heldView.offset, v)]
                ELSE heldView
     /\ Expect(r, id, v)
     /\ garbled' = garbled
          \union {q \in Registries \ {r} : Shared(q) /\ Len(snaps[q].data) > offset}
          \union {q \in {"heldView"} : inPlace /\ heldView.array = s.array
                                 /\ \E p \in Registries \ {r} : Exists(p)}

DeleteId(r, id) ==
  /\ Exists(r)
  /\ LookupId(snaps[r].index, id) # 0
  /\ StoreSnapshot(r, WithoutId(snaps[r], id))
  /\ Expect(r, id, NoBytes)
  /\ UNCHANGED <<heldView, garbled>>

(* Mutant: the values are moved in the order of their slots.               *)
CompactedBySlots(s) ==
  LET byte == [j \in DOMAIN s.data |->
        \E h \in ToSet(s.entries) : j - s.slots[h.slot] \in 1 .. h.length]
      Step(acc, h) ==
        [slots |-> [acc.slots EXCEPT ![h.slot] = acc.at], at |-> acc.at + h.length]
      moved == FoldLeft(Step, [slots |-> s.slots, at |-> 0], s.entries)
  IN [slots |-> moved.slots,
      data |-> FoldLeft(LAMBDA d, j : IF byte[j] THEN Append(d, s.data[j]) ELSE d,
                        <<>>, [j \in DOMAIN s.data |-> j])]

(* The values are moved together, in the order of their handles:           *)
(* moved[j] is what the first j of them make.                              *)
Compacting(s) ==
  LET moved[j \in 0 .. Len(s.entries)] ==
        IF j = 0 THEN [slots |-> s.slots, data |-> <<>>]
        ELSE LET h == s.entries[j]
                 acc == moved[j - 1]
             IN [slots |-> [acc.slots EXCEPT ![h.slot] = Len(acc.data)],
                 data |-> acc.data \o BytesAt(s.data, s.slots[h.slot], h.length)]
  IN moved
Compacted(s) == Compacting(s)[Len(s.entries)]

(* Without entries the array is kept and its length set to 0.              *)
Defragment(r) ==
  LET s == snaps[r]
  IN /\ Exists(r)
     /\ s.holes # <<>>
     /\ StoreSnapshot(r, IF s.entries = <<>>
                 THEN [s EXCEPT !.data = <<>>, !.holes = <<>>]
                 ELSE [s EXCEPT !.array = NewArray(r), !.holes = <<>>,
                         !.data = Compacted(s).data, !.slots = Compacted(s).slots])
     /\ garbled' = IF s.entries = <<>> /\ heldView.array = s.array
                   THEN garbled \union {"heldView"} ELSE garbled
     /\ UNCHANGED <<heldView, lastSet>>

(* The bytes of the entries follow each other from 0, without a hole.      *)
InOrder(s) == s.data = Compacted(s).data /\ s.slots = Compacted(s).slots

(* indexed[j]: the index of the first j entries.                           *)
Indexing(s) ==
  LET indexed[j \in 0 .. Len(s.entries)] ==
        IF j = 0 THEN EmptyTable(MinCap)
        ELSE InsertOrUpdate(indexed[j - 1], s.entries[j].id, j)
  IN indexed

(* Export then ImportExport: Write takes the bytes as they are and the     *)
(* entries to follow each other in their order.  Slots without an entry    *)
(* stay dead and off the free list.                                        *)
ImportExport(r) ==
  LET s == snaps[r]
      starts == Compacted(s).slots
      used == {s.entries[j].slot : j \in DOMAIN s.entries}
      slots == [n \in 1 .. (IF used = {} THEN 0 ELSE Max(used)) |-> starts[n]]
  IN /\ Exists(r)
     /\ StoreSnapshot(r, [s EXCEPT !.array = NewArray(r), !.slots = slots, !.free = <<>>,
                    !.holes = <<>>, !.index = Indexing(s)[Len(s.entries)]])
     /\ garbled' = IF InOrder(s) THEN garbled ELSE garbled \union {r}
     /\ UNCHANGED <<heldView, lastSet>>

CloneRegistry(r, q) ==
  /\ Exists(r)
  /\ ~Exists(q)
  /\ StoreSnapshot(q, snaps[r])
  /\ lastSet' = [lastSet EXCEPT ![q] = lastSet[r]]
  /\ garbled' = IF r \in garbled THEN garbled \union {q} ELSE garbled
  /\ UNCHANGED heldView

ClearAll(r) ==
  /\ Exists(r)
  /\ StoreSnapshot(r, NewSnapshot(NewArray(r)))
  /\ lastSet' = [lastSet EXCEPT ![r] = [i \in HandleIds |-> NoBytes]]
  /\ garbled' = garbled \ {r}
  /\ UNCHANGED heldView

(* A handle is replaced by one of the same offset and id.  The code takes  *)
(* any length and leaves it to its caller, which the program has none of,  *)
(* that the value fills it: one beyond the value would read what lies      *)
(* behind it.  Modelled are the lengths the value fills.                   *)
UpdateHandle(r, id, length) ==
  LET pos == LookupId(snaps[r].index, id)
  IN /\ Exists(r)
     /\ pos # 0
     /\ length < snaps[r].entries[pos].length
     /\ StoreSnapshot(r, [snaps[r] EXCEPT !.entries[pos].length = length])
     /\ Expect(r, id, SubSeq(lastSet[r][id], 1, length))
     /\ UNCHANGED <<heldView, garbled>>

HandlesNext ==
  /\ handleSteps < MaxHandleSteps
  /\ handleSteps' = handleSteps + 1
  /\ \E r \in Registries :
       \/ \E id \in HandleIds :
            \/ GetView(r, id)
            \/ DeleteId(r, id)
            \/ \E v \in ByteValues :
                 \/ SetInHole(r, id, v)
                 \/ \E inPlace \in BOOLEAN : SetAtEnd(r, id, v, inPlace)
            \/ \E length \in 0 .. MaxBytes : UpdateHandle(r, id, length)
       \/ Defragment(r)
       \/ ImportExport(r)
       \/ \E q \in Registries : CloneRegistry(r, q)
       \/ ClearAll(r)

HandlesSpec == HandlesInit /\ [][HandlesNext]_handleVars

----------------------------------------------------------------------------
(* Properties.                                                             *)

(* Every id reads the value last set for it, and a value once returned     *)
(* keeps its bytes, through swaps of positions, reuse of slots and holes,  *)
(* moves and rehashes; find always meets an empty cell.  Excepted is what  *)
(* the code gives up: two clones that append to one array, an import of    *)
(* bytes that are not in order, a held view from before an emptying.       *)
ReadsBack ==
  /\ \A r \in Registries \ garbled : Exists(r) =>
       /\ \A id \in HandleIds : ReadValue(snaps[r], id) = lastSet[r][id]
       /\ IdCells(snaps[r].index, "empty") > 0
  /\ "heldView" \notin garbled => heldView.bytes = heldView.had

=============================================================================
