CONSTANTS
  k1 = k1
  k2 = k2
  k3 = k3
  Keys = {k1, k2, k3}
  NoHand = NoHand
  MaxEntries = 2
  NumShards = 2
  ShardOf <- MCOneShard
  Writers = {w1}
  WriteTtls = {"never", "live"}
  High = 2
  Low = 1
  EvictionBatch = 1
  JanitorBatch = 2
SPECIFICATION Spec
INVARIANTS BookkeepingAccurate CapHolds EvictedOnce
PROPERTY ReadEntriesSpared
SYMMETRY KeySymmetry
