CONSTANTS
  k1 = k1
  k2 = k2
  k3 = k3
  Keys = {k1, k2}
  NoHand = NoHand
  MaxEntries = 2
  NumShards = 1
  ShardOf <- MCOneShard
  Writers = {w1}
  WriteTtls = {"never"}
  High = 2
  Low = 1
  EvictionBatch = 1
  JanitorBatch = 2
SPECIFICATION FairSpec
PROPERTY HighWatermarkServed
