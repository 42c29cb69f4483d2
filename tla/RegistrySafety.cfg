CONSTANTS
  admin = admin
  reader = reader
  Clients = {admin, reader}
  May <- MCAnything
  Versions = {v1, v2}
  NoVersion = NoVersion
  MaxRows = 2
SPECIFICATION Spec
INVARIANTS ActiveIsListed CacheCoherent TablesExist
PROPERTY SequentiallyAtomic
SYMMETRY MCSymmetry
