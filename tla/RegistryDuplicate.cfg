\* One caller creates, another looks the name up.
CONSTANTS
  admin = admin
  reader = reader
  Clients = {admin, reader}
  May <- MCCreateAndGet
  Versions = {v1, v2}
  NoVersion = NoVersion
  MaxRows = 2
SPECIFICATION Spec
INVARIANT AtMostOneEntry
