\* One caller.
CONSTANTS
  admin = admin
  reader = reader
  Clients = {admin}
  May <- MCAnything
  Versions = {v1, v2}
  NoVersion = NoVersion
  MaxRows = 2
SPECIFICATION Spec
INVARIANT ActiveTableExists
