CONSTANTS
  Goroutines = {s1, s2, s3}
  Uses = {"transact", "write", "direct", "read"}
  None = None
  Columns <- MCColumns
  NeedsCopy = {3}
  Documents = {d}
  Docs = {d1, d2}
  NoDoc = nothing
  Writers = {w}
  Clients = {c1, c2}
  Keys = {k1, k2}
  HomeKey <- MCHomeKey
  Contents = {shown, hidden}
  Selected = {shown}
  Nothing = nothing
  Callers = {c1, c2}
  Ids = {A, B}
  Revisions = {r1, r2}
  NoModel = nothing
  Threads = {c1, c2}
  Labels = {A, B}
  Names = {n1, n2}
  NoLabel = nothing
  MaxSubscriptions = 1
  Operations = {read1, read2, write1, write2}
  OpKind <- MCOpKind
  InTransaction = {read2, write1, write2}
  Subscribers = {exactSuccess, exactStart, exactRead, wild, createPattern}
  Pattern <- MCPattern
  d1 = d1
  d2 = d2
  k1 = k1
  k2 = k2
  read1 = read1
  read2 = read2
  write1 = write1
  write2 = write2
  exactSuccess = exactSuccess
  exactStart = exactStart
  exactRead = exactRead
  wild = wild
  createPattern = createPattern
  Registries = {main, clone}
  FirstRegistry = main
  HandleIds = {1, 2}
  IdHash <- MCIdHash
  ByteValues <- MCByteValues
  MinCap = 4
  CompactionThreshold = 2
  MaxSlots = 2
  MaxBytes = 4
  MaxHandleSteps = 4
  ObjectSchemas <- MCObjects
  Roots = {"Person", "Flat"}
  Handles = {h1, h2}
  Assignments <- MCAssignments
  Leaves = {leaf1, leaf2}
  leaf1 = leaf1
  leaf2 = leaf2
  Misfit = Misfit
  ExplicitNull = ExplicitNull
  Panic = Panic
  Unheld = Unheld
  Containers = {1, 2, 3, 4, 5, 6, 7, 8, 9, 10, 11, 12, 13, 14}
  Records = {21, 22, 23, 24}
  MaxPooled = 3
  MaxDocumentSteps = 4
  Texts = {text1, text2}
  Numerals = {number1}
  text1 = text1
  text2 = text2
  number1 = number1
  Null = Null
  Missing = Missing
  Items = Items
  ItemKey = ItemKey
  RootKey = RootKey
  SchemaOf <- MCSchemas
  RootSchemas <- MCRoots
  DocumentsOf <- MCDocuments
  FurtherOf <- MCFurther
  MaxDepth = 4
  Capabilities <- MCCapabilities
  Stores <- MCStores
  OtherRows <- MCOtherRows
  Queries <- MCQueries
  Changes <- MCChanges
  JoinConditions <- MCJoins
  Editors = {e1}
  NewId = 104
  IdTexts = {101, 102, 103, 104}
  IdPath <- MCIdPath
  VersionPath <- MCVersionPath
  DataPath <- X
  NoValue = NoValue
  MaxEdits = 2
  SqlFields <- MCSqlFields
  FieldOrder <- MCFieldOrder
  PathOrder <- MCPathOrder
  MainTable = "items"
  SideRows <- MCSideRows
  StartRows <- MCStartRows
  Inserts <- MCInserts
  Updates <- MCUpdates
  Deletes <- MCDeletes
  Selects <- MCSelects
  Unsafe = {"a;b"}
  Within <- MCWithin
  LowerCase <- MCLowerCase
  SqlNull = SqlNull
  NoAlias = NoAlias
  MaxStatements = 3
  SchemaRevisions <- MCRevisions
  StoredDocuments <- MCStored
  MaxMigrations = 2
  AuthoredSchemas <- MCSchemaForms
  CompiledSchemas <- MCCompiledSchemas
  FormatVersions = {3, 4}
  FormatVersion = 4
  WordBits = 4
  Uuids <- MCUuids
  WrittenSchemas <- MCWritten
  Unwritten = Unwritten
SPECIFICATION Spec
INVARIANTS
  TransactionsSerialized CommitsAccumulate LocksOwned
  AckedReadable ActiveSchemaFits RetryPossible LiveCoherent ModelCoherent
  CollectionsReachable HandlersTracked ToldExactlyOnce
  ReadsBack VerdictFollowsSchema AnswersWhole ReturnsUpdated
  DocumentsReadBack StatementsMean
  DiffInverts MinorKeepsDocuments 
  SchemaFormsAgree CompiledReadsBack AcceptedCompiles
PROPERTY NoLostUpdate
CHECK_DEADLOCK FALSE
