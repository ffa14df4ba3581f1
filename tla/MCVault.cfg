CONSTANTS
  db = db
  api = api
  v1 = v1
  v2 = v2
  cli = cli
  server = server
  None = None
  Empty = Empty
  Torn = Torn
  Procs = {cli, server}
  Names = {db, api}
  Values = {v1, v2}
  Backends = {"json", "keychain"}
  Legacy <- LegacyFiles
  Operations <- AllOps
  Serial = TRUE
  Faults = {"crash", "fail"}
  Files = {1, 2, 3}
  MaxOps = 4
SPECIFICATION Spec
INVARIANTS TypeOK ReportsAreKept
PROPERTIES VaultIsWhole ImplementsAtomicVault
CHECK_DEADLOCK FALSE
