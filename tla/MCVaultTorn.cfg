CONSTANTS
  db = db
  api = api
  v1 = v1
  v2 = v2
  cli = cli
  server = server
  None = None
  Empty = Empty
  Torn = Torn
  Procs = {cli, server}
  Names = {db, api}
  Values = {v1, v2}
  Backends = {"json"}
  Legacy <- OneFile
  Operations <- TwoSets
  Serial = FALSE
  Faults = {}
  Files = {1, 2, 3}
  MaxOps = 2
SPECIFICATION Spec
PROPERTY VaultIsWhole
CHECK_DEADLOCK FALSE
