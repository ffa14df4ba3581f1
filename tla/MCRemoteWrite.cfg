CONSTANTS
  s1 = s1
  s2 = s2
  prod = prod
  dev = dev
  p = p
  A = A
  B = B
  w1 = w1
  w2 = w2
  db = db
  None = None
  Blank = Blank
  Keys = {A, B}
  Words = {w1, w2}
  Tails = {}
  NoTail = NoTail
  Raw = {Blank}
  Servers = {s1, s2}
  Aliases = {prod}
  Paths = {p}
  SecretNames = {db}
  ConfigFiles <- SharedAlias
  Values <- MCValues
  Edits <- MCEdits
  WriteCalls <- WriteA
  DeployCalls <- DeployA
  Env = {"edit", "raceEdit", "reload", "secret", "restart", "stat"}
  MaxCalls = 4
  MaxEvents = 2
SPECIFICATION Spec
INVARIANTS TypeOK OnlyPreviewedChanges NoReplay
PROPERTIES ImplementsPreviewGate OneServerPerCall
CHECK_DEADLOCK FALSE
