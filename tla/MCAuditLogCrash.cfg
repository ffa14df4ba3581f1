CONSTANTS
  i1 = i1
  user = user
  tool = tool
  server = server
  read = read
  key = key
  done = done
  failed = failed
  Genesis = Genesis
  Instances = {i1}
  Pieces = {user, tool, server, read, key, done, failed}
  Data <- Four
  Faults = {"crash"}
  MaxLines = 4
SPECIFICATION Spec
INVARIANTS StaysReadable
CHECK_DEADLOCK FALSE
