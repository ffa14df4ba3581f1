CONSTANTS
  Torn = Torn
  Kinds <- ToolKinds
  Hangs = {}
  Faults = {}
  LogBeside = FALSE
  MaxRequests = 1
  MaxEdits = 0
  MaxBoots = 1
SPECIFICATION Spec
INVARIANTS EveryCallAudited
CHECK_DEADLOCK FALSE
