CONSTANTS
  Torn = Torn
  Kinds <- RequestKinds
  Hangs = {"boot", "early"}
  Faults = {"audit", "stdin", "stdout", "crash"}
  LogBeside = TRUE
  MaxRequests = 2
  MaxEdits = 2
  MaxBoots = 2
SPECIFICATION Spec
INVARIANTS TypeOK QuietMeansCurrent AnswersAreRecorded OneUnrecordedPerProcess
PROPERTIES EditsAreLoaded EveryRequestAnswered
CHECK_DEADLOCK FALSE
