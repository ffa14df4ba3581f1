CONSTANTS
  Requests <- Some
  GcloudFlags <- Known
  Project = "pinned"
  DefaultZone = "default"
  Unset = "unset"
  Capacity = 2
  MaxOutput <- Twice
  Child = {"hang", "orphan"}
  Faults = {"fail", "crash"}
SPECIFICATION Spec
INVARIANTS TypeOK OutputIsWhole KeyIsGone RunsAsPinned RunsWhereAsked
PROPERTIES CallEnds
CHECK_DEADLOCK FALSE
