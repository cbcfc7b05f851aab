SPECIFICATION Spec
CONSTANTS
  Kinds = {"transaction"}
  MaxWire = 2
  MaxChunk = 1
  MaxFaults = 1
  MaxCrashes = 1
PROPERTY StagedUntilHeard
CHECK_DEADLOCK FALSE
