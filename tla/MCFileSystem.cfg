SPECIFICATION Spec
CONSTANTS
  MAX_FILES = 2
  DATA_SIZE = 2
  Name <- LongNames
  stored <- LongStored
  Byte = {1, 2}
  Payload <- Writes
  Lengths = {0, 1, 3}
INVARIANTS TypeOK ContentIsLastWrite NamesIdentifyFiles
CHECK_DEADLOCK FALSE
