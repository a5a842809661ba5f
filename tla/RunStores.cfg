SPECIFICATION Spec
CHECK_DEADLOCK FALSE
CONSTANTS
  Stores = {s1, s2}
  SegmentSize = 2
  RecordLimit = 2
  MaxId = 3
  MaxOthers = 1
INVARIANTS
  SourceReadable
  AdmissionTruthful
PROPERTIES
  LogSpec
