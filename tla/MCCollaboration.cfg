CONSTANTS
  Writers = {w1, w2}
  SafetySlots = 1
  Capacity = 4
  Reserve = 1
  MaxId = 3
  MaxOthers = 1
  MaxCrashes = 1
  Owner = "owner"
  Producer = "producer"
  Seats = {"architect", "tester"}
  Required = {"architect"}
  Changes <- MCChanges
  MaxCandidates = 2
  MaxRecords = 2
  MaxSyntheses = 1
  MaxUnfreezes = 1
SPECIFICATION MCSpec
SYMMETRY MCSymmetry
CHECK_DEADLOCK FALSE
INVARIANTS
  WriteAhead
  SettledTruthfully
  
  
  
