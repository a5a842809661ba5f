SPECIFICATION WorldSpec
CONSTANTS
  Slugs = {"s1"}
  CoreRegions = {"terrain", "laws"}
  Texts = {"map", "rules"}
  Settings = {"v1"}
  Operators = {o1, o2}
  o1 = o1
  o2 = o2
  MaxEdits = 2
  MaxRefines = 2
  Regions <- MCRegions
  HeadHits <- MCHeadHits
  BodyHits <- MCBodyHits
SYMMETRY MCSymmetry
INVARIANTS
  AlignedMeansAgreed
  AppliedIsSound
CHECK_DEADLOCK FALSE
