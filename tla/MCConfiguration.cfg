CONSTANTS
  openai1 = openai1
  openai2 = openai2
  claude1 = claude1
  Catalog = {openai1, openai2, claude1}
  SubscriptionOf <- MCSubscriptionOf
  FamilyOf <- MCFamilyOf
  RoleOptions <- MCRoleOptions
  SavedPolicies <- MCSavedPolicies
  Reports <- MCReports
  MaxObservations <- MCMaxObservations
  Exclusions <- MCExclusions
  MaxTime = 2
  NoModel = NoModel
  p1 = p1
  p2 = p2
  Procs = {p1, p2}
  Selections = {"d1", "d2"}
  Layouts <- MCLayouts
  MaxPlans = 2
  MaxReceipts = 2
  MaxDisturbances = 1
SPECIFICATION MCSpec
SYMMETRY MCSymmetry
CHECK_DEADLOCK FALSE
INVARIANTS
  VerifiedQuotaOnly
  
PROPERTIES
  SwitchesNeverStorm
  NoLostUpdate
