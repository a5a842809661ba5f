CONSTANTS
  p1 = p1
  p2 = p2
  Procs = {p1, p2}
  OwnerOf <- MCOwnerOf
  Candidates = {1, 2}
  Versions = {1, 2}
  Oracles = {1, 2}
  OracleOf <- MCOracleOf
  Ops = {stop}
  KindOf <- MCKindOf
  StopOp = stop
  MaxGen = 1
  MaxDetours = 2
  Callers = {c1, c2}
  Policies <- MCPolicies
  Failures <- MCFailures
  MaxStarts = 2
  MaxForeign = 1
  MaxText = 2
  MaxAnswers = 2
  MaxSpecs = 2
  Goals = {1, 2}
  Goal = 1
  Parts = {3, 4, 5}
  Drafts <- MCDrafts
SPECIFICATION MCSpec
SYMMETRY MCSymmetry
CHECK_DEADLOCK FALSE
INVARIANTS
  RunCurrent
  
  
  
  ClosureSound

  
