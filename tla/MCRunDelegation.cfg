SPECIFICATION Spec
CHECK_DEADLOCK FALSE
SYMMETRY MCSymmetry
CONSTANTS
  p1 = p1
  p2 = p2
  note1 = note1
  note2 = note2
  root = root
  child = child
  edit = edit
  merge = merge
  Procs = {p1, p2}
  Grants = {root, child}
  ParentOf <- MCParentOf
  MaxAttempts <- MCMaxAttempts
  MaxEffects <- MCMaxEffects
  Ops = {edit, merge, note1, note2}
  KindOf <- MCKindOf
  OracleOf <- MCOracleOf
  MaxGen = 1
INVARIANTS
  EffectOnce
  BudgetConserved
PROPERTIES
  RecordBinds
