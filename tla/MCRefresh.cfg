SPECIFICATION Spec
CONSTANTS
  Staff = {1, 2}
  BranchOf <- SameBranch
  Reports <- OneByOne
  Tasks = {t1, t2}
  MaxChanges = 2
  NoRow = NoRow
  NoTask = NoTask
SYMMETRY TaskSymmetry
INVARIANTS
  TypeOK
  NeverBehindQuiet
  
  FetchedInFlight
