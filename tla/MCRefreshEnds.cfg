SPECIFICATION FairSpec
CONSTANTS
  Staff = {1, 2, 3}
  BranchOf <- OneAndThree
  Reports <- ByBranch
  Tasks = {t1, t2}
  MaxChanges = 0
  NoRow = NoRow
  NoTask = NoTask
PROPERTIES
  EveryTaskEnds
