SPECIFICATION MCSpec
CONSTANTS
  job = job
  person = person
  nobody = nobody
  Branches <- MCBranches
  Staff <- MCStaff
  Services <- MCServices
  BranchOf <- MCBranchOf
  Tasks = {job, person}
  Job = job
  NoTask = nobody
  MaxEvents = 3
INVARIANTS
  TypeOK
  AloneShowsAnswer
  VerdictTells
PROPERTIES
  OnlyMissingLeave
  Converges
