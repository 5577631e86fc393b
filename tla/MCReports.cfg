SPECIFICATION Spec
CONSTANTS
  e1 = e1
  e2 = e2
  Employees = {e1, e2}
  Handlers = {h1}
  Job = Job
  Thresholds = {0, 1, 2}
  Percents = {0, 1, 2, 3}
  Texts <- SomeTexts
  Default <- Defaults
  NoRule = NoRule
  NoRow = NoRow
  NoGoal = NoGoal
  NoTask = NoTask
  MaxEdits = 2
  MaxChanges = 1
SYMMETRY EmployeeSymmetry
INVARIANTS
  TypeOK
  EarnedAsWritten
  GoalIsNext
  ToldWasDue
  NobodyForgotten
  
