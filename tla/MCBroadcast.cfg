SPECIFICATION BSpec
CONSTANTS
  e1 = e1
  e2 = e2
  m1 = m1
  Managers = {m1}
  NBranches = 2
  Office = Office
  Staff = {e1, e2}
  BranchOf <- OneInEach
  NoText = NoText
  Actor = m1
  TextSet = {x1, x2}
  Presses = {p1, p2}
  MaxScreens = 4
  MaxChanges = 2
SYMMETRY PressSymmetry
INVARIANTS
  BTypeOK
  OnlyPermitted
  ConfirmedScope
