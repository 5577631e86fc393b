SPECIFICATION Spec
CONSTANTS
  Managers = {m1, m2}
  NBranches = 2
  Office = Office
SYMMETRY ManagerSymmetry
INVARIANTS
  ListedIffOpens
  RightsDieWithBranch

  
