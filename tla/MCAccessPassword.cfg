SPECIFICATION Spec
CONSTANTS
  t1 = t1
  t2 = t2
  Tg = {t1, t2}
  Employees = {e1}
  Invites = {i1}
  NoTg = NoTg
  MaxCodes = 1
SYMMETRY AccountSymmetry
INVARIANT
  PasswordReachesHandler
