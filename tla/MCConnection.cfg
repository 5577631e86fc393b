SPECIFICATION LiveSpec
CONSTANTS
  e1 = e1
  g1 = g1
  g2 = g2
  g3 = g3
  p1 = p1
  p2 = p2
  NoTg = NoTg
  NoTask = NoTask
  NoCode = NoCode
  CodeFor <- AllForOne
  Tg = {g1, g2, g3}
  Employees = {e1}
  Codes = {c1, c2}
  Tasks = {p1, p2}
INVARIANTS
  TypeOK
  LinkHasUsedCode
  RedeemedInFlight
  GoneIsUnlinked
PROPERTIES
  EveryTaskEnds
  KeepsPromise
