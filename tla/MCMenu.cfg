SPECIFICATION Spec
SYMMETRY Alike
CONSTANTS
  Tasks = {t1, t2}
  Employees = 2
  Slots = {m1, m2}
  FirstDays <- MCFirstDays
  Midnights = 2
  MaxShifts = 1
  Catalogues <- MCCatalogues
  UserToken = FALSE
  Lines <- MCLines
  Categories <- MCCategories
  Figures <- MCFigures
  MaxPages = 3
  BatchSize = 2
  ShortPage = 2
  PageSize = 2
  PartSize = 2
  PartLines = 7
  Aliases <- MCAliases
  Contained <- MCContained
  Length <- MCLength
INVARIANTS
  MTypeOK
  OneSpan
  Navigable
  
  WholeList
  
