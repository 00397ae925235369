SPECIFICATION CompaniesSpec
CONSTANTS
  n1 = n1
  n2 = n2
  d1 = d1
  d2 = d2
  p1 = p1
  i1 = i1
  i2 = i2
  i3 = i3
  a1 = a1
  a2 = a2
  o1 = o1
  NoPage = NoPage
  Nothing = Nothing
  NoId = NoId
  Names <- MCNames
  Domains <- MCDomains
  People <- MCPeople
  Ids <- MCIds
  Platform <- MCPlatform
  Company <- MCCompany
  Defaults <- MCDefaults
  Touched <- MCTouched
  Granted <- MCGranted
  MaxPages = 2
SYMMETRY Alike
INVARIANTS
  NamesAreOwned
  CreatedAreWhole
  RefusedLeaveNothing
  SavedMenusMatchGates
PROPERTY EditsStayInTheirSection
CHECK_DEADLOCK FALSE
