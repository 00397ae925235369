SPECIFICATION FairSpec
CONSTANTS
  c1 = c1
  c2 = c2
  w1 = w1
  v1 = v1

  NoRole = NoRole
  NoFigure = NoFigure
  NoSnapshot = NoSnapshot
  NoCompany = NoCompany
  Companies <- TwoCompanies
  Workers <- OneWorker
  Viewers <- OneViewer
  Shells <- OneWorker
  GroupChoices <- MCGroup
  LinkChoices <- MCLink
  TenantChoices <- OpenTenant
  FirstGroups <- OpenGroup
  FirstLinks <- OpenLink
  Figures <- MCFigures
  MaxChanges = 1
  MaxCommands = 1
  MaxMishaps = 1
  MaxQueue = 1
INVARIANTS
  RunningRowsAreLive
PROPERTIES
  ImplementsContract
  OldIsReplaced
  BlockedLeavesTotal
CHECK_DEADLOCK FALSE
