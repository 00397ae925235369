SPECIFICATION MCSpec
CONSTANTS
  c1 = c1
  c2 = c2
  c3 = c3
  d = d
  p = p
  t = t
  o = o
  legal = legal
  mail = mail
  r1 = r1
  r2 = r2
  NoClient = NoClient
  Clients <- MCClients
  Deals = {d}
  Proposals = {p}
  Tasks = {t}
  Papers = {}
  Customs = {o}
  Keys <- MCKeys
  Rank <- MCRank
  Answers = {"accepted"}
  Requests <- MCRequests
  MaxSaves = 3
  MaxDeaths = 1
  FirstRows <- MCFirstRows
SYMMETRY Alike
INVARIANTS
  DatesFitStatus
  HistoryTellsRows
  LinksAgree
  TwinsNeedARace
  TrailsAgree
CHECK_DEADLOCK FALSE
