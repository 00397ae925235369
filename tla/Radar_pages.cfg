SPECIFICATION MCSpec
CONSTANTS
  c1 = c1
  c2 = c2
  h1 = h1
  h2 = h2
  NoFigures = NoFigures
  Requests = {h1, h2}
  NoDay = NoDay
  Words <- MCWords
  FirstDay = 100
  LastHour = 1
  Clients = {c1, c2}
  Rows <- MCRows
  Table <- MCTable
  Forms <- MCForms
  Cards <- MCCards
  Packs = {"broker", "servicios", "condominio", "retail_moda", "general"}
  Viewers <- MCViewers
  Days <- MCDays
INVARIANT ClientPagesOpen
