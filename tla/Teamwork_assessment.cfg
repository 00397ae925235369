SPECIFICATION AssessmentSpec
CONSTANTS
  k1 = k1
  k2 = k2
  a = a
  b = b
  r1 = r1
  r2 = r2
  a1 = a1
  a2 = a2
  w1 = w1
  w2 = w2
  NoCard = NoCard
  Keys <- MCKeys
  Stages <- MCStages
  StageChoices <- Choices
  FirstLists <- TwoPipelines
  Requests <- MCRequests
  Cards <- MCCards
  FirstCards <- TwoAndOne
  MaxArrivals = 2
  Questions <- MCQuestions
  Ratings <- MCRatings
  Blank = Blank
  Answerers <- MCAnswerers
  MaxVisits = 4
SYMMETRY AnswersAlike
INVARIANTS
  ScoreFitsAnswers
PROPERTIES
  CompletedIsClosed
CHECK_DEADLOCK FALSE
