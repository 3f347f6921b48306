SPECIFICATION FairSpec
CONSTANTS
  u1 = u1
  u2 = u2
  p1 = p1
  p2 = p2
  Users = {u1, u2}
  Problems = {p1}
  Codes = {0, 1, 2}
  MaxCodeLen = 1
  CaseLists <- OneCaseList
  RunResults <- FewRuns
  SpjRuns <- FewSpjRuns
  MaxId = 3
  MayStay = {1}
INVARIANTS TypeOK InOrder SameOwner
PROPERTIES AnswersAreFinal StatsNeverShrink ImplementsService EventuallyJudged StopEnds
