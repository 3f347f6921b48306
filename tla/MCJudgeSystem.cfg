SPECIFICATION FairSystem
CONSTANTS
  u1 = u1
  u2 = u2
  Users = {u1, u2}
  Problems = {1}
  Codes = {1}
  MaxCodeLen = 1
  CaseLists <- MCCaseLists
  RunResults <- MCRuns
  SpjRuns <- MCSpjRuns
  MaxId = 2
  MayStay = {}
  MaxPages = 2
  SeedCases <- MCSeed
  Bodies <- MCBodies
  MaxCases = 2
  JudgeTypes = {"exact"}
  MaxRequests = 2
  ListLimit = 1
  MaxRestarts = 1
INVARIANTS PageShowsOwn ViewsAgree JudgedOnCurrentCases
PROPERTIES PageAnswered
