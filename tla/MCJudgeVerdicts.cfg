SPECIFICATION Spec
CONSTANTS
  u1 = u1
  u2 = u2
  p1 = p1
  p2 = p2
  Users = {u1}
  Problems = {p1}
  Codes = {1}
  MaxCodeLen = 1
  CaseLists <- MCCaseLists
  RunResults <- AllRuns
  SpjRuns <- AllSpjRuns
  MaxId = 2
  MayStay = {1, 2}
INVARIANTS NoStaleDir VerdictExplained AcceptedMeansAllCases WorstTime
