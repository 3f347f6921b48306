SPECIFICATION Spec
CONSTANTS
  u1 = u1
  u2 = u2
  p1 = p1
  p2 = p2
  Users = {u1}
  Problems = {p1}
  Codes = {1}
  MaxCodeLen = 1
  CaseLists <- OneCaseList
  RunResults <- FewRuns
  SpjRuns <- FewSpjRuns
  MaxId = 1
  MayStay = {}
INVARIANT SourceKept
