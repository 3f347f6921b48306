SPECIFICATION Spec
CONSTANTS
  Bodies <- MCBodies
  MaxCases = 2
  MaxRequests = 3
INVARIANTS TypeOK CasesNumbered ArraysWhole ReplyTellsEffect ArrayCap
