SPECIFICATION Spec
CONSTANTS
  pw1 = pw1
  pw2 = pw2
  Names = {"Ann", "ann", "bob"}
  Key <- MCKey
  Passwords = {pw1, pw2}
  Salts = {1}
  UserTtl = 1
  AdminTtl = 1
  MaxTokens = 2
  MaxTime = 1
SYMMETRY SamePasswords
INVARIANTS TypeOK EndedStaysEnded
PROPERTIES RegisterAnswers LoginAnswers AcceptedRightly RefusalExplained
