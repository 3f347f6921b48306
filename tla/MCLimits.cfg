\* Both limiters: two threads that hold DbLock, and an administrator's login.
SPECIFICATION Spec
CONSTANTS
  t1 = t1
  t2 = t2
  t3 = t3
  r = r
  l = l
  Threads = {t1, t2, t3}
  Locked = {t1, t2}
  Keys = {r, l}
  LoginKeys = {l}
  MaxHits <- MCMaxHits
  Window = 2
  MaxTime = 3
INVARIANTS TypeOK WindowBound RefusalJustified
SYMMETRY MCSymmetry
