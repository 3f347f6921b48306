\* The limiter of logins alone.
SPECIFICATION Spec
CONSTANTS
  t1 = t1
  t2 = t2
  t3 = t3
  r = r
  l = l
  Threads = {t1, t2}
  Locked = {t1}
  Keys = {l}
  LoginKeys = {l}
  MaxHits <- MCMaxHits
  Window = 2
  MaxTime = 4
INVARIANT LoginWindowBound
