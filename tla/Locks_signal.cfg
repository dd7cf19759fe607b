SPECIFICATION LocksSpec
CONSTANTS
  t1 = t1
  t2 = t2
  t3 = t3
  t4 = t4
  a = a
  b = b
  c = c
  Nobody = Nobody
  Threads = {t1, t2, t3}
  SpinCount = 2
  MaxCalls = 2
INVARIANT LockSurvivesSignals
