SPECIFICATION Spec
CONSTANTS
  Threads = {t1, t2}
  Sessions = {s1}
  Keys = {k1, k2}
  Epoch = 6
  Horizon = 15
  Stall = 1
  TTL = 4
  MaxLife = 6
  MaxAttempts = 2
  Lockout = 3
  KeepFor = 4
  Window = 3
  Limit = 2
  Surplus = 1
  CacheFor = 2
  ProbeAge = 2
  MaxProbes = 1
SYMMETRY Interchangeable
INVARIANTS TypeOK NobodyOutlives StaysLoggedIn GuessesBounded SpanBounded AnswerIsFresh ProbeInUseStays
CHECK_DEADLOCK FALSE
