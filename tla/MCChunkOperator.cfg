SPECIFICATION Spec
CONSTANTS
  Caller = {a, b}
  Worker = {w1, w2}
  Task = {t1, t2, t3}
  MayFail = TRUE
INVARIANTS TypeOK
PROPERTIES WaitedForAll PoolImplemented WaitReturns FailureExits
