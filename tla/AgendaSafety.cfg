SPECIFICATION Spec
CONSTANTS
  NbJobs = 3
  t1 = t1
  t2 = t2
  t3 = t3
  Tasklets = {t1, t2, t3}
  Closure <- EveryKind
  NoTasklet = NoTasklet
  MaxAdds = 2
  MaxWaitLoop = 1
INVARIANTS
  TypeOK
  LockInv
  SerializedAfterWait
  OrderKept
  LateFetchBound
  NoTaskletAtCollection
  OwnClosure
CHECK_DEADLOCK FALSE
