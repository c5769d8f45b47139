CONSTANTS
  None = None
  Requests = {q1, q2}
  Models = {m1, m2}
  Timers = {t1, t2, t3}
  MaxStarts = 2
SPECIFICATION Spec
CHECK_DEADLOCK FALSE
INVARIANTS
  TypeOK
  LeasesCounted
  LoadedIsOurs
PROPERTIES
  NeverStopBusy
  IdleUnloads
