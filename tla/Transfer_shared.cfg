\* Two uploads of one path and two callers: answers are lost and uploads expire.
CONSTANTS
  MaxRevisions = 1
  FileIds = {f1}
  Paths = {p1}
  Inspectors = {clamav}
  NoFile = NoFile
  Transfers = {t1, t2}
  Contents = {f1}
  Length = 1
  Callers = {c1, c2}
  Faults = {"lost", "expiry"}
SPECIFICATION Spec
SYMMETRY Symmetry
CHECK_DEADLOCK FALSE
INVARIANTS
  Retryable
PROPERTIES
  IntakeSpec
