CONSTANTS
  MaxRevisions = 1
  FileIds = {f1}
  Paths = {p1}
  Inspectors = {clamav}
  NoFile = NoFile
  Transfers = {t1}
  Contents = {f1}
  Length = 2
  Callers = {c1, c2, c3}
  Faults = {"lost", "crash", "expiry"}
SPECIFICATION Spec
SYMMETRY Symmetry
INVARIANTS
  TypeOK
  LedgerBehindDisk
  ReadyIsStored
  OneOutcome
PROPERTIES
  OffsetStays
