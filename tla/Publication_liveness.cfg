\* Two requests that nobody kills, on one revision.
CONSTANTS
  MaxRevisions = 1
  FileIds = {f1, f2}
  Paths = {p1}
  Inspectors = {clamav}
  Workers = {w1, w2}
  Crashes = FALSE
  NoFile = NoFile
SPECIFICATION FairSpec
PROPERTIES
  ScanningResolves
  RequestsAnswer
