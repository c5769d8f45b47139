\* README: parsed offline before publication.
CONSTANTS
  MaxRevisions = 1
  FileIds = {f1, f2}
  Paths = {p1, p2}
  Inspectors = {clamav}
  Workers = {w1, w2}
  Crashes = FALSE
  NoFile = NoFile
SPECIFICATION Spec
SYMMETRY Symmetry
INVARIANTS
  PublishedFilesParsed
