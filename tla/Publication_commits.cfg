\* Uploads, deletions and submissions racing on a revision of up to two files,
\* its release, and the commit copied from it; requests may die anywhere.
CONSTANTS
  MaxRevisions = 2
  FileIds = {f1, f2}
  Paths = {p1, p2}
  Inspectors = {clamav}
  Workers = {w1, w2}
  Crashes = TRUE
  NoFile = NoFile
SPECIFICATION Spec
SYMMETRY Symmetry
INVARIANTS
  TypeOK
  SealedReleases
  ScanningHasOwner
  CandidateHeld
  DecisionsMatch
PROPERTIES
  ReleaseImmutable
  CatalogSpec
