CONSTANTS
  None = None
  Repos = {a, b}
  Commits = {c1, c2}
  Files = 1
  RetryLimit = 1
  MaxJobs = 2
  MaxItems = 4
  Finishes = {TRUE}
  Width = 2
  RepoColumn = 1
  CommitColumn = 2
  ProgressColumn = 2
  ManifestColumn = 2
SPECIFICATION Spec
SYMMETRY Symmetry
INVARIANTS
  TypeOK
  OneImportAtATime
  CompleteIsRecorded
PROPERTIES
  RetriedBeforeDestination
