CONSTANTS
  None = None
  Repos = {a, b, c}
  Commits = {c1}
  Files = 1
  RetryLimit = 2
  MaxJobs = 1
  MaxItems = 3
  Finishes = {TRUE, FALSE}
  Width = 2
  RepoColumn = 1
  CommitColumn = 2
  ProgressColumn = 2
  ManifestColumn = 2
SPECIFICATION Spec
PROPERTY
  EveryImportEnds
