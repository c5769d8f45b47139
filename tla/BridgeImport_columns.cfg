CONSTANTS
  None = None
  Repos = {a, b, c, d, e, f}
  Commits = {c1}
  Files = 1
  RetryLimit = 1
  MaxJobs = 1
  MaxItems = 6
  Finishes = {TRUE}
  Width = 6
  RepoColumn = 2
  CommitColumn = 3
  ProgressColumn = 4
  ManifestColumn = 5
SPECIFICATION Spec
INVARIANT
  DownloadsAreExact
