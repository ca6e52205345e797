SPECIFICATION ReadSpec
CONSTANTS
  s1 = s1
  s2 = s2
  s3 = s3
  p1 = p1
  h1 = h1
  h2 = h2
  Scan = {s1, s2, s3}
  Project = {p1}
  Hash = {h1}
  ProjectOf <- ReadProjects
  Job <- ReadJobs
  Reports <- ReadReports
  MaxFaults = 0
  Requests <- ReadRequests
CONSTRAINTS
  UntilAnswered
  UnderDiff
INVARIANTS
  CompletedIsShownWhole
  DiffIsExact
  TrendsAddUp
