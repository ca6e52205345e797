SPECIFICATION FairSpec
CONSTANTS
  s1 = s1
  s2 = s2
  p1 = p1
  p2 = p2
  h1 = h1
  h2 = h2
  Scan = {s1, s2}
  Project = {p1}
  Hash = {h1}
  ProjectOf <- PairProjects
  Job <- LiveJobs
  Reports <- LiveReports
  MaxFaults = 1
INVARIANT
  CompletedIsComplete
PROPERTIES
  WorkerEnds
  NoScanRunsForever
