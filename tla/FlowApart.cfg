SPECIFICATION Spec
CONSTANTS
  s1 = s1
  s2 = s2
  p1 = p1
  p2 = p2
  h1 = h1
  h2 = h2
  Scan = {s1, s2}
  Project = {p1, p2}
  Hash = {h1}
  ProjectOf <- ApartProjects
  Job <- ApartJobs
  Reports <- ApartReports
  MaxFaults = 1
PROPERTY
  ImplementsLedger
