SPECIFICATION Spec
CONSTANTS
  a = a
  b = b
  work = work
  side = side
  api = api
  web = web
  Process = {a, b}
  Target = {work, side, web}
  Name = {api, web}
  NameOf <- MCNameOf
  MaxScans = 5
  MaxKills = 2
INVARIANTS
  RecordedIsApplied
PROPERTIES
  
  AloneOpens
