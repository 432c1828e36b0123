SPECIFICATION Spec
CONSTANTS
  Issues = {1, 2}
  Volumes = {{1, 2}}
  Clients = {c1}
  Old = {1}
  Imported = {2}
  BeforeCutoff = {}
  OutOfWindow = {}
  PageSize = 1
  MaxEdits = 1
  MaxTroubles = 1
INVARIANTS TypeOK FreshIsWhole UpdatesSurvive
PROPERTIES EveryIssueGetsDetails
