SPECIFICATION ListSpec
CONSTANTS
  issue1 = issue1
  issue2 = issue2
  issue3 = issue3
  VolumeIssues = {issue1, issue2, issue3}
  Numbers = {issue2}
  ListClients = {"a"}
  Worker = "worker"
  ListPageSize = 1
  MaxIssues = 2
  First <- MCFirst
  MaxListEdits = 1
  MaxListTroubles = 2
INVARIANTS SyncedIsWhole ListReadOnce
PROPERTIES EveryLookupEnds
