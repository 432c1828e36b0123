SPECIFICATION SearchSpec
CONSTANTS
  Queries = {"bat", "batman tales"}
  Volumes = {1, 2, 3}
  Hits <- MCHits
  Named <- MCNamed
  Worded <- MCWorded
  Broader <- MCBroader
  Clients = {"a", "b"}
  Worker = "worker"
  PageSize = 1
  MaxPages = 3
  First <- MCFirst
  MaxEdits = 1
  MaxSearchTroubles = 1
INVARIANTS CompleteMeansAll OneFillPerSearch
PROPERTIES FillsEnd
