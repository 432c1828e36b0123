SPECIFICATION Spec
CONSTANTS
  issue = issue
  annual = annual
  list = list
  issueEndpoint = issueEndpoint
  listEndpoint = listEndpoint
  filler = filler
  Items = {issue, annual, list}
  Lists = {list}
  Endpoints = {issueEndpoint, listEndpoint}
  EndpointOf <- MCEndpointOf
  Clients = {c1}
  Worker = worker
  NoItem = NoItem
  Backfills = {filler}
  BackfillOf <- MCBackfillOf
  Limit = 2
  Reserve = 1
  Budget = 3
  Batch = 1
  MaxAttempts = 2
  MaxPages = 2
  MaxRequests = 3
  MaxTroubles = 2
INVARIANTS OwedIsQueued
PROPERTIES WindowsSpec QueueDrains
