SPECIFICATION Spec
CONSTANTS
  keep = keep
  hashes = hashes
  port = port
  backup = backup
  covers = covers
  sync = sync
  Updaters = {u1, u2}
  Names = {keep, hashes, port}
  Editable = {keep, hashes}
  Minimum <- MCMinimum
  Values = {0, 1}
  Base <- MCBase
  None = None
  Jobs <- MCJobs
  OffAtZero = {backup, covers}
  SwitchOf <- MCSwitchOf
  MaxUpdates = 2
  MaxCrashes = 0
INVARIANT ScheduleFollowsSettings
\* No more updates are asked for: the system rests.
CHECK_DEADLOCK FALSE
