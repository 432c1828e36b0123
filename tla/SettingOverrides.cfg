SPECIFICATION Spec
CONSTANTS
  keep = keep
  hashes = hashes
  port = port
  backup = backup
  covers = covers
  sync = sync
  Updaters = {u1}
  Names = {keep, hashes, port}
  Editable = {keep, hashes}
  Minimum <- MCMinimum
  Values <- MCValues
  Base <- MCBase
  None = None
  Jobs <- MCJobs
  OffAtZero = {backup, covers}
  SwitchOf <- MCSwitchOf
  MaxUpdates = 2
  MaxCrashes = 1
INVARIANTS AnswersHold ScheduleFollowsFile
\* No more updates are asked for: the system rests.
CHECK_DEADLOCK FALSE
