SPECIFICATION Spec
CONSTANTS
  backup = backup
  pending = pending
  NoJob = NoJob
  Jobs = {backup, pending}
  Triggered = {backup, pending}
  Cancellable = {pending}
  Threaded = {backup}
  Quiet = {pending}
  MaxRuns = 3
INVARIANTS TypeOK OneRunPerJob HistoryAgrees UncancellableWorkIsTracked
PROPERTIES FinalRowStays PollNeverGoesBack CancelTakesEffect
