SPECIFICATION Spec
CONSTANTS
  volumes = volumes
  live1 = live1
  live2 = live2
  job1 = job1
  Image = Image
  Endpoints = {volumes}
  Live = {live1, live2}
  Background = {job1}
  Limits = {1, 2}
  MaxLimit = 2
  Hour = 3
  MinInterval = 1
  Pauses = {0, 2}
  MaxTime = 5
  MaxBurst = 2
INVARIANTS SlidingHourBound PacerSpacing LiveNeverSleepsForQuota RetryAfterExact
PROPERTIES QuotaSpec WindowsSpec NoCallWhileRefused
SYMMETRY Symmetry
