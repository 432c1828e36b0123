SPECIFICATION Spec
CONSTANTS
  manga = manga
  comics = comics
  vol1 = vol1
  vol2 = vol2
  iss1 = iss1
  Publishers = {manga, comics}
  Volumes = {vol1, vol2}
  Issues = {iss1}
  PublisherOf <- MCPublisherOf
  VolumeOf <- MCVolumeOf
  Seed <- MCSeed
  Batch = 1
  MaxEdits = 1
  MaxTroubles = 1
INVARIANT RememberedAfterPurge
