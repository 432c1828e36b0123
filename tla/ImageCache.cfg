SPECIFICATION Spec
CONSTANTS
  cover = cover
  banner = banner
  Urls = {cover, banner}
  Callers = {c1, c2, c3}
  NoUrl = NoUrl
  TTL = 2
  MaxTroubles = 2
INVARIANTS FetchIsShared NeverHalfAnImage
PROPERTIES UsedImagesStay EveryCallEnds
