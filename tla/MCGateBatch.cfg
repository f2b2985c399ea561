CONSTANTS
  r1 = r1  e1 = e1  e2 = e2  e3 = e3  e4 = e4
  b1 = b1  b2 = b2  k1 = k1  k2 = k2
  Keys <- TwoKeys
  CacheCapacity = 1
  Events <- AllEvents
  Requests <- OneRequest
  Malformed <- Nobody
  KeyOf <- MCKeyOf
  NoEvent = NoEvent
  LossyNetwork = TRUE
  LossyMetrics = FALSE
  MaxAttempts = 1
  MaxCrashes = 1
  MaxAckLosses = 0
  Batches <- TwoBatches
  Items <- MCItems
  WriteChunk = 1
  Throttled = TRUE
SPECIFICATION AllSpec
INVARIANTS OnlyOverlapsRace BatchAcceptedHasRow EveryKeyAccepted BatchesCounted
 
