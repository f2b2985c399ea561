CONSTANTS
  r1 = r1  r2 = r2   s1 = s1  s2 = s2  k1 = k1  k2 = k2
  Keys <- TwoKeys
  CacheCapacity = 1
  Events <- Pair
  Requests <- Pair
  Malformed <- Nobody
  KeyOf <- MCKeyOf
  NoEvent = NoEvent
  LossyNetwork = TRUE
  LossyMetrics = TRUE
  MaxAttempts = 2
  MaxCrashes = 0
  MaxAckLosses = 0
SPECIFICATION Spec
INVARIANT RefusedIsARepeat
