CONSTANTS
  j1 = j1  j2 = j2  p1 = p1
  o1 = o1  o2 = o2  o3 = o3  k1 = k1  k2 = k2
  Jobs <- TwoJobs
  Publishers <- OnePublisher
  Order <- MCOrder
  PageSize = 2
  Objects <- ThreeObjects
  Key <- MCKey
  Ts <- MCTs
  Arrivals <- InTwo
  ListLimit = 2
  MaxAttempts = 2
  MaxMishaps = 2
SPECIFICATION FairSpec
CHECK_DEADLOCK FALSE
INVARIANTS EventsFollowFacts ReportIsTrue NoRowsLost SlaIsTrue OnceUnlessMishap
PROPERTY EventNotLost
