CONSTANTS
  m1 = m1  m2 = m2  m3 = m3  c1 = c1  c2 = c2
  Consumers <- One
  Messages <- Mixed
  Origin <- MCOrigin
  Unbound <- Odd
  Version <- MCVersion
  Malformed <- Nothing
  Asked <- Nothing
  NoMessage = NoMessage
  BatchSize = 2
  MaxReceive = 2
  Lossy = TRUE
  Expiry = FALSE
  MaxVersion = 1
SPECIFICATION FairSpec
INVARIANT DeadWasRefused
PROPERTIES EveryMessageSettles EveryKeyStored
