CONSTANTS
  m1 = m1  m2 = m2  m3 = m3  c1 = c1  c2 = c2
  Consumers <- One
  Messages <- Twice
  Origin <- MCOrigin
  Unbound <- Odd
  Version <- MCVersion
  Malformed <- Nothing
  Asked <- Nothing
  NoMessage = NoMessage
  BatchSize = 2
  MaxReceive = 2
  Lossy = FALSE
  Expiry = FALSE
  MaxVersion = 1
SPECIFICATION Spec
INVARIANT CrashLosesNothing
