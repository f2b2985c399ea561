CONSTANTS
  m1 = m1  m2 = m2  m3 = m3  c1 = c1  c2 = c2
  Consumers <- Both
  Messages <- Twice
  Origin <- MCOrigin
  Unbound <- Odd
  Version <- MCVersion
  Malformed <- Nothing
  Asked <- OneKey
  NoMessage = NoMessage
  BatchSize = 2
  MaxReceive = 2
  Lossy = TRUE
  Expiry = TRUE
  MaxVersion = 2
SPECIFICATION Spec
SYMMETRY Symmetry
INVARIANTS TypeOK ExactlyOneObject AckedIsClaimed ClaimedIsHandled AckedIsFound
