SPECIFICATION PublishingSpec
CONSTANTS
  p1 = p1
  p2 = p2
  a = a
  b = b
  Nowhere = Nowhere
  Products <- OneProduct
  Contents <- TwoContents
  MaxAttempts = 3
  Tries = 2
  MaxEdits = 1
  MaxFaults <- NoFaults
  MaxListings = 1
PROPERTY EditsReachStore
