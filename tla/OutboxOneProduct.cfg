SPECIFICATION FairSpec
CONSTANTS
  p1 = p1
  p2 = p2
  a = a
  b = b
  Nowhere = Nowhere
  Products <- OneProduct
  Contents <- TwoContents
  MaxAttempts = 2
  Tries = 2
  MaxEdits = 1
  MaxFaults <- SomeFaults
  MaxListings = 5
INVARIANTS
  TypeOK
  ListingsAccounted
PROPERTIES
  MonotonePublishing
  OutboxDrains
