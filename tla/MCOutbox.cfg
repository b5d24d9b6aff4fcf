SPECIFICATION FairSpec
CONSTANTS
  Events = {e1, e2}
  Workers = {w1, w2}
  BatchSize = 2
  MaxRetries = 2
  MaxRefusals = 3
  MaxFaults = 1
CHECK_DEADLOCK FALSE
INVARIANTS
  OncePerWorker
PROPERTIES
  ImplementsDelivery
  RowSettles
