\* A member that arrives while its batch is retired.
SPECIFICATION Spec
CONSTANTS
  f1 = f1
  f2 = f2
  b1 = b1
  d1 = d1
  d2 = d2
  d3 = d3
  NoBatch = NoBatch
  Sweeper = Sweeper
  Owners = {o1}
  Files = {f1, f2}
  Batches = {b1}
  Readers = {d1, d2}
  BatchOf <- BatchBatch
  MaxDownloads <- BatchLimit
  Wants <- BatchWants
  Expires <- BatchExpires
  Faults = {}
PROPERTIES
  PurgedBlobsGone
CHECK_DEADLOCK FALSE
