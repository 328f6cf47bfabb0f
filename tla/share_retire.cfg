\* A single share and a batch to the end of their lives, with failing statements.
SPECIFICATION SharedSpec
CONSTANTS
  f1 = f1
  f2 = f2
  b1 = b1
  d1 = d1
  d2 = d2
  d3 = d3
  NoBatch = NoBatch
  Sweeper = Sweeper
  Owners = {o1}
  Files = {f1, f2}
  Batches = {b1}
  Readers = {d1, d2}
  BatchOf <- PairBatch
  MaxDownloads <- PairLimit
  Wants <- PairWants
  Expires <- PairExpires
  Faults = {"error"}
PROPERTIES
  SharesRetire
  BlobsCollected
  MembersFollow
  ArchivedPurged
  PurgedBlobsGone
CHECK_DEADLOCK FALSE
