\* A batch of two downloads that three requests race for, with every fault.
SPECIFICATION Spec
CONSTANTS
  f1 = f1
  f2 = f2
  b1 = b1
  d1 = d1
  d2 = d2
  d3 = d3
  NoBatch = NoBatch
  Sweeper = Sweeper
  Owners = {o1}
  Files = {f1}
  Batches = {b1}
  Readers = {d1, d2, d3}
  BatchOf <- RaceBatch
  MaxDownloads <- RaceLimit
  Wants <- RaceWants
  Expires <- RaceExpires
  Faults = {"error", "cut", "lostAck", "crash"}
INVARIANTS
  TypeOK
  ServedWithinLimit
  LiveHasBlob
  ArchivedIsOver
PROPERTIES
  ImplementsLink
CHECK_DEADLOCK FALSE
