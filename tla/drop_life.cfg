\* A drop from its creation to its purge, senders late, statements failing.
SPECIFICATION Spec
CONSTANTS
  d1 = d1
  s1 = s1
  f1 = f1
  f2 = f2
  o1 = o1
  o2 = o2
  Drops = {d1}
  Submissions = {s1}
  Files = {f1, f2}
  DropOf <- OneDropOf
  Into <- AllInto
  Expiring = {d1}
  Deleters = {o1}
  Target <- OneTarget
  Removable = {d1}
  MaxFails = 1
INVARIANTS
  TypeOK
  InboxHasBlob
PROPERTIES
  KeptUntilExpiry
  ExpiredEmptied
  ExpiredPurged
CHECK_DEADLOCK FALSE
