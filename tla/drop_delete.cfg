\* The owner clicks "delete" twice.
SPECIFICATION Spec
CONSTANTS
  d1 = d1
  s1 = s1
  f1 = f1
  f2 = f2
  o1 = o1
  o2 = o2
  Drops = {d1}
  Submissions = {s1}
  Files = {f1}
  DropOf <- OneDropOf
  Into <- AllInto
  Expiring = {d1}
  Deleters = {o1, o2}
  Target <- OneTarget
  Removable = {}
  MaxFails = 0
PROPERTIES
  DeletedEmptied
CHECK_DEADLOCK FALSE
