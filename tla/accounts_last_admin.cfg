\* Four requests: two admins sign in and demote each other.
SPECIFICATION Spec
CONSTANTS
  root = root
  ann = ann
  sam = sam
  bob = bob
  r1 = r1
  r2 = r2
  r3 = r3
  r4 = r4
  Users = {root, ann}
  Root = root
  Sso = {}
  Founders = {ann}
  Requests = {r1, r2, r3, r4}
  Nobody = Nobody
  NoPassword = NoPassword
  FirstPassword = FirstPassword
PROPERTIES
  LastAdminStays
SYMMETRY RequestSymmetry
CHECK_DEADLOCK FALSE
