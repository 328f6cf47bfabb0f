\* Four requests: sign-ins, changes and admin actions in any mixture.
SPECIFICATION Spec
CONSTANTS
  root = root
  ann = ann
  sam = sam
  bob = bob
  r1 = r1
  r2 = r2
  r3 = r3
  r4 = r4
  Users = {root, ann, sam, bob}
  Root = root
  Sso = {sam}
  Founders = {ann}
  Requests = {r1, r2, r3, r4}
  Nobody = Nobody
  NoPassword = NoPassword
  FirstPassword = FirstPassword
INVARIANTS
  TypeOK
  SuperPasswordSafe
  RoleIsFresh
  OldSessionsEnd
  StepUpSpent
PROPERTIES
  SuperAdminsStay
SYMMETRY RequestSymmetry
CHECK_DEADLOCK FALSE
