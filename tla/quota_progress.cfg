\* Two submissions racing for a drop that takes one delivery of one file.
SPECIFICATION FairSpec
CONSTANTS
  r1 = r1
  r2 = r2
  r3 = r3
  s1 = s1
  s2 = s2
  alice = alice
  d1 = d1
  Nobody = Nobody
  Slow = {r1}
  NoSubmission = NoSubmission
  Uploads = {r1}
  Submissions = {s1, s2}
  Users = {alice}
  Drops = {d1}
  UploadCap = 2
  TotalBytes = 0
  Owner <- SenderOwner
  Into <- SenderInto
  DropOf <- TwoSubmissions
  Length <- SenderLength
  Size <- SenderSize
  MaxUpload <- AliceTwoBytesEach
  Quota <- NoQuota
  Limits <- OneDelivery
INVARIANTS
  SubmissionsRespected
PROPERTIES
  ReservationsDrain
  RequestsEnd
CHECK_DEADLOCK FALSE
