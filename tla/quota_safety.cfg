\* A one-file drop, its owner uploading too, against a file count and the instance total.
SPECIFICATION Spec
CONSTANTS
  r1 = r1
  r2 = r2
  r3 = r3
  s1 = s1
  s2 = s2
  alice = alice
  d1 = d1
  Nobody = Nobody
  Slow = {r1}
  NoSubmission = NoSubmission
  Uploads = {r1, r2, r3}
  Submissions = {s1}
  Users = {alice}
  Drops = {d1}
  UploadCap = 2
  TotalBytes = 3
  Owner <- MixedOwner
  Into <- MixedInto
  DropOf <- OneSubmission
  Length <- MixedLength
  Size <- MixedSize
  MaxUpload <- AliceTwoBytesEach
  Quota <- AliceTwoFiles
  Limits <- OneFileDrop
INVARIANTS
  TypeOK
  AccountsRespected
  InstanceRespected
  DropsRespected
  BookingHonoured
PROPERTIES
  ImplementsLedger
CHECK_DEADLOCK FALSE
