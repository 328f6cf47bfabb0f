SPECIFICATION FairBrowser
CONSTANTS
  Files = {f1, f2}
  Oversize = {f2}
  Retried = {f1}
  Flaky = {f2}
  MaxRuns = 2
  MaxLinks = 2
  NET_ATTEMPTS = 2
  Answers <- MCAnswers
  NoRoster <- NoList
  MaxLoads = 2
  ListCount = 3
  Previewable = {1, 2, 3}
  Small = {2, 3}
  Verified = {2, 3}
  Clicked = {2}
  PREFETCH_PARALLEL = 1
  MaxFails = 1
  MaxOpens = 1
  MaxUses = 2
  MaxUnlocks = 2
  MaxClicks = 2
  MaxAdded = 5
  TooLarge = {2}
  MaxFiles = 3
  MaxSubs = 2
  MaxLost = 2
  Count = 4
  Group <- MCGroup
  Queries = {"", "a", "b"}
  Hits <- MCHits
  NAME_STORE_MAX = 1
  MaxLanded = 4
  ZOOM_MAX = 3
  Views = {6, 8}
  Wide = 7
  PAN = 3
  Contents = {"a", "b", "c"}
  Size <- MCSize
  CHUNK = 2
  TAG = 1
  WORD = 2
  FLUSH = 5
  MaxPieces = 3
  Shares = {"s", "t"}
  Ids = {"i", "j"}
  Lengths = {40, 510, 511, 4094, 4095}
  NAME_PAD = 512
  MAX_BODY = 4096
  MaxSealed = 2
  Units = 10
  BUDGET = 4
  MAX_DEPTH = 2
  NameSet <- MCNameSet
  Sizes = {0, 4, 30}
  MaxMembers = 3
  MAX32 = 31
  MAX16 = 2
  LOCAL_LEN = 3
  CENTRAL_LEN = 4
  EOCD_LEN = 2
  NAME_LEN = 1
INVARIANTS
  BrowserTypeOK
  RosterComplete
  ListTrue
  FilesShared
  VisitsAddUp
  PagesConsistent
  OpensAsSealed
  BytesInBounds
PROPERTIES
  RosterGrows
  QueueDrains
CHECK_DEADLOCK FALSE
