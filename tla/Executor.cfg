SPECIFICATION LiveExecutorSpec
CONSTANTS
  v1 = v1
  v2 = v2
  v3 = v3
  Versions = {v1, v2, v3}
  Other = other
  NoFile = nofile
  Size <- FileSizes
  MaxChunk = 2
  MaxTransfer = 3
  Items = {1, 2, 3, 4, 5}
  Matching = {1, 3, 4, 5}
  Limits = {0, 1, 3, 6}
  DefaultLimit = 2
  MaxLimit = 5
  MaxCollected = 5
  MaxChanges = 2
  Chunks = {0, 1, 3, 4}
  DefaultChunk = 2
  MaxRead = 3
  MaxTaken = 2
  Sizes = {0, 2, 5}
  MaxEdits = 2
  MaxOutput = 2
  MaxWritten = 3
  Outputs <- ShownOutputs
  Asked = {0, 2, 4, 9}
  LeastAsked = 1
  MostAsked = 4
  DefaultShown = 3
  TotalShown = 5
  MaxResults = 2
  Jobs = {j1}
  MaxKept = 1
  MaxBytes = 2
  Procs = {p1, p2}
  Pids = {i1, i2}
  None = none
CHECK_DEADLOCK FALSE
INVARIANTS
  TasksTypeOK ListingExact DownloadFaithful
  PublishedIsExpected PartIsSound KeepsUploads ReplyIsHonest ViewIsExact
  EndIsExact AgainIsComplete CancelIsSound RunningIsOwned StopIsComplete
PROPERTIES TasksEnd CancelEnds
