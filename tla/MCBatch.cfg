\* Three items on a partition that splits, hints of the client and of the partition, a request that one call cannot
\* carry, and one fault; the batch is a write or a read.
SPECIFICATION LiveSpec
CONSTANTS
  Keys <- ThreeKeys
  Parts = {"r", "a", "b"}
  Root = "r"
  PathOf <- FlatPaths
  Deletes = {2}
  OnlyIfAbsent = {1}
  Invalid = {3}
  Present = {1, 2, 3}
  Bytes <- LargeBytes
  MaxBytes = 3
  MayLock = {1}
  MayGrow = {}
  MaySplit = {"r"}
  Hints = {1,3}
  ClientHints = {3}
  MaxRetries = 1
  MaxRpcItems = 2
  MaxFaults = 1
  Client = Client
  NoPart = NoPart
INVARIANTS OutcomesAreTrue OneOutcomeEach AnswersFit
PROPERTIES ReadsEnd
\* The caller stops when every item has an outcome it need not send again.
CHECK_DEADLOCK FALSE
