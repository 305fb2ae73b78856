SPECIFICATION FairSpec
CONSTANTS
  file = file
  upload = upload
  bulk = bulk
  tree = tree
  archive = archive
  removals = removals
  removal = removal
  rename = rename
  remoteScan = remoteScan
  localScan = localScan
  Kind <- KindOf
  Ops = {upload, removal, remoteScan, localScan}
  Owned = {upload}
  Sibling <- BothScans
  parallelism = 2
  bulkConcurrency = 1
  Requests = {"add", "own", "sync", "close", "cancel", "cancelAll", "cancelUpload", "stop"}
  Reactions = {"add"}
  MaxSessions = 1
INVARIANTS ScansAnswered NoProgressAfterEnd
PROPERTIES FailedSyncStaysFailed SiblingLeaves
CHECK_DEADLOCK FALSE
