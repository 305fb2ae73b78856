SPECIFICATION Spec
CONSTANTS
  file = file
  upload = upload
  bulk = bulk
  tree = tree
  archive = archive
  removals = removals
  removal = removal
  rename = rename
  remoteScan = remoteScan
  localScan = localScan
  Kind <- KindOf
  Ops = {archive, upload, bulk, rename}
  Owned = {upload, rename}
  Sibling <- NoScans
  parallelism = 3
  bulkConcurrency = 2
  Requests = {"add", "own", "cancel", "cancelAll", "cancelUpload", "pause"}
  Reactions = {"add", "cancel"}
  MaxSessions = 1
INVARIANTS TypeOK OneEndPerCard NoStall
