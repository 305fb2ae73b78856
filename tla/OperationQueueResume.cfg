SPECIFICATION Spec
CONSTANTS
  file = file
  upload = upload
  bulk = bulk
  tree = tree
  archive = archive
  removals = removals
  removal = removal
  rename = rename
  remoteScan = remoteScan
  localScan = localScan
  Kind <- KindOf
  Ops = {file, removals, tree}
  Owned = {}
  Sibling <- NoScans
  parallelism = 3
  bulkConcurrency = 2
  Requests = {"add", "cancel", "kept", "resume", "stop", "pause", "move", "channel"}
  Reactions = {}
  MaxSessions = 2
INVARIANTS OneHome
PROPERTIES CardsSurviveStop KeptUntilTaken
CHECK_DEADLOCK FALSE
