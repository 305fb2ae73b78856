SPECIFICATION FairSpec
CONSTANTS
  Places <- Tree
  Item <- TheItem
  ItemNames <- TwoNames
  Disk0 <- TreeOnDisk
  Options = {"auto", "delete", "move", "check"}
  Toggles = {}
  MaxEdits = 1
  MaxMoves = 1
  MaxForeign = 0
  MaxFailures = 1
  MaxLosses = 0
  MaxChoices = 0
  MaxWatches = 1
INVARIANT InStep
PROPERTY ComesToRest
CHECK_DEADLOCK FALSE
