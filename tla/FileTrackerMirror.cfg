SPECIFICATION Spec
CONSTANTS
  Places <- TwoFiles
  Item <- TheItem
  ItemNames <- OnlyTheItem
  Disk0 <- OneFile
  Options = {"auto", "delete", "move", "check"}
  Toggles = {}
  MaxEdits = 2
  MaxMoves = 1
  MaxForeign = 0
  MaxFailures = 0
  MaxLosses = 0
  MaxChoices = 0
  MaxWatches = 1
INVARIANTS TypeOK NeverSideBySide NothingStuck Mirrors KnowsTheServer NoPartialLeft
CHECK_DEADLOCK FALSE
