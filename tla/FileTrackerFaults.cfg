SPECIFICATION Spec
CONSTANTS
  Places <- TwoFiles
  Item <- TheItem
  ItemNames <- OnlyTheItem
  Disk0 <- OneFile
  Options = {"auto", "delete", "move", "check"}
  Toggles = {"check", "auto"}
  MaxEdits = 1
  MaxMoves = 0
  MaxForeign = 1
  MaxFailures = 1
  MaxLosses = 1
  MaxChoices = 1
  MaxWatches = 2
INVARIANTS NothingStuck InStep
PROPERTY ForeignVersionsStay
CHECK_DEADLOCK FALSE
