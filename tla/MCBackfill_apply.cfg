SPECIFICATION Spec
CONSTANTS
  Home = "top"
  Media <- MCMedia
  Order <- MCOrder
  KeyOf <- MCKeyOf
  Target <- MCTarget
  Layouts <- MCLayouts
  WriteNfo = TRUE
  CopyThumbs = TRUE
  HasThumb = {"a"}
  Old = "old"
  New = "new"
  MaxRuns = 2
  MaxTroubles = 1
CHECK_DEADLOCK FALSE
INVARIANT NothingLost
INVARIANT RowsOwn
INVARIANT ForecastHolds
INVARIANT CleanExit
PROPERTY SecondChangesNothing
