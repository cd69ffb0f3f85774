SPECIFICATION Spec
CONSTANTS
  Media <- MCMedia
  Rank <- MCRank
  Dates <- MCDates
  DayOf <- MCDayOf
  Legacy = {"b"}
  MaxChanges = 5
CHECK_DEADLOCK FALSE
INVARIANT FilesDistinct
PROPERTY NumberKept
