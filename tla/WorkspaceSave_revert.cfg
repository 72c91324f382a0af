SPECIFICATION Spec
CONSTANTS
  plain = plain
  split = split
  chart = chart
  Values <- Looks
  First = plain
  Timeouts = FALSE
  MaxEdits = 3
INVARIANT QuietWithoutFailureIsSaved
CHECK_DEADLOCK FALSE
