SPECIFICATION Spec
CONSTANTS
  MaxUtterances = 2
  MaxSentences = 1
  MaxTools = 1
  MaxNudges = 1
  MaxReminders = 1
  Moves = {"check", "goodbye"}
  Reminding = {"ask"}
  Waits = {"now", "hold", "wait"}
CHECK_DEADLOCK FALSE
INVARIANTS
  FloorIsUsed
  NotLost
  SilenceWatched
PROPERTIES
  FloorKept
  Answered
  CallEnds
