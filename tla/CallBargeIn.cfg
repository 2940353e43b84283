SPECIFICATION Spec
CONSTANTS
  MaxUtterances = 2
  MaxSentences = 2
  MaxTools = 0
  MaxNudges = 1
  MaxReminders = 1
  Moves = {"check", "goodbye"}
  Reminding = {"ask"}
  Waits = {"now"}
CHECK_DEADLOCK FALSE
PROPERTIES
  SilentAfterBargeIn
