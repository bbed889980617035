SPECIFICATION Spec
CONSTANTS
  Text = {"", ".", "a", "b"}
  Empty = ""
  Dot = "."
  CommandInput <- MCCommand
  StdioInput <- MCStdio
  ScheduleInput <- MCSchedule
  OptionInput <- MCOption
  EditedFile <- MCEdited
  Word <- MCWord
  LongName = {"b"}
  MaxOptions = 2
  MaxStray = 1
  IntervalLimit = 4
  None = None
INVARIANT ReferencesExact
INVARIANT FileIsMemory
INVARIANT ConfigUsable
