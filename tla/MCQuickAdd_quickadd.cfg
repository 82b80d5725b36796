\* Lines of two phrases, typed while the lists, the view and the date change.
SPECIFICATION LineSpec
CONSTANTS
  NULL = NULL
  urgent = urgent
  low = low
  hal = hal
  halToday = halToday
  Phrases <- MCPhrases
  MaxPhrases = 2
  PriorityLists <- MCPriorityLists
  ProjectLists <- MCProjectLists
  Views <- MCViews
  PickedDates <- MCPickedDates
  Offsets <- MCOffsets
  Start <- MCStart
  MaxTicks = 1
  MaxPicked = 1
CHECK_DEADLOCK FALSE
INVARIANT DatesAsTyped
PROPERTY PreviewIsAdded
