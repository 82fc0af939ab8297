\* A table of up to four columns and two rows, two clicks, a restart.
SPECIFICATION Spec
CONSTANTS
  OldScenes <- MCOldScenes
  MaxColumns = 4
  MaxRows = 2
  MaxCommands = 2
  MaxRuns = 2
INVARIANTS
  TypeOK
  SlotsOnce
  SlotsHaveWidgets
  CommandsAddUp
CHECK_DEADLOCK FALSE
