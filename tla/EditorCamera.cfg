\* One direction, two clicks, and two movements of the mouse that turn the view
\* or any number that do not; each leaves the widget or comes back to it.
SPECIFICATION Spec
CONSTANTS
  Keys = {"W"}
  Motions <- MCMotions
  Window <- MCWindow
  Margin = 1
  Start <- MCStart
  Distances = {0, 2}
  Steps = {1, 2}
  MaxClicks = 2
  MaxMotion = 8
INVARIANTS
  TypeOK
  HeadsForLastClick
  InputsAsHeld
  
PROPERTIES
  WalkEnds
