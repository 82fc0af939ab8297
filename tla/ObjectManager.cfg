\* Five objects that create and remove each other while they are stepped.
SPECIFICATION Spec
CONSTANTS
  Cleanup = {}
  MaxObjects = 5
PROPERTY EachSteppedOnce
CHECK_DEADLOCK FALSE
