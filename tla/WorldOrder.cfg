\* The smallest world on which a client loses an object without losing a package.
SPECIFICATION WorldSpec
CONSTANTS
  Cleanup = {}
  MaxObjects = 2
  MaxUpdates = 2
  MaxClientObjects = 2
INVARIANT TargetAsLarge
CHECK_DEADLOCK FALSE
