\* Two objects of the server, one of a class with cleanup(), three packages, and
\* three objects at the client.
SPECIFICATION WorldSpec
CONSTANTS
  Cleanup = {1}
  MaxObjects = 2
  MaxUpdates = 3
  MaxClientObjects = 3
INVARIANTS
  WorldTypeOK
  ChangesComplete
  WorldMirrored
CHECK_DEADLOCK FALSE
