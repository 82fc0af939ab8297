\* Two clients, two timeouts of sessions, one message delivered twice and one
\* lost: every order of two joins.  The fourth id is the first again.
SPECIFICATION FairSpec
CONSTANTS
  Endpoints = {a, b}
  IdModulus = 3
  MaxTimeouts = 2
  MaxDuplicates = 1
  MaxLosses = 1
INVARIANTS
  TypeOK
  SessionsDistinct
  ResponseForItsReceiver
  WorldOnlyForLoaded
PROPERTIES
  JoinCompletes
  DeadSessionsClosed
CHECK_DEADLOCK FALSE
