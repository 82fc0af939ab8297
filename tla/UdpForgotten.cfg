\* The smallest connection on which a call is lost and forgotten.
SPECIFICATION Spec
CONSTANTS
  Client = client
  Server = server
  MaxSeqId = 15
  NumAcks = 3
  IntBits = 4
  MaxPackages <- PackagesOfEach
  MaxRpcs <- RpcsOfEach
  ClientPackages = 3
  ServerPackages = 2
  ClientRpcs = 2
  ServerRpcs = 1
INVARIANT ForgottenWasReceived
CHECK_DEADLOCK FALSE
