\* Every pair of campaigns on the two sides; two properties written, one
\* acknowledgement executed twice.
SPECIFICATION FairSpec
CONSTANTS
  ServerDisks <- MCServerDisks
  ClientDisks <- MCClientDisks
  NoCampaign = NoCampaign
  None = None
  Positions = {p, q}
  MaxWrites = 2
  MaxRepeats = 1
INVARIANTS
  TypeOK
  MirroredAfterSuccess
  WholeIfCompatible
PROPERTIES
  ObjectShown
CHECK_DEADLOCK FALSE
