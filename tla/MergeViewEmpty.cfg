SPECIFICATION Spec
CONSTANTS
  Peers = {1, 2}
  Names <- MCNames
  LongNames = {"b"}
  MaxRoom = 2
  MaxFault = 0
  DirKinds = {"NONE", "DIR"}
INVARIANT ListingComplete
CHECK_DEADLOCK FALSE
