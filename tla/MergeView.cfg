SPECIFICATION FairSpec
CONSTANTS
  Peers = {1, 2}
  Names <- MCNames
  LongNames = {"b"}
  MaxRoom = 2
  MaxFault = 1
  DirKinds = {"NONE", "DIR"}
INVARIANTS ListingExact LookupExact ListedResolves
PROPERTIES ReadingEnds
CHECK_DEADLOCK FALSE
