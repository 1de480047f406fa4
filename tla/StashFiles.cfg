SPECIFICATION FairSpec
CONSTANTS
  Inodes = {i1}
  MaxVer = 2
  MaxOff = 2
  MaxBreak = 1
  MaxOpen = 2
  MaxBoot = 1
  MaxFault = 3
INVARIANTS PinsExact RestoreAlone WritableHasNoStash StashNotLost
PROPERTIES NeverOlder StashEnds
