SPECIFICATION Spec
CONSTANTS
  Inodes = {i1}
  MaxVer = 1
  MaxOff = 1
  MaxBreak = 1
  MaxOpen = 1
  MaxBoot = 0
  MaxFault = 3
INVARIANT FailedKept
