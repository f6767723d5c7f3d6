SPECIFICATION Spec
CONSTANTS
  first = first
  second = second
  Units = {1, 2, 3, 4, 5, 6}
  Files <- TwoFiles
  Source <- Contents
  Cards <- ThreeCards
  BlkLen = 2
  TryzTries = 2
  RzTries = 3
  Faults = 2
INVARIANT TypeOK
PROPERTIES Refines Termination
CHECK_DEADLOCK FALSE
