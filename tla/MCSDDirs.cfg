SPECIFICATION Spec
CONSTANTS
  ClusterCount = 2
  BlockUnits = 2
  BlocksPerCluster = 2
  RootBlocks = 1
  Zero = Zero
  Deleted = Deleted
  Absent = Absent
  Dir = Dir
  Torn = Torn
  data1 = data1
  data2 = data2
  nameA = nameA
  nameB = nameB
  handle1 = handle1
  handle2 = handle2
  Data = {data1}
  Handle = {handle1, handle2}
  FilePath <- Nested
  DirPath <- OneDir
  Modes <- BothWays
  WriteSizes = {3}
  Seeks = FALSE
  MaxSize = 6
  MaxLosses = 1
INVARIANTS ChainsDisjoint ListingComplete ClosedIsStored
PROPERTY Refines
CHECK_DEADLOCK FALSE
SYMMETRY DirSymmetry
