SPECIFICATION Spec
CONSTANTS
  ClusterCount = 2
  BlockUnits = 2
  BlocksPerCluster = 1
  RootBlocks = 1
  Zero = Zero
  Deleted = Deleted
  Absent = Absent
  Dir = Dir
  Torn = Torn
  data1 = data1
  data2 = data2
  nameA = nameA
  nameB = nameB
  handle1 = handle1
  handle2 = handle2
  Data = {data1, data2}
  Handle = {handle1}
  FilePath <- TwoFiles
  DirPath <- NoDir
  Modes <- Writers
  WriteSizes = {1}
  Seeks = TRUE
  MaxSize = 3
  MaxLosses = 0
INVARIANTS TypeOK NoLeak ReadBack
PROPERTY Refines
CHECK_DEADLOCK FALSE
SYMMETRY FileSymmetry
