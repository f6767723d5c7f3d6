-------------------------------- MODULE MCSD --------------------------------
(* Two names in the root directory, one of which may be a directory with a *)
(* file in it; blocks of two units.                                        *)
EXTENDS SD, TLC

CONSTANTS data1, data2, nameA, nameB, handle1, handle2

TwoFiles == {<<nameA>>, <<nameB>>}
Nested   == {<<nameA>>, <<nameB, nameA>>}
OneDir   == {<<nameB>>}
NoDir    == {}

Writers  == {FILE_WRITE, FILE_OVERWRITE}
BothWays == {FILE_READ, FILE_WRITE}

(* Bytes, files of one directory and handles are told apart by nothing.    *)
FileSymmetry == Permutations({data1, data2}) \cup Permutations({nameA, nameB})
DirSymmetry  == Permutations({handle1, handle2})
=============================================================================
