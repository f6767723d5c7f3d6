------------------------------ MODULE SdVolume ------------------------------
(***************************************************************************)
(* The FAT volume under the SD card library (utility/SdVolume.cpp): one    *)
(* cached block shared by everything, the file allocation table behind it, *)
(* and the clusters handed out and taken back.                             *)
(*                                                                         *)
(* The functions of the class are operators from a machine state m to the  *)
(* state they leave.  m.card is what the card holds once every block       *)
(* written so far has reached it, m.log the blocks written, in order; m.ok *)
(* is the value returned (a failed call keeps the changes it made), m.val  *)
(* the out parameter.  A block is a sequence of BlockUnits units: bytes of *)
(* a file, directory entries or table entries, whichever was last put      *)
(* there; Zero is the unit of zero bytes, a free entry of either kind.     *)
(***************************************************************************)
EXTENDS Integers, Sequences, FiniteSets

CONSTANTS
  ClusterCount,       \* clusters of the volume, numbered from 2
  BlockUnits,         \* units in a block (512 bytes)
  BlocksPerCluster,
  RootBlocks,         \* blocks of the fixed root directory of FAT16
  Zero

ASSUME VolumeAssumption ==
  /\ ClusterCount \in Nat \ {0}
  /\ BlockUnits \in Nat \ {0, 1}
  /\ BlocksPerCluster \in Nat \ {0}
  /\ RootBlocks \in Nat \ {0}

fatCount        == 2
blocksPerFat    == (ClusterCount + 1) \div BlockUnits + 1
rootDirStart    == fatCount * blocksPerFat
dataStartBlock  == rootDirStart + RootBlocks
Blocks          == 0 .. dataStartBlock + ClusterCount * BlocksPerCluster - 1
NoBlock         == -1                 \* 0XFFFFFFFF: no card has it
UnitsPerCluster == BlockUnits * BlocksPerCluster
EOC             == ClusterCount + 2   \* any number past the last cluster

isEOC(cluster)             == cluster >= EOC
clusterStartBlock(cluster) == dataStartBlock + (cluster - 2) * BlocksPerCluster
blockOfCluster(pos)        == (pos \div BlockUnits) % BlocksPerCluster

-----------------------------------------------------------------------------
(* Calling: a step that follows only if the one before succeeded.          *)

Fail(m)       == [m EXCEPT !.ok = FALSE]
Then(m, F(_)) == IF m.ok THEN F(m) ELSE m

(* The card refuses a block number it does not have; nothing else fails.   *)
WriteBlock(m, b, data) ==
  IF b \in Blocks
  THEN [m EXCEPT !.card[b] = data,
                 !.log = Append(@, [block |-> b, data |-> data])]
  ELSE Fail(m)

ReadBlock(m, b) ==
  IF b \in Blocks THEN [m EXCEPT !.data = m.card[b]] ELSE Fail(m)

-----------------------------------------------------------------------------
(* The block cache.                                                        *)

cacheFlush(m) ==
  IF ~m.dirty THEN m
  ELSE Then(Then(WriteBlock(m, m.block, m.data),
                 LAMBDA k : IF k.mirror = 0 THEN k
                            ELSE [WriteBlock(k, k.mirror, k.data) EXCEPT !.mirror = 0]),
            LAMBDA k : [k EXCEPT !.dirty = FALSE])

(* Defective variant: the block in the cache is not written out first.     *)
RawBlockUnflushed(m, b, forWrite) ==
  Then(IF m.block = b THEN m
       ELSE Then(ReadBlock(m, b), LAMBDA k : [k EXCEPT !.block = b, !.dirty = FALSE]),
       LAMBDA k : [k EXCEPT !.dirty = @ \/ forWrite])

cacheRawBlock(m, b, forWrite) ==
  Then(IF m.block = b THEN m
       ELSE Then(Then(cacheFlush(m), LAMBDA k : ReadBlock(k, b)),
                 LAMBDA k : [k EXCEPT !.block = b]),
       LAMBDA k : [k EXCEPT !.dirty = @ \/ forWrite])

cacheZeroBlock(m, b) ==
  Then(cacheFlush(m),
       LAMBDA k : [k EXCEPT !.data = [i \in 1..BlockUnits |-> Zero],
                            !.block = b, !.dirty = TRUE])

-----------------------------------------------------------------------------
(* The file allocation table.                                              *)

FatBlock(cluster) == cluster \div BlockUnits
FatIndex(cluster) == (cluster % BlockUnits) + 1
FatUnit(value)    == IF value = 0 THEN Zero ELSE [next |-> value]
FatNumber(unit)   == IF unit = Zero THEN 0 ELSE unit.next

fatGet(m, cluster) ==
  IF cluster > ClusterCount + 1 THEN Fail(m)
  ELSE Then(cacheRawBlock(m, FatBlock(cluster), FALSE),
            LAMBDA k : [k EXCEPT !.val = FatNumber(k.data[FatIndex(cluster)])])

fatPut(m, cluster, value) ==
  IF cluster < 2 \/ cluster > ClusterCount + 1 THEN Fail(m)
  ELSE Then(cacheRawBlock(m, FatBlock(cluster), TRUE),
            LAMBDA k : [k EXCEPT
              !.data[FatIndex(cluster)] = FatUnit(value),
              !.mirror = FatBlock(cluster) + blocksPerFat])

(* The search for a free cluster of allocContiguous: from the one after    *)
(* the current cluster, once round the table.                              *)
RECURSIVE FindFree(_, _, _)
FindFree(m, endCluster, n) ==
  IF n >= ClusterCount THEN Fail(m)
  ELSE LET c == IF endCluster > ClusterCount + 1 THEN 2 ELSE endCluster
       IN Then(fatGet(m, c),
               LAMBDA k : IF k.val # 0 THEN FindFree(k, c + 1, n + 1)
                          ELSE [k EXCEPT !.val = c])

(* Defective variant: the end of the chain is not marked.                  *)
AllocUnmarked(m, cur) ==
  Then(FindFree(m, IF cur # 0 THEN cur + 1 ELSE m.alloc, 0),
       LAMBDA k : LET c == k.val IN
         Then(IF cur # 0 THEN fatPut(k, cur, c) ELSE k,
              LAMBDA j : [j EXCEPT !.val = c, !.alloc = IF cur = 0 THEN c + 1 ELSE @]))

(* allocContiguous with a count of one, as every file and directory that   *)
(* grows calls it: cur is the last cluster of the chain, 0 for none.       *)
allocContiguous(m, cur) ==
  Then(FindFree(m, IF cur # 0 THEN cur + 1 ELSE m.alloc, 0),
       LAMBDA k : LET c == k.val IN
         Then(Then(fatPut(k, c, EOC),
                   LAMBDA j : IF cur # 0 THEN fatPut(j, cur, c) ELSE j),
              LAMBDA j : [j EXCEPT !.val = c,
                                   !.alloc = IF cur = 0 THEN c + 1 ELSE @]))

RECURSIVE FreeFrom(_, _)
FreeFrom(m, cluster) ==
  Then(fatGet(m, cluster),
       LAMBDA k : Then(fatPut(k, cluster, 0),
                       LAMBDA j : IF isEOC(k.val) THEN j ELSE FreeFrom(j, k.val)))

(* Defective variants: the search starts at 0, and only the first cluster  *)
(* of the chain is freed.                                                  *)
FreeFromZero(m, cluster) == FreeFrom([m EXCEPT !.alloc = 0], cluster)
FreeOne(m, cluster)      == fatPut([m EXCEPT !.alloc = 2], cluster, 0)

freeChain(m, cluster) == FreeFrom([m EXCEPT !.alloc = 2], cluster)

(* Units in a chain of clusters, as a directory is measured.               *)
RECURSIVE chainSize(_, _, _)
chainSize(m, cluster, size) ==
  Then(fatGet(m, cluster),
       LAMBDA k : IF isEOC(k.val)
                  THEN [k EXCEPT !.val = size + UnitsPerCluster]
                  ELSE chainSize(k, k.val, size + UnitsPerCluster))
=============================================================================
