------------------------------- MODULE SdFile -------------------------------
(***************************************************************************)
(* Files and directories of the SD card library (utility/SdFile.cpp), as   *)
(* operators over the machine state of SdVolume extended with two handles: *)
(* m.f, the file a call works on, and m.d, the directory it is in.  An     *)
(* operator that works on either takes the name of the handle, r.          *)
(* Positions and sizes count units; a directory entry is one unit.         *)
(***************************************************************************)
EXTENDS SdVolume

CONSTANTS
  Data,          \* what the bytes of a file may be
  Deleted        \* the unit of an entry marked DIR_NAME_DELETED

(* Open flags: what the modes of SD.h are made of.                         *)
O_READ  == [write |-> FALSE, creat |-> FALSE, excl |-> FALSE, trunc |-> FALSE]
O_WRITE == [O_READ EXCEPT !.write = TRUE]

FILE_READ      == O_READ
FILE_WRITE     == [O_WRITE EXCEPT !.creat = TRUE]
FILE_OVERWRITE == [FILE_WRITE EXCEPT !.trunc = TRUE]

ClosedHandle ==
  [type |-> "closed", dirBlock |-> 0, dirIndex |-> 0, first |-> 0, size |-> 0,
   cluster |-> 0, pos |-> 0, write |-> FALSE, dirDirty |-> FALSE]

RootHandle ==
  [ClosedHandle EXCEPT !.type = "root", !.size = RootBlocks * BlockUnits]

NewEntry(name) == [name |-> name, dir |-> FALSE, first |-> 0, size |-> 0]

(* What a directory finds where something else was left is not an entry.   *)
IsEntry(unit) == unit \notin Data \cup {Zero, Deleted} /\ "name" \in DOMAIN unit
isDir(h)      == h.type \in {"root", "subdir"}

-----------------------------------------------------------------------------
(* Clusters of a file.                                                     *)

addCluster(m, r) ==
  Then(allocContiguous(m, m[r].cluster),
       LAMBDA k : IF k[r].first = 0
                  THEN [k EXCEPT ![r].cluster = k.val, ![r].first = k.val,
                                 ![r].dirDirty = TRUE]
                  ELSE [k EXCEPT ![r].cluster = k.val])

(* Every block of the new cluster is zeroed, the first one last so that it *)
(* is the one left in the cache.                                           *)
RECURSIVE ZeroBlocks(_, _, _)
ZeroBlocks(m, block, i) ==
  IF i = 0 THEN m
  ELSE Then(cacheZeroBlock(m, block + i - 1), LAMBDA k : ZeroBlocks(k, block, i - 1))

addDirCluster(m, r) ==
  Then(Then(addCluster(m, r),
            LAMBDA k : ZeroBlocks(k, clusterStartBlock(k[r].cluster), BlocksPerCluster)),
       LAMBDA k : [k EXCEPT ![r].size = @ + UnitsPerCluster])

cacheDirEntry(m, forWrite) == cacheRawBlock(m, m.f.dirBlock, forWrite)

(* Defective variant: the entry is left in the cache.                      *)
SyncUnflushed(m, r) ==
  IF m[r].type = "closed" THEN Fail(m)
  ELSE IF ~m[r].dirDirty THEN cacheFlush(m)
  ELSE Then(cacheRawBlock(m, m[r].dirBlock, TRUE),
            LAMBDA k : [k EXCEPT !.data[m[r].dirIndex].first = m[r].first,
                                 !.data[m[r].dirIndex].size =
                                   IF isDir(m[r]) THEN @ ELSE m[r].size,
                                 ![r].dirDirty = FALSE])

(* The directory entry follows the handle when the handle changed; then    *)
(* the cache goes to the card.                                             *)
sync(m, r) ==
  IF m[r].type = "closed" THEN Fail(m)
  ELSE Then(IF ~m[r].dirDirty THEN m
            ELSE Then(cacheRawBlock(m, m[r].dirBlock, TRUE),
                      LAMBDA k : [k EXCEPT
                        !.data[m[r].dirIndex].first = m[r].first,
                        !.data[m[r].dirIndex].size = IF isDir(m[r]) THEN @ ELSE m[r].size,
                        ![r].dirDirty = FALSE]),
            cacheFlush)

close(m, r) == Then(sync(m, r), LAMBDA k : [k EXCEPT ![r] = ClosedHandle])

-----------------------------------------------------------------------------
(* The position of a handle: its cluster is the one the unit before the    *)
(* position is in, 0 at the start.                                         *)

RECURSIVE Follow(_, _, _)
Follow(m, r, n) ==
  IF n = 0 THEN m
  ELSE Then(fatGet(m, m[r].cluster),
            LAMBDA k : Follow([k EXCEPT ![r].cluster = k.val], r, n - 1))

ClusterIndex(pos) == (pos - 1) \div UnitsPerCluster

seekSet(m, r, pos) ==
  LET h    == m[r]
      nCur == ClusterIndex(h.pos)
      nNew == ClusterIndex(pos)
  IN IF h.type = "closed" \/ pos > h.size THEN Fail(m)
     ELSE IF h.type = "root" THEN [m EXCEPT ![r].pos = pos]
     ELSE IF pos = 0 THEN [m EXCEPT ![r].pos = 0, ![r].cluster = 0]
     ELSE   Then(IF nNew < nCur \/ h.pos = 0
                 THEN Follow([m EXCEPT ![r].cluster = h.first], r, nNew)
                 ELSE Follow(m, r, nNew - nCur),
                 LAMBDA k : [k EXCEPT ![r].pos = pos])

rewind(m, r) == [m EXCEPT ![r].pos = 0, ![r].cluster = 0]

(* Where the unit at the position is: the block, in val, and in the handle *)
(* the cluster.                                                            *)

(* Defective variant: a new cluster is entered without following the chain.*)
LocateStill(m, r) ==
  LET h == m[r]
  IN IF h.type = "root" THEN [m EXCEPT !.val = rootDirStart + (h.pos \div BlockUnits)]
     ELSE LET k == IF h.pos = 0 THEN [m EXCEPT ![r].cluster = h.first] ELSE m
          IN [k EXCEPT !.val = clusterStartBlock(k[r].cluster) + blockOfCluster(h.pos)]

Locate(m, r) ==
  LET h   == m[r]
      boc == blockOfCluster(h.pos)
  IN IF h.type = "root" THEN [m EXCEPT !.val = rootDirStart + (h.pos \div BlockUnits)]
     ELSE Then(IF h.pos % BlockUnits # 0 \/ boc # 0 THEN m
               ELSE IF h.pos = 0 THEN [m EXCEPT ![r].cluster = h.first]
               ELSE Follow(m, r, 1),
               LAMBDA k : [k EXCEPT !.val = clusterStartBlock(k[r].cluster) + boc])

(* read: n units from the position, appended to got.  A block read whole   *)
(* comes from the card unless it is the one in the cache.                  *)
RECURSIVE ReadOn(_, _, _, _)
ReadOn(m, r, toRead, got) ==
  IF toRead = 0 THEN [m EXCEPT !.val = got]
  ELSE LET offset == m[r].pos % BlockUnits
           n      == IF toRead > BlockUnits - offset THEN BlockUnits - offset ELSE toRead
           part(data) == SubSeq(data, offset + 1, offset + n)
       IN Then(Then(Locate(m, r),
                    LAMBDA k :
                      IF n = BlockUnits /\ k.val # k.block
                      THEN IF k.val \in Blocks THEN [k EXCEPT !.val = part(k.card[k.val])]
                           ELSE Fail(k)
                      ELSE Then(cacheRawBlock(k, k.val, FALSE),
                                LAMBDA j : [j EXCEPT !.val = part(j.data)])),
               LAMBDA k : ReadOn([k EXCEPT ![r].pos = @ + n], r, toRead - n, got \o k.val))

(* The units left are counted without a sign: past the end there seem to   *)
(* be more of them than can be asked for.                                  *)
read(m, r, nbyte) ==
  LET h    == m[r]
      left == h.size - h.pos
  IN IF h.type = "closed" THEN Fail(m)
     ELSE ReadOn(m, r, IF left >= 0 /\ nbyte > left THEN left ELSE nbyte, <<>>)

(* The next entry of a directory, in val; its block is left in the cache.  *)
readDirCache(m, r) ==
  IF ~isDir(m[r]) THEN Fail(m)
  ELSE Then(read(m, r, 1), LAMBDA k : [k EXCEPT !.val = k.val[1]])

(* The next file or subdirectory of a directory, Zero past the last one.   *)
RECURSIVE readDir(_, _)
readDir(m, r) ==
  IF ~isDir(m[r]) THEN Fail(m)
  ELSE IF m[r].pos >= m[r].size THEN [m EXCEPT !.val = Zero]
  ELSE Then(read(m, r, 1),
            LAMBDA k : LET u == k.val[1] IN
              IF u = Zero THEN [k EXCEPT !.val = Zero]
              ELSE IF u = Deleted THEN readDir(k, r)
              ELSE IF IsEntry(u) /\ u.name \in {".", ".."} THEN readDir(k, r)
              ELSE [k EXCEPT !.val = u])

-----------------------------------------------------------------------------
(* Truncation: the table first, then the directory entry.                  *)

truncate(m, length) ==
  LET h      == m.f
      newPos == IF h.pos > length THEN length ELSE h.pos
      cut(k) == IF length = 0
                THEN Then(freeChain(k, k.f.first), LAMBDA j : [j EXCEPT !.f.first = 0])
                ELSE Then(fatGet(k, k.f.cluster),
                          LAMBDA j : IF isEOC(j.val) THEN j
                                     ELSE Then(freeChain(j, j.val),
                                               LAMBDA i : fatPut(i, i.f.cluster, EOC)))
  IN IF h.type # "normal" \/ ~h.write \/ length > h.size THEN Fail(m)
     ELSE IF h.size = 0 THEN m
     ELSE   Then(Then(Then(seekSet(m, "f", length), cut),
                      LAMBDA k : sync([k EXCEPT !.f.size = length, !.f.dirDirty = TRUE], "f")),
                 LAMBDA k : seekSet(k, "f", newPos))

-----------------------------------------------------------------------------
(* Opening.                                                                *)

openCachedEntry(m, index, oflag) ==
  LET e == m.data[index]
      h == [ClosedHandle EXCEPT
             !.type = IF e.dir THEN "subdir" ELSE "normal",
             !.dirBlock = m.block, !.dirIndex = index,
             !.first = e.first, !.size = IF e.dir THEN 0 ELSE e.size,
             !.write = oflag.write]
  IN IF e.dir /\ (oflag.write \/ oflag.trunc) THEN Fail(m)
     ELSE Then(IF e.dir
               THEN Then(chainSize(m, e.first, 0),
                         LAMBDA k : [k EXCEPT !.f = [h EXCEPT !.size = k.val]])
               ELSE [m EXCEPT !.f = h],
               LAMBDA k : IF oflag.trunc THEN truncate(k, 0) ELSE k)

(* The search through the directory m.d: the first empty slot is kept in   *)
(* m.f, and the entry searched for, when found, is the one in the cache.   *)
RECURSIVE Search(_, _, _)
Search(m, name, emptyFound) ==
  IF m.d.pos >= m.d.size
  THEN [m EXCEPT !.val = [found |-> FALSE, empty |-> emptyFound]]
  ELSE LET index == (m.d.pos % BlockUnits) + 1
       IN Then(readDirCache(m, "d"),
               LAMBDA k :
                 LET u    == k.val
                     slot == IF emptyFound THEN k
                             ELSE [k EXCEPT !.f.dirIndex = index, !.f.dirBlock = k.block]
                 IN IF u = Zero THEN [slot EXCEPT !.val = [found |-> FALSE, empty |-> TRUE]]
                    ELSE IF u = Deleted THEN Search(slot, name, TRUE)
                    ELSE IF IsEntry(u) /\ u.name = name
                         THEN [k EXCEPT !.val = [found |-> TRUE, index |-> index]]
                    ELSE Search(k, name, emptyFound))

(* A new entry goes to the empty slot, or to a cluster added to the        *)
(* directory; it is on the card before the file is open.                   *)
Create(m, name) ==
  Then(IF m.val.empty THEN cacheDirEntry(m, TRUE)
       ELSE IF m.d.type = "root" THEN Fail(m)
       ELSE Then(addDirCluster(m, "d"), LAMBDA k : [k EXCEPT !.f.dirIndex = 1]),
       LAMBDA k : [cacheFlush([k EXCEPT !.data[k.f.dirIndex] = NewEntry(name)])
                     EXCEPT !.val = [index |-> k.f.dirIndex]])

open(m, name, oflag) ==
  IF m.f.type # "closed" THEN Fail(m)
  ELSE Then(Then(Search(rewind(m, "d"), name, FALSE),
                 LAMBDA k :
                   IF k.val.found THEN IF oflag.creat /\ oflag.excl THEN Fail(k) ELSE k
                   ELSE IF ~(oflag.creat /\ oflag.write) THEN Fail(k)
                   ELSE Create(k, name)),
            LAMBDA k : openCachedEntry(k, k.val.index, oflag))

-----------------------------------------------------------------------------
(* Removing, and directories.                                              *)

remove(m) ==
  Then(Then(Then(truncate(m, 0), LAMBDA k : cacheDirEntry(k, TRUE)),
            LAMBDA k : [k EXCEPT !.data[k.f.dirIndex] = Deleted, !.f.type = "closed"]),
       cacheFlush)

RECURSIVE IsEmptyFrom(_)
IsEmptyFrom(m) ==
  IF m.f.pos >= m.f.size THEN m
  ELSE Then(readDirCache(m, "f"),
            LAMBDA k : CASE k.val = Zero -> k
                         [] k.val = Deleted -> IsEmptyFrom(k)
                         [] OTHER -> IF IsEntry(k.val) /\ k.val.name \in {".", ".."}
                                     THEN IsEmptyFrom(k) ELSE Fail(k))

rmDir(m) ==
  IF m.f.type # "subdir" THEN Fail(m)
  ELSE Then(IsEmptyFrom(rewind(m, "f")),
            LAMBDA k : remove([k EXCEPT !.f.type = "normal", !.f.write = TRUE]))

(* A directory begins as a file; its cluster is linked to the entry and on *)
(* the card before the entry says it is a directory.                       *)
makeDir(m, name) ==
  LET dots(k) == LET e == k.data[k.f.dirIndex]
                     up == IF k.d.type = "root" THEN 0 ELSE k.d.first
                 IN Then(cacheRawBlock(k, clusterStartBlock(k.f.first), TRUE),
                         LAMBDA j : [j EXCEPT !.data[1] = [e EXCEPT !.name = "."],
                                              !.data[2] = [e EXCEPT !.name = "..", !.first = up]])
  IN Then(Then(Then(Then(Then(Then(
       open(m, name, [FILE_WRITE EXCEPT !.excl = TRUE]),
       LAMBDA k : addDirCluster([k EXCEPT !.f.type = "subdir", !.f.write = FALSE], "f")),
       LAMBDA k : sync(k, "f")),
       LAMBDA k : cacheDirEntry(k, TRUE)),
       LAMBDA k : [k EXCEPT !.data[k.f.dirIndex].dir = TRUE]),
       dots),
       cacheFlush)

-----------------------------------------------------------------------------
(* Writing.  The units written are d; a whole block goes straight to the   *)
(* card and is dropped from the cache, anything less goes to the cache.    *)

NextCluster(m) ==
  LET h == m.f
  IN IF h.pos % UnitsPerCluster # 0 THEN m
     ELSE IF h.cluster = 0
          THEN IF h.first = 0 THEN addCluster(m, "f") ELSE [m EXCEPT !.f.cluster = h.first]
     ELSE Then(fatGet(m, h.cluster),
               LAMBDA k : IF isEOC(k.val) THEN addCluster(k, "f")
                          ELSE [k EXCEPT !.f.cluster = k.val])

Filled(k, offset, d, n) ==
  [k EXCEPT !.data = [i \in 1..BlockUnits |->
     IF i \in offset + 1 .. offset + n THEN d ELSE k.data[i]]]

(* Whether the block is beyond what the file has, so that nothing of it is *)
(* to be kept; and a defective variant that looks at the offset alone.     *)
AtBlockStart(m, offset) == offset = 0
IsNewBlock(m, offset) == offset = 0 /\ m.f.pos >= m.f.size

PutBlock(m, block, offset, d, n) ==
  IF n = BlockUnits
  THEN WriteBlock([m EXCEPT !.block = IF @ = block THEN NoBlock ELSE @],
                  block, [i \in 1..BlockUnits |-> d])
  ELSE Then(IF IsNewBlock(m, offset)
            THEN Then(cacheFlush(m), LAMBDA k : [k EXCEPT !.block = block, !.dirty = TRUE])
            ELSE cacheRawBlock(m, block, TRUE),
            LAMBDA k : Filled(k, offset, d, n))

RECURSIVE WriteOn(_, _, _)
WriteOn(m, d, nToWrite) ==
  IF nToWrite = 0 THEN m
  ELSE LET offset == m.f.pos % BlockUnits
           n      == IF BlockUnits - offset > nToWrite THEN nToWrite ELSE BlockUnits - offset
       IN Then(Then(NextCluster(m),
                    LAMBDA k : PutBlock(k, clusterStartBlock(k.f.cluster)
                                             + blockOfCluster(k.f.pos), offset, d, n)),
               LAMBDA k : WriteOn([k EXCEPT !.f.pos = @ + n], d, nToWrite - n))

write(m, d, nbyte) ==
  IF m.f.type # "normal" \/ ~m.f.write THEN Fail(m)
  ELSE Then(WriteOn(m, d, nbyte),
            LAMBDA k : IF k.f.pos > k.f.size
                       THEN [k EXCEPT !.f.size = k.f.pos, !.f.dirDirty = TRUE] ELSE k)
=============================================================================
