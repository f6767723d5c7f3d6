--------------------------------- MODULE SD ---------------------------------
(***************************************************************************)
(* The SD card as the program uses it (SD.cpp, File.cpp): paths are opened,*)
(* written, read, made and removed through calls that run to their end one *)
(* after another, each over the volume and the files of SdFile.  A call    *)
(* changes the card block by block; the power may be lost between any two. *)
(***************************************************************************)
EXTENDS SdFile

CONSTANTS
  Handle,        \* File objects of the program
  Modes,         \* modes they are opened with
  FilePath,      \* paths opened as files: sequences of one or two names
  DirPath,       \* paths made and removed as directories
  WriteSizes,    \* units written in one call
  Seeks,         \* whether File::seek is called
  MaxSize,       \* bound: units in a file
  MaxLosses,     \* bound: power losses
  Absent, Dir, Torn   \* what a path can be besides a sequence of Data

Path == FilePath \cup DirPath

VARIABLES
  card,      \* what each block of the card holds
  writes,    \* blocks the running call has still to write, in order
  cache,     \* SdVolume's static state: the cached block and allocSearchStart_
  file,      \* the handle behind each File object
  path,      \* and the path it was opened with
  losses,    \* power losses so far
  short,     \* whether a write ever ran out of clusters
  live,      \* what the program finds at each path (history)
  prev,      \* what it found before the running call (history)
  stored     \* and what it would find after a power loss (history)

vars == <<card, writes, cache, file, path, losses, short, live, prev, stored>>

NoPath == <<>>

EmptyCache == [block |-> NoBlock, data |-> [i \in 1..BlockUnits |-> Zero],
               dirty |-> FALSE, mirror |-> 0, alloc |-> 2]

(* A formatted card: the two reserved entries of the table and its copy.   *)
EmptyCard ==
  [b \in Blocks |-> [i \in 1..BlockUnits |->
     IF \E k \in {0, 1}, c \in {0, 1} : b = k * blocksPerFat + FatBlock(c) /\ i = FatIndex(c)
     THEN FatUnit(EOC) ELSE Zero]]

Init ==
  /\ card = EmptyCard
  /\ writes = <<>>
  /\ cache = EmptyCache
  /\ file = [h \in Handle |-> ClosedHandle]
  /\ path = [h \in Handle |-> NoPath]
  /\ losses = 0
  /\ short = FALSE
  /\ live = [p \in Path |-> Absent]
  /\ prev = live
  /\ stored = live

-----------------------------------------------------------------------------
(* Calls.  Machine is the state a call starts from, with the handle it     *)
(* works on; Finish leaves its state, the blocks it wrote still on the way *)
(* to the card.                                                            *)

Idle == writes = <<>>

Machine(f) ==
  [card |-> card, log |-> <<>>, ok |-> TRUE, val |-> 0, f |-> f, d |-> RootHandle,
   block |-> cache.block, data |-> cache.data, dirty |-> cache.dirty,
   mirror |-> cache.mirror, alloc |-> cache.alloc]

Finish(m) ==
  /\ writes' = m.log
  /\ cache' = [block |-> m.block, data |-> m.data, dirty |-> m.dirty,
               mirror |-> m.mirror, alloc |-> m.alloc]
  /\ UNCHANGED <<card, losses>>

(* The value a call returns is not looked at by its caller.                *)
Ignored(m) == [m EXCEPT !.ok = TRUE]

FailAfter(m) == Fail(Ignored(m))

(* getParentDir: the directory a path is in, in m.d.                       *)
getParentDir(m, p) ==
  IF Len(p) = 1 THEN m
  ELSE Then(open(m, p[1], O_READ),
            LAMBDA k : [Ignored(cacheFlush(k)) EXCEPT !.d = k.f, !.f = ClosedHandle])

SDopen(m, p, mode) ==
  Then(Then(Then(getParentDir(m, p), LAMBDA k : open(k, p[Len(p)], mode)),
            LAMBDA k : IF k.d.type = "root" THEN k ELSE Ignored(close(k, "d"))),
       LAMBDA k : IF mode.write THEN Ignored(seekSet(k, "f", k.f.size)) ELSE k)

(* The callbacks of walkPath, given the directory in m.d.  Each opens the  *)
(* name first, the ones that remove only the last name of a path; k is the *)
(* state that leaves.                                                      *)
callback_pathExists(k) ==
  IF k.ok THEN [Ignored(close(k, "f")) EXCEPT !.f = ClosedHandle] ELSE k

callback_makeDirPath(k, name) ==
  IF k.ok THEN callback_pathExists(k)
  ELSE [makeDir([Ignored(k) EXCEPT !.f = ClosedHandle], name) EXCEPT !.f = ClosedHandle]

callback_remove(k) == Then(k, remove)
callback_rmdir(k)  == Then(k, rmDir)

Callback(op, m, name, last) ==
  IF ~last /\ op \in {"remove", "rmdir"} THEN m
  ELSE LET called(k) == CASE op = "exists" -> callback_pathExists(k)
                          [] op = "mkdir"  -> callback_makeDirPath(k, name)
                          [] op = "remove" -> callback_remove(k)
                          [] op = "rmdir"  -> callback_rmdir(k)
       IN called(open(m, name, IF op = "remove" THEN O_WRITE ELSE O_READ))

(* walkPath: the callback on every component from the root down, until one *)
(* fails; the directory a component is in is closed when it is left.       *)
leave(k) == IF k.d.type = "root" THEN k ELSE [close(k, "d") EXCEPT !.ok = k.ok]

RECURSIVE walkPath(_, _, _, _)
walkPath(m, p, i, op) ==
  LET on(k) == IF ~k.ok \/ i = Len(p) THEN leave(k)
               ELSE Then(leave(open([k EXCEPT !.f = ClosedHandle], p[i], O_READ)),
                         LAMBDA j : walkPath([j EXCEPT !.d = j.f, !.f = ClosedHandle],
                                             p, i + 1, op))
  IN on(Callback(op, m, p[i], i = Len(p)))

(* Defective variant: the directory is read from its start every time.     *)
OpenFirstFile(m) ==
  Then(readDir(rewind(m, "d"), "d"),
       LAMBDA k : IF k.val = Zero THEN Fail(k)
                  ELSE [open(k, k.val.name, O_READ) EXCEPT !.val = k.val.name])

(* File::openNextFile on the directory m.d: the next entry is read, then   *)
(* opened by its name through the same handle, whose position moves twice. *)
openNextFile(m) ==
  Then(readDir(m, "d"),
       LAMBDA k : IF k.val = Zero THEN Fail(k)
                  ELSE [open(k, k.val.name, O_READ) EXCEPT !.val = k.val.name])

(* The names got by opening the next file until there is none.             *)
RECURSIVE Listing(_, _)
Listing(m, names) ==
  LET on(k) == IF ~k.ok \/ Len(names) > RootBlocks * BlockUnits THEN names
               ELSE Listing([k EXCEPT !.f = ClosedHandle], Append(names, k.val))
  IN on(openNextFile(m))

-----------------------------------------------------------------------------
(* What the card holds: the entry of a path and the units of a file, given *)
(* the blocks b.                                                           *)

FatOf(b, c) == FatNumber(b[FatBlock(c)][FatIndex(c)])

(* The clusters of a chain, up to the first one that is not a next one.    *)
RECURSIVE ChainFrom(_, _, _)
ChainFrom(b, c, left) ==
  IF c \notin 2 .. ClusterCount + 1 \/ left = 0 THEN <<>>
  ELSE <<c>> \o ChainFrom(b, FatOf(b, c), left - 1)

Chain(b, c) == ChainFrom(b, c, ClusterCount)

RECURSIVE UnitsFrom(_, _, _)
UnitsFrom(b, block, n) ==
  IF n = 0 THEN <<>> ELSE b[block] \o UnitsFrom(b, block + 1, n - 1)

RECURSIVE UnitsIn(_, _)
UnitsIn(b, ch) ==
  IF ch = <<>> THEN <<>>
  ELSE UnitsFrom(b, clusterStartBlock(Head(ch)), BlocksPerCluster) \o UnitsIn(b, Tail(ch))

UnitsOf(b, first) == UnitsIn(b, Chain(b, first))

RootUnits(b) == UnitsFrom(b, rootDirStart, RootBlocks)

EntryIn(units, name) ==
  LET at == {i \in DOMAIN units : /\ IsEntry(units[i]) /\ units[i].name = name
                                  /\ \A j \in 1 .. i - 1 : units[j] # Zero}
  IN IF at = {} THEN Zero ELSE units[CHOOSE i \in at : \A j \in at : i <= j]

EntryOf(b, p) ==
  IF Len(p) = 1 THEN EntryIn(RootUnits(b), p[1])
  ELSE LET e == EntryIn(RootUnits(b), p[1])
       IN IF e = Zero THEN Zero
          ELSE IF ~e.dir THEN Zero ELSE EntryIn(UnitsOf(b, e.first), p[2])

(* A chain that ends as one, every cluster of it allocated.                *)
WholeChain(b, c) ==
  LET ch == Chain(b, c) IN ch # <<>> /\ isEOC(FatOf(b, ch[Len(ch)]))

ContentOf(b, dir, first, size) ==
  IF dir THEN IF WholeChain(b, first) THEN Dir ELSE Torn
  ELSE IF size = 0 THEN <<>>
  ELSE IF ~WholeChain(b, first) \/ Len(UnitsOf(b, first)) < size THEN Torn
  ELSE SubSeq(UnitsOf(b, first), 1, size)

Content(b, p) ==
  LET e == EntryOf(b, p) IN IF e = Zero THEN Absent ELSE ContentOf(b, e.dir, e.first, e.size)

(* The blocks as the program finds them: the ones on the card, then the    *)
(* ones on the way to it, then the cached one.                             *)
RECURSIVE Written(_, _)
Written(b, log) == IF log = <<>> THEN b
                   ELSE Written([b EXCEPT ![Head(log).block] = Head(log).data], Tail(log))

Cached(b, c) ==
  IF ~c.dirty \/ c.block = NoBlock THEN b
  ELSE IF c.mirror = 0 THEN [b EXCEPT ![c.block] = c.data]
  ELSE [b EXCEPT ![c.block] = c.data, ![c.mirror] = c.data]

View == Cached(Written(card, writes), cache)

OpenOn(p) == {h \in Handle : path[h] = p}

(* What each path is in the blocks b, an open one by its handle in fs, ps. *)
LiveIn(b, fs, ps) ==
  [p \in Path |->
     IF \A h \in Handle : ps[h] # p THEN Content(b, p)
     ELSE LET h == CHOOSE h \in Handle : ps[h] = p
          IN ContentOf(b, FALSE, fs[h].first, fs[h].size)]

StoredIn(b) == [p \in Path |-> Content(b, p)]

Parent(p) == SubSeq(p, 1, Len(p) - 1)

-----------------------------------------------------------------------------
(* The program.  It has no path open twice, asks for a path under a name   *)
(* only if the name is not that of a file, removes a directory's files     *)
(* first, and does not use a card with a torn file.                        *)

Sound == \A p \in Path : live[p] # Torn

MayUse(p) ==
  /\ Idle /\ Sound
  /\ OpenOn(p) = {}
  /\ Len(p) > 1 => live[Parent(p)] \in {Absent, Dir}

InUse(p) == \E h \in Handle : path[h] # NoPath /\ (path[h] = p \/ Parent(path[h]) = p)

Open(h, p, mode) ==
  /\ file[h].type = "closed"
  /\ \E m \in {SDopen(Machine(ClosedHandle), p, mode)} :
        /\ Finish(m)
        /\ file' = [file EXCEPT ![h] = IF m.ok THEN m.f ELSE ClosedHandle]
        /\ path' = [path EXCEPT ![h] = IF m.ok THEN p ELSE NoPath]
  /\ UNCHANGED short

Write(h, d, n) ==
  /\ Idle /\ Sound /\ file[h].type = "normal" /\ file[h].pos <= file[h].size
  /\ \E m \in {write(Machine(file[h]), d, n)} :
        /\ Finish(m)
        /\ file' = [file EXCEPT ![h] = m.f]
        /\ short' = (short \/ (file[h].write /\ ~m.ok))
  /\ UNCHANGED path

Read(h, n) ==
  /\ Idle /\ Sound /\ file[h].type = "normal" /\ file[h].pos <= file[h].size
  /\ \E m \in {read(Machine(file[h]), "f", n)} :
        /\ Finish(m)
        /\ file' = [file EXCEPT ![h] = m.f]
  /\ UNCHANGED <<path, short>>

Seek(h, pos) ==
  /\ Seeks
  /\ Idle /\ Sound /\ file[h].type = "normal" /\ file[h].pos <= file[h].size
  /\ \E m \in {seekSet(Machine(file[h]), "f", pos)} :
        /\ Finish(m)
        /\ file' = [file EXCEPT ![h] = m.f]
  /\ UNCHANGED <<path, short>>

Flush(h) ==
  /\ Idle /\ file[h].type # "closed"
  /\ \E m \in {sync(Machine(file[h]), "f")} :
        /\ Finish(m)
        /\ file' = [file EXCEPT ![h] = m.f]
  /\ UNCHANGED <<path, short>>

(* File::close gives the handle up whether or not the close succeeded.     *)
Close(h) ==
  /\ Idle /\ file[h].type # "closed"
  /\ Finish(close(Machine(file[h]), "f"))
  /\ file' = [file EXCEPT ![h] = ClosedHandle]
  /\ path' = [path EXCEPT ![h] = NoPath]
  /\ UNCHANGED short

(* SD.exists, remove, mkdir and rmdir.                                     *)
Walk(p, op) ==
  /\ \E m \in {walkPath(Machine(ClosedHandle), p, 1, op)} : Finish(m)
  /\ UNCHANGED <<file, path, short>>

-----------------------------------------------------------------------------
(* The card.                                                               *)

CardWrite ==
  /\ writes # <<>>
  /\ card' = [card EXCEPT ![Head(writes).block] = Head(writes).data]
  /\ writes' = Tail(writes)
  /\ UNCHANGED <<cache, file, path, losses, short>>

(* The power is lost and the program starts again: SD.begin reads the      *)
(* volume's geometry and writes nothing.                                   *)
PowerLoss ==
  /\ losses < MaxLosses
  /\ losses' = losses + 1
  /\ writes' = <<>>
  /\ cache' = EmptyCache
  /\ file' = [h \in Handle |-> ClosedHandle]
  /\ path' = [h \in Handle |-> NoPath]
  /\ UNCHANGED <<card, short>>

Step ==
  \/ \E h \in Handle :
       \/ \E p \in FilePath, mode \in Modes :
            MayUse(p) /\ live[p] # Dir /\ Open(h, p, mode)
       \/ \E d \in Data, n \in WriteSizes : file[h].pos + n <= MaxSize /\ Write(h, d, n)
       \/ \E n \in WriteSizes : Read(h, n)
       \/ \E pos \in 0 .. file[h].size : Seek(h, pos)
       \/ Flush(h)
       \/ Close(h)
  \/ \E p \in Path, op \in {"exists", "remove", "mkdir", "rmdir"} :
       /\ IF op \in {"mkdir", "rmdir"} THEN p \in DirPath /\ ~InUse(p) ELSE p \in FilePath
       /\ MayUse(p) /\ Walk(p, op)
  \/ CardWrite
  \/ PowerLoss

Next ==
  /\ Step
  /\ \E b \in {Cached(Written(card', writes'), cache')} : live' = LiveIn(b, file', path')
  /\ prev' = IF writes' = <<>> THEN live' ELSE IF live' # live THEN live ELSE prev
  /\ stored' = StoredIn(card')

Spec == Init /\ [][Next]_vars

-----------------------------------------------------------------------------
(* Properties.                                                             *)

HandleType ==
  [type : {"closed", "normal"}, dirBlock : Blocks \cup {0}, dirIndex : 0..BlockUnits,
   first : {0} \cup 2 .. ClusterCount + 1, size : Nat, cluster : {0} \cup 2 .. EOC,
   pos : Nat, write : BOOLEAN, dirDirty : BOOLEAN]

TypeOK ==
  /\ DOMAIN card = Blocks
  /\ \A b \in Blocks : Len(card[b]) = BlockUnits
  /\ \A i \in DOMAIN writes : writes[i].block \in Blocks
  /\ cache.block \in Blocks \cup {NoBlock} /\ cache.mirror \in Blocks
  /\ cache.dirty \in BOOLEAN /\ cache.alloc \in 2 .. EOC
  /\ file \in [Handle -> HandleType]
  /\ path \in [Handle -> FilePath \cup {NoPath}]
  /\ short \in BOOLEAN /\ losses \in 0..MaxLosses

(* Every chain the program can reach: the directories and files of the     *)
(* card, an open file by its handle.                                       *)
First(b, p) ==
  IF OpenOn(p) # {} THEN file[CHOOSE h \in OpenOn(p) : TRUE].first
  ELSE LET e == EntryOf(b, p) IN IF e = Zero THEN 0 ELSE e.first

Clusters(b, p) == LET ch == Chain(b, First(b, p)) IN {ch[i] : i \in DOMAIN ch}

(* No cluster is in two files, and none that a file uses is free to be     *)
(* given to another (SdVolume::allocContiguous, freeChain).                *)
ChainsDisjoint ==
  Sound =>
    LET b == View
    IN \A p \in Path :
         /\ First(b, p) # 0 => WholeChain(b, First(b, p))
         /\ \A q \in Path \ {p} : Clusters(b, p) \cap Clusters(b, q) = {}

(* Without power losses and full cards every cluster taken is in a file:   *)
(* none is lost until the card is formatted again.                         *)
NoLeak ==
  losses = 0 /\ ~short =>
    LET b == View
    IN {c \in 2 .. ClusterCount + 1 : FatOf(b, c) # 0} = UNION {Clusters(b, p) : p \in Path}

(* Reading through a handle gives the units of the file from the position  *)
(* on, whether they are in the cache, on the card or on the way to it      *)
(* (SdFile::read).                                                         *)
ReadBack ==
  Idle /\ Sound =>
    \A h \in Handle, n \in WriteSizes :
      file[h].type = "normal" /\ file[h].pos <= file[h].size =>
        LET m == read(Machine(file[h]), "f", n)
            c == live[path[h]]
            last == IF file[h].pos + n > Len(c) THEN Len(c) ELSE file[h].pos + n
        IN m.ok /\ m.val = SubSeq(c, file[h].pos + 1, last)

(* A file that is not open survives a power loss as the program left it,   *)
(* whatever is done with the others (SdFile::close).                       *)
ClosedIsStored ==
  Idle => \A p \in Path : OpenOn(p) = {} => stored[p] = live[p]

(* Listing the root directory gives every file in it once, and ends        *)
(* (File::openNextFile).                                                   *)
ListingComplete ==
  Idle /\ Sound =>
    LET names == Listing(Machine(ClosedHandle), <<>>)
        there == {p[1] : p \in {p \in Path : Len(p) = 1 /\ live[p] # Absent}}
    IN {names[i] : i \in DOMAIN names} = there /\ Len(names) = Cardinality(there)

(* The card implements the file store.                                     *)
Store == INSTANCE FileStore WITH Unit <- Data

Refines == Store!Spec
=============================================================================
