----------------------------- MODULE FileSysFat -----------------------------
(***************************************************************************)
(* The FAT file system: TFile and TFileSystem (fs/core/filesystem.cpp) with *)
(* TFileSysFat (fs/fat/filesys_fat.cpp), on a storage manager.             *)
(*                                                                         *)
(* Files put transactions (open, read, seek) into the queue of the file    *)
(* system, whose Run serves the one at the head with at most one storage   *)
(* transaction (stra) under way: a directory sector into buf, a FAT entry  *)
(* into next_cluster, or file data into the client's buffer.               *)
(*                                                                         *)
(* Storage is addressed in units; a unit of a directory is one entry.  A   *)
(* sector has SectorUnits of them, a cluster ClusterUnits.  The volume is  *)
(* read only, so a unit that was read is known by its address.             *)
(*                                                                         *)
(* The callback of a transaction is the last thing that happens in a call  *)
(* of Run: what a client starts from there is its next action.  A call of  *)
(* Run that finds the storage transaction under way changes nothing.       *)
(***************************************************************************)
EXTENDS Integers, Sequences, FiniteSets

CONSTANTS
  File,          \* the TFile objects
  SectorUnits, ClusterUnits,
  DataStart,     \* address of cluster 2 (firstaddr + sysbytes)
  clustercount,  \* clusters in the data area; they are numbered from 2
  Fat,           \* the FAT: the cluster after each cluster
  Chain,         \* the clusters of each file and directory, by the first one
  Entry,         \* the directory entries by address
  Begins,        \* <<s, n>>: the name n begins with the path segment s
  TooLong,       \* the path segments of FS_FNAME_MAX_LEN characters and more
  Paths,         \* what a file may open: sequences of segments, with the mode
  Lengths,       \* the lengths to read
  Positions,     \* the positions to seek to
  FailPoints,    \* units moved by a storage transaction before it fails
  FdataSize,     \* sizeof(TFileDirData)
  BootOk         \* the boot sector is that of a FAT volume

DataEnd == DataStart + clustercount * ClusterUnits
Wide    == 65536          \* chunksize is unsigned: one more than its maximum

ASSUME UnitsAssumption ==
  /\ SectorUnits \in Nat \ {0, 1}
  /\ ClusterUnits \in 1 .. (Wide - 1) /\ ClusterUnits % SectorUnits = 0
  /\ DataStart \in Nat \ {0} /\ DataStart % SectorUnits = 0
  /\ clustercount \in Nat \ {0}
ASSUME VolumeAssumption ==
  /\ Fat \in [0 .. (clustercount + 1) -> Nat]
  /\ DOMAIN Entry \subseteq DataStart .. (DataEnd - 1)
  /\ \A a \in DOMAIN Entry :
       /\ Entry[a].kind \in {"end", "gone", "entry"}
       /\ Entry[a].cluster \in Nat
       /\ Entry[a].size \in Nat
       /\ Entry[a].isdir \in BOOLEAN
       /\ Entry[a].nonfile \in BOOLEAN
ASSUME ChainAssumption ==
  \A c \in DOMAIN Chain :
    LET n == Len(Chain[c])
        inside(d) == d \in 2 .. (clustercount - 1)
    IN /\ Chain[c] \in Seq(Nat) /\ n > 0 /\ Chain[c][1] = c
       /\ \A i \in 1 .. n : inside(Chain[c][i])
       /\ \A i \in 1 .. (n - 1) : Fat[Chain[c][i]] = Chain[c][i + 1]
       /\ ~inside(Fat[Chain[c][n]])
\* The chain of a file is as long as its size says.
ASSUME SoundAssumption ==
  \A a \in DOMAIN Entry :
    LET e == Entry[a]
    IN e.kind = "entry" /\ ~e.nonfile /\ e.size > 0 =>
         e.cluster \in DOMAIN Chain /\ e.size <= Len(Chain[e.cluster]) * ClusterUnits
ASSUME ClientAssumption ==
  /\ Lengths \subseteq Nat
  /\ Positions \subseteq Nat
  /\ FailPoints \subseteq Nat /\ FdataSize \in Nat
  /\ BootOk \in BOOLEAN
  /\ \A f \in File : \A p \in Paths[f] :
       /\ p = [segments |-> p.segments, directory |-> p.directory]
       /\ Len(p.segments) \in Nat \ {0} /\ p.directory \in BOOLEAN

VARIABLES
  file,      \* the fields of each TFile, and what its reads have moved
  tras,      \* the transaction chain, curtra first
  trastate,  \* progress of the transaction at the head
  seg,       \* pseg_start: the path segment that is looked up
  op,        \* the directory operation: curop, opstate, op_location, ...
  buf,       \* the directory sector: bufaddr and the units in it
  stra,      \* the storage transaction; the last one, when it is completed
  mount      \* initstate, with initialized and fsok

fsys == <<trastate, seg, op, buf, stra, mount>>
vars == <<file, tras, fsys>>

InvalidBuf  == 1      \* bufaddr when buf holds no sector
NoUnit      == 0      \* what a unit of buf is before the first sector is read
InvalidAddr == 2 * DataEnd    \* FS_INVALID_ADDR: beyond the volume
-----------------------------------------------------------------------------
(* Locations. *)

ClusterToAddr(c) ==
  IF c < 2 \/ c >= clustercount THEN InvalidAddr
                                ELSE DataStart + (c - 2) * ClusterUnits

AddrToCluster(a) ==
  LET c == 2 + (a - DataStart) \div ClusterUnits
  IN IF a < DataStart \/ c > clustercount THEN 0 ELSE c

EndOfChain(c) == c < 2 \/ c >= clustercount

SectorOf(a)  == a - (a % SectorUnits)    \* a & sector_base_mask
StartOf(a)   == a - (a % ClusterUnits)   \* a & cluster_start_mask
Reminder(a)  == a % ClusterUnits         \* a & cluster_reminder_mask

-----------------------------------------------------------------------------
(* The storage transaction. *)

StorIdle == [completed |-> TRUE, dst |-> "none", address |-> 0, len |-> 0]

StorRead(dst, address, len) ==
  [completed |-> FALSE, dst |-> dst, address |-> address, len |-> len]

FindNextCluster(c) == StorRead("next_cluster", c, 1)

\* The n first units of buf replaced by those of the sector that is loaded.
Loaded(n) ==
  [o \in DOMAIN buf.units |-> IF stra.dst = "buf" /\ o < n THEN stra.address + o
                                                          ELSE buf.units[o]]

\* The ways pstorman->Run() may return with stra completed: it was before, all
\* was moved, or it failed after n units.  next is next_cluster, what the look
\* into the FAT found: beyond the FAT, anything.  It is used after that look only,
\* and then again when it was an end mark.
StorRun ==
  LET next == IF stra.dst # "next_cluster" THEN {0}
              ELSE IF stra.address \in DOMAIN Fat THEN {Fat[stra.address]}
              ELSE 0 .. (clustercount + 1)
      failed == {[errorcode |-> 1, units |-> Loaded(n), next |-> 0] : n \in FailPoints}
      done == {[errorcode |-> 0, units |-> Loaded(stra.len), next |-> c] : c \in next}
  IN IF stra.completed THEN {[errorcode |-> 0, units |-> buf.units, next |-> 0]}
     ELSE IF stra.dst # "next_cluster" /\ stra.address >= DataEnd THEN failed
     ELSE failed \cup done

-----------------------------------------------------------------------------
(* TFile: the calls of the clients. *)

\* The fields that serve one transaction only are cleared with it.
FinishTra(f, r, result) ==
  file' = [file EXCEPT ![f] = [r EXCEPT !.finished = TRUE, !.result = result,
                                        !.path = <<>>, !.datalen = 0, !.from = 0,
                                        !.remaining = 0, !.targetpos = 0]]

\* A call that ends at once.
Ends(f, r, result) == FinishTra(f, r, result) /\ UNCHANGED tras

AddTransaction(f, r, type) ==
  /\ file' = [file EXCEPT ![f] = [r EXCEPT !.finished = FALSE, !.result = "OK",
                                           !.tratype = type]]
  /\ tras' = Append(tras, f)

Open(f, path) ==
  /\ file[f].finished
  /\ AddTransaction(f, [file[f] EXCEPT !.opened = FALSE, !.path = path.segments,
                                       !.directory = path.directory,
                                       !.strayed = FALSE, !.got = <<>>,
                                       !.listed = <<>>], "OPEN")
  /\ UNCHANGED fsys

Read(f, len) ==
  LET r   == file[f]
      cut == ~r.directory /\ r.filepos + len > r.size
      pos == IF cut /\ r.filepos > r.size THEN r.size ELSE r.filepos
      s   == [r EXCEPT !.datalen = len, !.got = <<>>]
  IN /\ r.finished
     /\ \/ /\ ~r.opened
           /\ Ends(f, s, "FILE_NOT_OPEN")
        \/ /\ r.opened
           /\ AddTransaction(f, [s EXCEPT !.filepos = pos, !.from = pos,
                                          !.remaining = IF cut THEN r.size - pos
                                                               ELSE len], "READ")
     /\ UNCHANGED fsys

\* A target in the cluster of filepos: its location is taken to be in the
\* cluster of curlocation, which already is the next one when filepos is at
\* the end of a cluster; and clusters to begin at multiples of their size.
SeekInCluster(f, r, pos) ==
  /\ StartOf(pos) = StartOf(r.filepos)
  /\ Ends(f, [r EXCEPT !.targetpos = pos, !.filepos = pos,
                       !.curlocation = StartOf(@) + Reminder(pos),
                       !.strayed = @ \/ Reminder(DataStart) # 0
                                     \/ (r.curlocation = r.cluster_end /\ pos # r.filepos)],
          "OK")

\* Mutant: the cluster of the old position stays.
SeekFromStartOldEnd(f, r, pos) ==
  LET s == [r EXCEPT !.targetpos = pos, !.filepos = 0, !.curlocation = r.location,
                     !.strayed = FALSE]
  IN /\ StartOf(pos) # StartOf(r.filepos)
     /\ IF pos < ClusterUnits
          THEN Ends(f, [s EXCEPT !.filepos = pos, !.curlocation = @ + pos], "OK")
          ELSE AddTransaction(f, s, "SEEK")

\* Else the search starts at the first cluster.
SeekFromStart(f, r, pos) ==
  LET s == [r EXCEPT !.targetpos = pos, !.filepos = 0, !.curlocation = r.location,
                     !.cluster_end = r.location + ClusterUnits, !.strayed = FALSE]
  IN /\ StartOf(pos) # StartOf(r.filepos)
     /\ IF pos < ClusterUnits
          THEN Ends(f, [s EXCEPT !.filepos = pos, !.curlocation = @ + pos], "OK")
          ELSE AddTransaction(f, s, "SEEK")

\* The clients of this model seek in files, not in directories.
Seek(f, pos) ==
  LET r == [file[f] EXCEPT !.got = <<>>]
  IN /\ r.finished
     /\ ~r.directory
     /\ \/ /\ r.opened /\ pos <= r.size
           /\ SeekInCluster(f, r, pos) \/ SeekFromStart(f, r, pos)
        \/ /\ ~r.opened
           /\ Ends(f, r, "FILE_NOT_OPEN")
        \/ /\ r.opened /\ pos > r.size
           /\ Ends(f, r, "SEEK_BEYOND_EOF")
     /\ UNCHANGED fsys
-----------------------------------------------------------------------------
(* Run.  c is the outcome of the storage transaction, f the file at the    *)
(* head of the chain, b the directory sector as the call finds it.         *)

OpActive(state, location, cluster_end) ==
  [curop |-> "DIR_READ", opstate |-> state, opresult |-> "OK", fdata |-> NoUnit,
   location |-> location, cluster_end |-> cluster_end]

OpEnded(result, fdata, location, cluster_end) ==
  [curop |-> "IDLE", opstate |-> 0, opresult |-> result, fdata |-> fdata,
   location |-> location, cluster_end |-> cluster_end]

OpIdle == OpEnded("OK", NoUnit, 0, 0)

\* Mutant: the transactions behind the head are dropped.
UnchainAll(f, r, result) ==
  /\ tras' = <<>>
  /\ trastate' = 0 /\ seg' = 1
  /\ FinishTra(f, r, result)

Unchain(f, r, result) ==
  /\ tras' = Tail(tras)
  /\ trastate' = 0 /\ seg' = 1
  /\ FinishTra(f, r, result)

\* The operation has ended too; its result is not used again.
FinishCurTra(f, r, result) ==
  /\ Unchain(f, r, result)
  /\ op' = OpIdle /\ stra' = StorIdle

\* The transaction goes on with a later call.
Continue(f, r, state, s) ==
  /\ trastate' = state /\ seg' = s
  /\ file' = [file EXCEPT ![f] = r]
  /\ UNCHANGED tras

\* Mutant: the end of the cluster is taken for a location in it.
OpLoadNext(location, cluster_end) ==
  IF location < cluster_end
    THEN /\ op' = OpActive(1, location, cluster_end)
         /\ stra' = StorRead("buf", SectorOf(location), SectorUnits)
    ELSE /\ op' = OpActive(5, location, cluster_end)
         /\ stra' = FindNextCluster(AddrToCluster(location))

\* A location that is not in buf: its sector is read, or the FAT at the end of
\* the cluster.
OpLoad(location, cluster_end) ==
  IF location < cluster_end
    THEN /\ op' = OpActive(1, location, cluster_end)
         /\ stra' = StorRead("buf", SectorOf(location), SectorUnits)
    ELSE /\ op' = OpActive(5, location, cluster_end)
         /\ stra' = FindNextCluster(AddrToCluster(location) - 1)

InBuf(b, location, cluster_end) ==
  location < cluster_end /\ b.addr = SectorOf(location)

EntryIn(b, l)  == Entry[b.units[l % SectorUnits]]
BufEnd(b)      == b.addr + SectorUnits
First(S)       == CHOOSE k \in S : \A j \in S : k <= j

\* The file of the directory entry e that a path segment s names: the code
\* compares the characters of the segment only.
Names(s, e) == <<s, e.name>> \in Begins

\* Mutant: a deleted entry is a live one.
LiveOrDeleted(e) == e.kind # "end"

\* Neither deleted nor a part of a long file name.
Live(e) == e.kind = "entry"

\* Where in buf a search from l on stops: at the end of the directory or at an
\* entry that is wanted.
Stops(b, l, wanted) ==
  {k \in l .. (BufEnd(b) - 1) :
     LET e == EntryIn(b, k)
     IN e.kind = "end" \/ (Live(e) /\ b.units[k % SectorUnits] \in wanted)}

\* The search goes on with a later call, once there is something to read or at
\* once when the last entry of buf was a wrong one.
Exhausted(b, cluster_end) ==
  IF EntryIn(b, BufEnd(b) - 1).kind = "entry"
    THEN OpLoad(BufEnd(b), cluster_end)
    ELSE op' = OpActive(0, BufEnd(b), cluster_end) /\ stra' = StorIdle

-----------------------------------------------------------------------------
(* HandleFileOpen. *)

Opened(f, e) ==
  FinishCurTra(f, [file[f] EXCEPT !.opened = TRUE, !.filepos = 0,
                                  !.location = ClusterToAddr(e.cluster),
                                  !.curlocation = ClusterToAddr(e.cluster),
                                  !.cluster_end = ClusterToAddr(e.cluster) + ClusterUnits,
                                  !.size = e.size], "OK")

IsLast(f, s) == s = Len(file[f].path)

\* A segment that cannot be searched: an empty one, which ends the path of a
\* directory, or one that is too long.  d is the entry of the directory.
OddSegment(f, s, d) ==
  IF file[f].path[s] = "" /\ IsLast(f, s) /\ file[f].directory
    THEN Opened(f, d)
    ELSE FinishCurTra(f, file[f], "INVALID_PATH")

Searchable(f, s) == file[f].path[s] \notin {""} \cup TooLong

\* What the code says of the entry e for segment s of the path.
Verdict(f, s, e) ==
  IF IsLast(f, s) /\ file[f].directory
    THEN IF e.isdir THEN "OK" ELSE "DIR_NOT_FOUND"
  ELSE IF IsLast(f, s)
    THEN IF e.nonfile THEN "FILE_NOT_FOUND" ELSE "OK"
  ELSE IF e.isdir THEN "OK" ELSE "FILE_NOT_FOUND"

\* The search of the directory at location starts.  (When its first sector is
\* in buf, as after the entry ".", the code goes on in the same call.)
EnterDir(b, location) ==
  IF InBuf(b, location, location + ClusterUnits)
    THEN op' = OpActive(0, location, location + ClusterUnits) /\ stra' = StorIdle
    ELSE OpLoad(location, location + ClusterUnits)

\* The entry e matches segment s.
SegmentFound(f, s, b, e) ==
  LET ok == Verdict(f, s, e) = "OK"
  IN \/ /\ ok /\ ~IsLast(f, s) /\ Searchable(f, s + 1)
        /\ EnterDir(b, ClusterToAddr(e.cluster))
        /\ Continue(f, file[f], 2, s + 1)
     \/ /\ ok /\ ~IsLast(f, s) /\ ~Searchable(f, s + 1)
        /\ OddSegment(f, s + 1, e)
     \/ /\ ok /\ IsLast(f, s)
        /\ Opened(f, e)
     \/ /\ ~ok
        /\ FinishCurTra(f, file[f], Verdict(f, s, e))

\* The search for segment s from location l on.
OpenSearch(f, s, b, l, cluster_end) ==
  LET stops == Stops(b, l, {a \in DOMAIN Entry : Names(file[f].path[s], Entry[a])})
      e == EntryIn(b, First(stops))
  IN \/ /\ ~InBuf(b, l, cluster_end)
        /\ OpLoad(l, cluster_end)
        /\ Continue(f, file[f], 2, s)
     \/ /\ InBuf(b, l, cluster_end) /\ stops = {}
        /\ Exhausted(b, cluster_end)
        /\ Continue(f, file[f], 2, s)
     \/ /\ InBuf(b, l, cluster_end) /\ stops # {} /\ e.kind = "end"
        /\ FinishCurTra(f, file[f], "FILE_NOT_FOUND")
     \/ /\ InBuf(b, l, cluster_end) /\ stops # {} /\ e.kind # "end"
        /\ SegmentFound(f, s, b, e)

\* The root directory begins in cluster 2.  (Its fdata is a stale one, which
\* is read for Seek only.)
Root == [cluster |-> 2, size |-> 0]

\* trastate 0: the path is looked up from the root directory on.
OpenStart(f) ==
  \/ /\ Searchable(f, 1)
     /\ OpenSearch(f, 1, buf, DataStart, DataStart + ClusterUnits)
  \/ /\ ~Searchable(f, 1)
     /\ OddSegment(f, 1, Root)
-----------------------------------------------------------------------------
(* HandleDirRead: a directory is read entry by entry. *)

\* Mutant: the file keeps its place in the directory.
DirResultStays(f, ended) ==
  LET s == [file[f] EXCEPT !.listed = Append(@, ended.fdata)]
  IN IF ended.opresult # "OK" THEN FinishCurTra(f, file[f], ended.opresult)
     ELSE FinishCurTra(f, s, IF s.datalen < FdataSize THEN "INVALID_FDATABUF" ELSE "OK")

\* The result of the operation ended is that of the transaction.  An entry is
\* behind once it was found, also when the client's buffer is too short for it.
DirResult(f, ended) ==
  LET r == [file[f] EXCEPT !.curlocation = ended.location,
                           !.cluster_end = ended.cluster_end]
      s == [r EXCEPT !.listed = Append(@, ended.fdata)]
  IN IF ended.opresult # "OK" THEN FinishCurTra(f, r, ended.opresult)
     ELSE FinishCurTra(f, s, IF r.datalen < FdataSize THEN "INVALID_FDATABUF" ELSE "OK")

\* The operation ends: its result is left to the next call when it has just been
\* started (trastate 0).
DirEnds(f, ended) ==
  \/ /\ trastate = 0
     /\ op' = ended /\ stra' = StorIdle
     /\ Continue(f, file[f], 1, 1)
  \/ /\ trastate = 1
     /\ DirResult(f, ended)

\* RunOpDirRead, for the next entry.
DirSearch(f, b, l, cluster_end) ==
  LET stops == Stops(b, l, DOMAIN Entry)
      k == First(stops)
  IN \/ /\ ~InBuf(b, l, cluster_end)
        /\ OpLoad(l, cluster_end)
        /\ Continue(f, file[f], 1, 1)
     \/ /\ InBuf(b, l, cluster_end) /\ stops = {}
        /\ Exhausted(b, cluster_end)
        /\ Continue(f, file[f], 1, 1)
     \/ /\ InBuf(b, l, cluster_end) /\ stops # {} /\ EntryIn(b, k).kind = "end"
        /\ DirEnds(f, OpEnded("EOF", NoUnit, k, cluster_end))
     \/ /\ InBuf(b, l, cluster_end) /\ stops # {} /\ EntryIn(b, k).kind # "end"
        /\ DirEnds(f, OpEnded("OK", b.units[k % SectorUnits], k + 1, cluster_end))

DirReadStart(f) == DirSearch(f, buf, file[f].curlocation, file[f].cluster_end)
-----------------------------------------------------------------------------
(* HandleFileRead and HandleFileSeek. *)

\* Mutant: what remains is read over the end of the cluster.
ChunkWhole(r) == IF r.cluster_end = r.curlocation THEN 0 ELSE r.remaining

\* Mutant: the rest of the cluster is read, however little remains.
ChunkUncut(r) == (r.cluster_end - r.curlocation) % Wide

\* The next chunk of the file, up to the end of its cluster.
Chunk(r) ==
  LET chunksize == (r.cluster_end - r.curlocation) % Wide
  IN IF chunksize > r.remaining THEN r.remaining ELSE chunksize

\* At the end of the cluster the FAT is read first.
ReadChunk(f, r) ==
  /\ op' = op
  /\ \/ /\ Chunk(r) > 0
        /\ stra' = StorRead("file", r.curlocation, Chunk(r))
        /\ Continue(f, r, 1, 1)
     \/ /\ Chunk(r) = 0
        /\ stra' = FindNextCluster(AddrToCluster(r.curlocation) - 1)
        /\ Continue(f, r, 5, 1)

FileRead(f, next) ==
  LET moved == IF trastate = 1 THEN stra.len ELSE 0
      r == [file[f] EXCEPT !.curlocation = @ + moved, !.filepos = @ + moved,
                           !.remaining = @ - moved,
                           !.got = @ \o [i \in 1 .. moved |-> stra.address + i - 1]]
  IN \/ /\ r.remaining = 0
        /\ FinishCurTra(f, r, "OK")
     \/ /\ r.remaining # 0 /\ trastate # 5
        /\ ReadChunk(f, r)
     \/ /\ r.remaining # 0 /\ trastate = 5
        /\ IF EndOfChain(next)
             THEN FinishCurTra(f, r, "EOF")
             ELSE ReadChunk(f, [r EXCEPT !.curlocation = ClusterToAddr(next),
                                         !.cluster_end = ClusterToAddr(next) + ClusterUnits])

\* The walk to the cluster of the target, which stops one cluster early when
\* the target is the first position of a cluster.
SeekWalk(f, r) ==
  LET arrived == r.filepos + ClusterUnits >= r.targetpos
  IN \/ /\ arrived
        /\ FinishCurTra(f, [r EXCEPT !.curlocation = @ + Reminder(r.targetpos),
                                     !.filepos = r.targetpos,
                                     !.strayed = Reminder(r.targetpos) = 0], "OK")
     \/ /\ ~arrived
        /\ stra' = FindNextCluster(AddrToCluster(r.curlocation)) /\ op' = op
        /\ Continue(f, r, 5, 1)

FileSeek(f, next) ==
  LET r == file[f]
  IN IF trastate # 5 THEN SeekWalk(f, r)
     ELSE IF EndOfChain(next) THEN FinishCurTra(f, r, "EOF")
     ELSE SeekWalk(f, [r EXCEPT !.filepos = @ + ClusterUnits,
                                !.curlocation = ClusterToAddr(next),
                                !.cluster_end = ClusterToAddr(next) + ClusterUnits])
-----------------------------------------------------------------------------
(* Run. *)

\* No transaction is served before the boot sector was found good, and none
\* ever when it was not read or found bad.
RunInit ==
  \/ /\ mount = "unread"
     /\ mount' = "reading" /\ stra' = StorRead("boot", 0, SectorUnits)
     /\ UNCHANGED <<file, tras, trastate, seg, op, buf>>
  \/ /\ mount = "reading"
     /\ \E c \in StorRun : mount' = IF c.errorcode = 0 /\ BootOk THEN "ok" ELSE "bad"
     /\ stra' = StorIdle
     /\ UNCHANGED <<file, tras, trastate, seg, op, buf>>

\* The operation has failed: the handler of the transaction says so.
OpFails(f) ==
  IF file[f].tratype = "OPEN"
    THEN FinishCurTra(f, file[f], "IOERROR")
    ELSE DirResult(f, OpEnded("IOERROR", NoUnit, op.location, op.cluster_end))

\* The operation goes on from l, with the handler when it has ended.
OpContinues(f, b, l, cluster_end) ==
  \/ /\ file[f].tratype = "OPEN"
     /\ OpenSearch(f, seg, b, l, cluster_end)
  \/ /\ file[f].tratype = "READ"
     /\ DirSearch(f, b, l, cluster_end)

\* At the end of the FAT chain the transaction is finished, the operation is
\* not: it goes on at the next call, which finishes the transaction that is at
\* the head by then in the same way.
ChainEnds(f) ==
  /\ Unchain(f, file[f], "EOF")
  /\ op' = op /\ stra' = [stra EXCEPT !.completed = TRUE]

\* The directory sector after the storage transaction: it has its new name only
\* when it was read.
BufAfter(c) ==
  [addr |-> IF c.errorcode = 0 /\ op.opstate = 1 THEN SectorOf(op.location) ELSE buf.addr,
   units |-> c.units]

\* An operation is active and what it waited for has come.  (With no
\* transaction left, after ChainEnds, the code follows a null pointer; the
\* model stops there.)
RunOp ==
  /\ op.curop # "IDLE" /\ tras # <<>>
  /\ \E c \in StorRun :
       LET f == Head(tras)
           b == BufAfter(c)
           start == ClusterToAddr(c.next)
       IN /\ buf' = b
          /\ \/ /\ c.errorcode # 0
                /\ OpFails(f)
             \/ /\ c.errorcode = 0 /\ op.opstate # 5
                /\ OpContinues(f, b, op.location, op.cluster_end)
             \/ /\ c.errorcode = 0 /\ op.opstate = 5
                /\ IF EndOfChain(c.next) THEN ChainEnds(f)
                                         ELSE OpContinues(f, b, start, start + ClusterUnits)
  /\ mount' = mount

HandleTransaction(f, next) ==
  LET r == file[f]
  IN \/ /\ r.tratype = "OPEN"
        /\ OpenStart(f)
     \/ /\ r.tratype = "READ" /\ r.directory /\ trastate = 0
        /\ DirReadStart(f)
     \/ /\ r.tratype = "READ" /\ r.directory /\ trastate = 1
        /\ DirResult(f, op)
     \/ /\ r.tratype = "READ" /\ ~r.directory
        /\ FileRead(f, next)
     \/ /\ r.tratype = "SEEK"
        /\ FileSeek(f, next)

RunTransaction ==
  /\ mount = "ok" /\ op.curop = "IDLE" /\ tras # <<>>
  /\ \E c \in StorRun :
       \/ /\ c.errorcode # 0
          /\ FinishCurTra(Head(tras), file[Head(tras)], "IOERROR")
       \/ /\ c.errorcode = 0
          /\ HandleTransaction(Head(tras), c.next)
  /\ UNCHANGED <<buf, mount>>

Run == RunInit \/ RunOp \/ RunTransaction

Init ==
  /\ file = [f \in File |->
       [finished |-> TRUE, result |-> "OK", tratype |-> "NONE", opened |-> FALSE,
        directory |-> FALSE, path |-> <<>>, location |-> 0, size |-> 0,
        filepos |-> 0, curlocation |-> 0, cluster_end |-> 0, remaining |-> 0,
        targetpos |-> 0, datalen |-> 0, got |-> <<>>, from |-> 0,
        strayed |-> FALSE, listed |-> <<>>]]
  /\ tras = <<>> /\ trastate = 0 /\ seg = 1 /\ op = OpIdle
  /\ buf = [addr |-> InvalidBuf, units |-> [o \in 0 .. (SectorUnits - 1) |-> NoUnit]]
  /\ stra = StorIdle /\ mount = "unread"

Next ==
  \/ Run
  \/ \E f \in File :
       \/ \E p \in Paths[f] : Open(f, p)
       \/ \E n \in Lengths : Read(f, n)
       \/ \E pos \in Positions : Seek(f, pos)

\* A call of Run has something to do: the boot sector, an operation, a transaction.
Waits ==
  \/ mount \in {"unread", "reading"}
  \/ tras # <<>> /\ (op.curop # "IDLE" \/ mount = "ok")

\* What tells a call of Run that does it from the call of a client.
RunStep == fsys' # fsys \/ Len(tras') < Len(tras)

\* The main loop calls Run again and again: weak fairness of Run, in a form that TLC
\* evaluates faster (Waits is ENABLED <<Run>>_vars).
Fairness == []<>~Waits \/ []<><<RunStep>>_vars

Spec == Init /\ [][Next]_vars /\ Fairness
-----------------------------------------------------------------------------
(* What the volume holds, by definition. *)

\* The address of the data at position pos of the file that begins in cluster c.
DataAt(c, pos) == ClusterToAddr(Chain[c][1 + pos \div ClusterUnits]) + Reminder(pos)

\* The directories, by their first cluster.
Directories == {c \in DOMAIN Chain : ClusterToAddr(c) \in DOMAIN Entry}

\* The place i of a directory holds the entry EntryAt(c, i).
Places(c)     == 0 .. (Len(Chain[c]) * ClusterUnits - 1)
EntryAt(c, i) == Entry[DataAt(c, i)]

\* A directory holds entries only.  The directory of an entry is one, but for ".."
\* of a directory in the root directory, whose cluster is 0.
ASSUME DirectoryAssumption ==
  /\ 2 \in Directories
  /\ \A c \in Directories : \A i \in Places(c) : DataAt(c, i) \in DOMAIN Entry
  /\ \A a \in DOMAIN Entry :
       Entry[a].kind = "entry" /\ Entry[a].isdir =>
         \/ Entry[a].cluster \in Directories
         \/ ClusterToAddr(Entry[a].cluster) = InvalidAddr

\* The places of the live entries of the directory in cluster c.
LiveIn(c) ==
  {i \in Places(c) : EntryAt(c, i).kind = "entry" /\ \A j \in 0 .. i : EntryAt(c, j).kind # "end"}

\* Those before the place i, and the one with k - 1 of them before it.
Before(c, i)  == {j \in LiveIn(c) : j < i}
NthLive(c, k) == CHOOSE i \in LiveIn(c) : Cardinality(Before(c, i)) = k - 1

\* The addresses of the live entries of each directory, in order.
Listing ==
  [c \in Directories |-> [k \in 1 .. Cardinality(LiveIn(c)) |-> DataAt(c, NthLive(c, k))]]

\* What the directory r has to list.
ListingOf(r) ==
  LET c == AddrToCluster(r.location)
  IN IF c \in Directories THEN Listing[c] ELSE <<>>

\* The first entry of the directory in cluster c that the segment s names.
Lookup(c, s) ==
  LET hits == {i \in LiveIn(c) : Names(s, EntryAt(c, i))}
  IN IF hits = {} THEN NoUnit ELSE DataAt(c, First(hits))

\* What a path leads to: the result of Open and the cluster that it finds.
Answer(result, c) == [result |-> result, cluster |-> c]

\* What the first i segments of the path p lead to, those before it to d.
Follow(p, i, d) ==
  LET s == p.segments[i]
      last == i = Len(p.segments)
      u == Lookup(d.cluster, s)
      fits == IF ~last \/ p.directory THEN Entry[u].isdir ELSE ~Entry[u].nonfile
  IN IF d.result # "OK" \/ (s = "" /\ last /\ p.directory) THEN d
     ELSE IF s \in {""} \cup TooLong THEN Answer("INVALID_PATH", 0)
     ELSE IF u = NoUnit THEN Answer("FILE_NOT_FOUND", 0)
     ELSE IF fits THEN Answer("OK", Entry[u].cluster)
     ELSE Answer(IF last /\ p.directory THEN "DIR_NOT_FOUND" ELSE "FILE_NOT_FOUND", 0)

\* From the root directory on.
Way(p) ==
  LET way[i \in 0 .. Len(p.segments)] ==
        IF i = 0 THEN Answer("OK", 2) ELSE Follow(p, i, way[i - 1])
  IN way

Resolved == [p \in UNION {Paths[f] : f \in File} |-> Way(p)[Len(p.segments)]]

\* The location of a file is that of its position, or just behind the data
\* before it.
InPlace(r) ==
  LET c == AddrToCluster(r.location)
  IN r.size > 0 =>
       \E q \in {r.filepos, r.filepos - 1} \cap (0 .. (r.size - 1)) :
         /\ r.curlocation = DataAt(c, q) + (r.filepos - q)
         /\ r.cluster_end = DataAt(c, StartOf(q)) + ClusterUnits
-----------------------------------------------------------------------------
(* Properties. *)

Results == {"OK", "EOF", "IOERROR", "INVALID_PATH", "FILE_NOT_FOUND", "FILE_NOT_OPEN",
            "DIR_NOT_FOUND", "INVALID_FDATABUF", "SEEK_BEYOND_EOF"}

\* Every variable has its type: in particular the positions and what remains
\* to be read never become negative.
TypeOK ==
  /\ \A f \in File :
       LET r == file[f]
       IN /\ r.result \in Results
          /\ {r.finished, r.opened, r.directory, r.strayed} \subseteq BOOLEAN
          /\ r.tratype \in {"NONE", "OPEN", "READ", "SEEK"}
          /\ {r.location, r.size, r.filepos, r.curlocation, r.cluster_end,
              r.remaining, r.targetpos, r.datalen, r.from} \subseteq Nat
  /\ tras \in Seq(File)
  /\ trastate \in {0, 1, 2, 5}
  /\ op.curop \in {"IDLE", "DIR_READ"} /\ op.opstate \in {0, 1, 5}
  /\ op.opresult \in {"OK", "EOF", "IOERROR"}
  /\ buf.addr \in Nat
  /\ mount \in {"unread", "reading", "ok", "bad"}

\* A transaction of f of this type ends in this step.
Completes(f, type) ==
  ~file[f].finished /\ file'[f].finished /\ file[f].tratype = type

\* A Read that succeeds has moved the data of the file from its position on:
\* as much as was asked for and is left, whatever the chain of its clusters.
\* (Of a file that no Seek has led astray.)
ReadReturnsFile ==
  [][\A f \in File :
       LET r == file'[f]
           from == file[f].from
           len == file[f].datalen
           n == IF from + len > r.size THEN r.size - from ELSE len
       IN Completes(f, "READ") /\ ~r.directory /\ r.result = "OK" /\ ~r.strayed =>
            /\ r.got = [i \in 1 .. n |-> DataAt(AddrToCluster(r.location), from + i - 1)]
            /\ r.filepos = from + n]_vars

\* The location of an open file always is that of its position, also after a
\* Read or Seek that failed half way, so that the next call goes on rightly.
\* (But for the targets of Seek that lead it astray.)
PositionKept ==
  \A f \in File :
    LET r == file[f]
    IN r.opened /\ ~r.directory /\ r.finished /\ ~r.strayed => InPlace(r)

\* What is read next of a file is at its position: "the curlocation must point
\* to a valid file segment".
ChunkInFile ==
  stra.dst = "file" /\ ~stra.completed =>
    LET r == file[Head(tras)]
    IN stra.address = DataAt(AddrToCluster(r.location), r.filepos)

\* Open finds the first entry that the path names, through any chain of
\* directory clusters and whatever the buffered sector is, or says rightly
\* that there is none; an I/O error is the only other answer.
OpenResolves ==
  [][\A f \in File :
       LET r == file'[f]
           right == Resolved[[segments |-> file[f].path, directory |-> file[f].directory]]
       IN Completes(f, "OPEN") /\ r.result # "IOERROR" =>
            /\ r.result = right.result
            /\ r.opened = (right.result = "OK")
            /\ r.opened => r.location = ClusterToAddr(right.cluster)]_vars

\* The Reads of a directory give its live entries in order, each once, also
\* when some of them fail and when other directories are read in between.  (An
\* entry that a Read had no room for counts as given.)
DirListsInOrder ==
  \A f \in File :
    LET r == file[f]
        all == ListingOf(r)
    IN r.opened /\ r.directory =>
         Len(r.listed) <= Len(all) /\ r.listed = SubSeq(all, 1, Len(r.listed))

\* EOF is the answer to a Read of a directory whose entries have all been
\* given, and to nothing else: "end of file, end of find".
EofIsEnd ==
  \A f \in File :
    LET r == file[f]
    IN r.result = "EOF" /\ ~r.strayed =>
         /\ r.tratype = "READ" /\ r.opened /\ r.directory
         /\ r.listed = ListingOf(r)

\* Every transaction ends, whatever fails, once the volume was mounted: it is
\* served when those before it have ended, and no handler waits for nothing.
TransactionsEnd ==
  \A f \in File : ~file[f].finished ~> (file[f].finished \/ mount = "bad")
=============================================================================
