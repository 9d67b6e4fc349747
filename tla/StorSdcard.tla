----------------------------- MODULE StorSdcard -----------------------------
(***************************************************************************)
(* The SD card storage manager: the transaction list of TStorManager       *)
(* (fs/core/stormanager.cpp), the state machine of TStorManSdcard          *)
(* (fs/core/storman_sdcard.cpp) and the transfer interface of TSdCard      *)
(* (modules/sdcard/sdcard.cpp) it drives.                                  *)
(*                                                                         *)
(* A transaction whose address and length are multiples of a sector is     *)
(* handed to the card as it is.  Any other goes sector by sector through   *)
(* sdbuf, the one sector buffer, which is kept from one transaction to the *)
(* next and is identified by sdbufaddr.                                    *)
(*                                                                         *)
(* Addresses are byte addresses; a sector has SectorSize bytes (512 in the *)
(* code).  What the card does with a transfer is nondeterministic: it ends *)
(* at some later call of Run, with the data moved or with an error after   *)
(* a part of it was moved.                                                 *)
(***************************************************************************)
EXTENDS Integers, Sequences

CONSTANTS
  Tra,          \* the TStorTrans objects of the clients
  NULL,         \* the null pointer
  SectorSize,   \* bytes in a sector
  NumSectors,   \* sectors on the card
  MaxLen,       \* longest transaction, in bytes
  Val,          \* the values a byte takes
  Requests,     \* the requests the clients may issue
  InitialDisk,  \* what the card holds at the start
  FailPoints    \* bytes moved by a transfer before it fails; {}: none fails

CardBytes == NumSectors * SectorSize
CardAddr  == 0 .. (CardBytes - 1)
Index     == 0 .. (MaxLen - 1)
Offsets   == 0 .. (SectorSize - 1)

Request ==
  [trtype : {"READ", "WRITE", "ERASE"}, address : CardAddr,
   datalen : 1 .. MaxLen, data : [Index -> Val]]

ASSUME SizesAssumption ==
  /\ SectorSize \in Nat /\ SectorSize >= 2
  /\ NumSectors \in Nat \ {0}
  /\ MaxLen \in Nat \ {0}
ASSUME TraAssumption == NULL \notin Tra
ASSUME RequestsAssumption ==
  /\ Requests \subseteq Request
  /\ \A r \in Requests : r.address + r.datalen <= CardBytes
ASSUME DiskAssumption == InitialDisk \in [CardAddr -> Val]
ASSUME FailAssumption == FailPoints \subseteq Nat

\* A read or a write that the card did not answer in time (HWERR_TIMEOUT) is
\* counted with those it refused.
ESTOR_NOTIMPL == 1
HWERR_NOTINIT == 2
HWERR_READ    == 7
HWERR_WRITE   == 8
ErrorCode     == {0, ESTOR_NOTIMPL, HWERR_NOTINIT, HWERR_READ, HWERR_WRITE}

\* sdbufaddr when nothing is buffered: not the address of any sector.
InvalidAddr == 1

VARIABLES
  firsttra, lasttra, next,  \* the chain of waiting transactions
  tra,         \* the fields of each transaction object
  state,       \* SMDS_xxx
  curtra,      \* the transaction being served
  cur,         \* its progress: curaddr, remaining, dataptr, chunksize
  sdbufaddr, sdbuf,  \* the sector buffer
  sdcard,      \* the fields of TSdCard: status and current transfer
  disk,        \* what the card holds
  queue,       \* history: transactions added and not yet reported
  report,      \* history: what the last step reported to a callback
  tainted,     \* history: sdbuf differs from the sector it is named after
  clean        \* history: the current transaction used no tainted sdbuf

chain   == <<firsttra, lasttra, next, queue>>
history == <<tainted, clean>>
vars    == <<chain, tra, state, curtra, cur, sdbufaddr, sdbuf, sdcard, disk,
             report, history>>

NoReport == [tra |-> NULL, errorcode |-> 0]

\* The fields of a transfer and of a transaction's progress are set before
\* they are used, so the model forgets them when it ends.
NoTransfer == [iswrite |-> FALSE, startblock |-> 0, blockcount |-> 0,
               tosdbuf |-> FALSE]
NoProgress == [curaddr |-> 0, remaining |-> 0, dataptr |-> 0, chunksize |-> 0]

InQueue(t) == \E i \in 1 .. Len(queue) : queue[i] = t

-----------------------------------------------------------------------------
(* The transaction list. *)

\* Mutant: completed is not cleared.
Append2ChainCompleted(first, last, nx, q, objs, u, r) ==
  /\ \A i \in 1 .. Len(q) : q[i] # u
  /\ tra' = [objs EXCEPT ![u] = [trtype |-> r.trtype, address |-> r.address,
                                 datalen |-> r.datalen, data |-> r.data,
                                 completed |-> @.completed, errorcode |-> 0]]
  /\ next' = [[nx EXCEPT ![u] = NULL] EXCEPT ![IF last # NULL THEN last ELSE u] =
                IF last # NULL THEN u ELSE NULL]
  /\ firsttra' = IF last # NULL THEN first ELSE u
  /\ lasttra' = u
  /\ queue' = Append(q, u)

\* Mutant: the last transaction is not linked to the new one.
Append2ChainUnlinked(first, last, nx, q, objs, u, r) ==
  /\ \A i \in 1 .. Len(q) : q[i] # u
  /\ tra' = [objs EXCEPT ![u] = [trtype |-> r.trtype, address |-> r.address,
                                 datalen |-> r.datalen, data |-> r.data,
                                 completed |-> FALSE, errorcode |-> 0]]
  /\ next' = [nx EXCEPT ![u] = NULL]
  /\ firsttra' = IF last # NULL THEN first ELSE u
  /\ lasttra' = u
  /\ queue' = Append(q, u)

\* AddTransaction: appends u with request r to a list and clears its status.
\* A client only adds an object it is not waiting for.
Append2Chain(first, last, nx, q, objs, u, r) ==
  /\ \A i \in 1 .. Len(q) : q[i] # u
  /\ tra' = [objs EXCEPT ![u] = [trtype |-> r.trtype, address |-> r.address,
                                 datalen |-> r.datalen, data |-> r.data,
                                 completed |-> FALSE, errorcode |-> 0]]
  /\ IF last # NULL
       THEN /\ next' = [nx EXCEPT ![u] = NULL, ![last] = u]
            /\ firsttra' = first
       ELSE /\ next' = [nx EXCEPT ![u] = NULL]
            /\ firsttra' = u
  /\ lasttra' = u
  /\ queue' = Append(q, u)

\* ExecCallBack: the client is told and may add a transaction from there.
ExecCallBack(first, last, nx, q, objs) ==
  \/ /\ firsttra' = first
     /\ lasttra' = last
     /\ next' = nx
     /\ queue' = q
     /\ tra' = objs
  \/ \E u \in Tra, r \in Requests :
       Append2Chain(first, last, nx, q, objs, u, r)

\* Mutant: lasttra is left behind when the list becomes empty.
FinishCurTraStaleLast(t, error, data) ==
  /\ state' = "IDLE"
  /\ cur' = NoProgress
  /\ report' = [tra |-> t, errorcode |-> error, trtype |-> tra[t].trtype,
                address |-> tra[t].address, datalen |-> tra[t].datalen,
                data |-> data]
  /\ ExecCallBack(next[firsttra], lasttra, next, Tail(queue),
       [tra EXCEPT ![t].completed = TRUE, ![t].errorcode = error,
                   ![t].data = data])

\* FinishCurTra: t (the current transaction) leaves the list, the state
\* machine is idle again, and only then is the callback called.
FinishCurTra(t, error, data) ==
  LET first == next[firsttra]
      last  == IF first = NULL THEN NULL ELSE lasttra
  IN /\ state' = "IDLE"
     /\ cur' = NoProgress
     /\ report' = [tra |-> t, errorcode |-> error, trtype |-> tra[t].trtype,
                   address |-> tra[t].address, datalen |-> tra[t].datalen,
                   data |-> data]
     /\ ExecCallBack(first, last, next, Tail(queue),
          [tra EXCEPT ![t].completed = TRUE, ![t].errorcode = error,
                      ![t].data = data])

-----------------------------------------------------------------------------
(* The card. *)

\* dst with its first n bytes replaced by those of src from address base on.
Fill(dst, src, base, n) ==
  [i \in DOMAIN dst |-> IF i < n THEN src[base + i] ELSE dst[i]]

\* dst with the n bytes from address base on replaced by src.
Store(dst, src, base, n) ==
  [a \in DOMAIN dst |->
     IF a >= base /\ a < base + n THEN src[a - base] ELSE dst[a]]

\* The running transfer ends with the given error after n bytes were moved.
CardEnds(n, error) ==
  LET op   == sdcard.transfer
      base == op.startblock * SectorSize
      rd   == ~op.iswrite
      data == tra[curtra].data
      src  == IF op.tosdbuf THEN sdbuf ELSE data
  IN [errorcode |-> error,
      disk  |-> IF rd THEN disk ELSE Store(disk, src, base, n),
      sdbuf |-> IF rd /\ op.tosdbuf THEN Fill(sdbuf, disk, base, n)
                                        ELSE sdbuf,
      data  |-> IF rd /\ ~op.tosdbuf THEN Fill(data, disk, base, n)
                                         ELSE data]

\* The ways sdcard->Run() may return with the card ready.
CardRun(t) ==
  IF sdcard.completed
    THEN {[errorcode |-> sdcard.errorcode, disk |-> disk, sdbuf |-> sdbuf,
           data |-> tra[t].data]}
    ELSE LET bytes == sdcard.transfer.blockcount * SectorSize
             error == IF sdcard.transfer.iswrite THEN HWERR_WRITE ELSE HWERR_READ
         IN {CardEnds(bytes, 0)} \cup
            {CardEnds(n, error) : n \in {k \in FailPoints : k <= bytes}}

CardReady(c) ==
  [sdcard EXCEPT !.completed = TRUE, !.errorcode = c.errorcode,
                 !.transfer = NoTransfer]

\* StartReadBlocks, StartWriteBlocks of a ready card.
StartBlocks(write, address, blocks, tosdbuf) ==
  IF sdcard.initialized
    THEN [initialized |-> TRUE, completed |-> FALSE, errorcode |-> 0,
          transfer |-> [iswrite |-> write, tosdbuf |-> tosdbuf,
                        startblock |-> address \div SectorSize,
                        blockcount |-> blocks]]
    ELSE [sdcard EXCEPT !.completed = TRUE, !.errorcode = HWERR_NOTINIT]

\* TSdCardSpi::Init, TSdCardSdmmc::Init by the application.
CardInit ==
  /\ ~sdcard.initialized
  /\ sdcard' = [sdcard EXCEPT !.initialized = TRUE]
  /\ report' = NoReport
  /\ UNCHANGED <<chain, tra, state, curtra, cur, sdbufaddr, sdbuf, disk,
                 history>>

-----------------------------------------------------------------------------
(* The state machine.  In the operators below t is the current transaction, *)
(* data its data buffer and p its progress, as the call finds them.         *)

BlockAddr(a)   == a - (a % SectorSize)    \* a & SMD_BLOCK_ADDR_MASK
OffsetOf(a)    == a % SectorSize          \* a & 0x1FF
IsAligned(n)   == n % SectorSize = 0

\* The part of the remaining bytes that lies in the sector of p.curaddr.
Chunk(p) ==
  LET room == SectorSize - OffsetOf(p.curaddr)
  IN IF room > p.remaining THEN p.remaining ELSE room

\* Mutant: every chunk goes to the start of the client's buffer.
AdvanceAddress(p, n) ==
  [curaddr |-> p.curaddr + n, remaining |-> p.remaining - n,
   dataptr |-> p.dataptr, chunksize |-> p.chunksize]

Advance(p, n) ==
  [curaddr |-> p.curaddr + n, remaining |-> p.remaining - n,
   dataptr |-> p.dataptr + n, chunksize |-> p.chunksize]

\* data with the chunk of p copied from the sector buffer buf.
FromBuf(data, buf, p) ==
  [i \in DOMAIN data |->
     IF i >= p.dataptr /\ i < p.dataptr + Chunk(p)
       THEN buf[OffsetOf(p.curaddr) + i - p.dataptr] ELSE data[i]]

\* Mutant: all that remains is copied, over the end of sdbuf.
IntoBufRemaining(buf, data, p) ==
  LET off == OffsetOf(p.curaddr)
  IN [o \in DOMAIN buf \cup off .. (off + p.remaining - 1) |->
        IF o >= off /\ o < off + p.remaining
          THEN data[p.dataptr + o - off] ELSE buf[o]]

\* buf with the chunk of p copied from data.
IntoBuf(buf, data, p) ==
  [o \in DOMAIN buf |->
     IF o >= OffsetOf(p.curaddr) /\ o < OffsetOf(p.curaddr) + Chunk(p)
       THEN data[p.dataptr + o - OffsetOf(p.curaddr)] ELSE buf[o]]

\* A transfer of the sector buffer is started; when the card refuses, the
\* error is kept and the transaction is finished by the next Run.
StartBufTransfer(t, data, write, address, waitstate) ==
  /\ sdcard' = StartBlocks(write, address, 1, TRUE)
  /\ state' = IF sdcard.initialized THEN waitstate ELSE "FINISH"
  /\ tra' = [tra EXCEPT ![t].data = data,
                        ![t].errorcode = IF sdcard.initialized
                                           THEN @ ELSE HWERR_NOTINIT]
  /\ report' = NoReport
  /\ UNCHANGED chain

\* ProcessPartialRead.  The sector after the one in the buffer is never the
\* buffered one, so its StartPartialRead always loads.
ProcessPartialRead(t, c, p) ==
  LET data == FromBuf(c.data, c.sdbuf, p)
      q    == Advance(p, Chunk(p))
  IN /\ IF q.remaining > 0
          THEN /\ StartBufTransfer(t, data, FALSE, BlockAddr(q.curaddr),
                                   "RD_WAIT_PARTIAL")
               /\ cur' = q
          ELSE /\ FinishCurTra(t, tra[t].errorcode, data)
               /\ sdcard' = CardReady(c)
     /\ sdbuf' = c.sdbuf

StartPartialRead(t, c, p) ==
  IF BlockAddr(p.curaddr) # sdbufaddr
    THEN /\ StartBufTransfer(t, c.data, FALSE, BlockAddr(p.curaddr),
                             "RD_WAIT_PARTIAL")
         /\ cur' = p
         /\ sdbuf' = c.sdbuf
    ELSE ProcessPartialRead(t, c, p)

StartPartialWrite(t, c, p, bufaddr) ==
  /\ sdbuf' = IntoBuf(c.sdbuf, c.data, p)
  /\ cur' = [p EXCEPT !.chunksize = Chunk(p)]
  /\ StartBufTransfer(t, c.data, TRUE, bufaddr, "WR_WAIT_PARTIAL_WR")

PreparePartialWrite(t, c, p) ==
  IF BlockAddr(p.curaddr) # sdbufaddr
    THEN /\ StartBufTransfer(t, c.data, FALSE, BlockAddr(p.curaddr),
                             "WR_WAIT_PARTIAL_RD")
         /\ cur' = p
         /\ sdbuf' = c.sdbuf
    ELSE StartPartialWrite(t, c, p, sdbufaddr)

\* The full block mode of Run: the client's buffer goes straight to the card.
StartFullBlocks(t, c, p, write) ==
  /\ sdbuf' = c.sdbuf
  /\ sdcard' = StartBlocks(write, p.curaddr, p.remaining \div SectorSize, FALSE)
  /\ IF sdcard.initialized
       THEN /\ state' = "WAIT_NORMAL"
            /\ cur' = p
            /\ tra' = [tra EXCEPT ![t].data = c.data]
            /\ report' = NoReport
            /\ UNCHANGED chain
       ELSE FinishCurTra(t, HWERR_NOTINIT, c.data)

\* Run, state SMDS_IDLE: the first transaction of the list is started.
StartTransaction(c) ==
  LET t == firsttra
      r == tra[t]
      p == [curaddr |-> r.address, remaining |-> r.datalen, dataptr |-> 0,
            chunksize |-> 0]
      partial == ~IsAligned(r.address) \/ ~IsAligned(r.datalen)
      buffered == sdbufaddr # InvalidAddr /\ sdbufaddr >= r.address
                    /\ sdbufaddr < r.address + r.datalen
  IN /\ state = "IDLE"
     /\ curtra' = t
     /\ disk' = c.disk
     /\ CASE r.trtype = "READ"  /\ partial  -> StartPartialRead(t, c, p)
          [] r.trtype = "WRITE" /\ partial  -> PreparePartialWrite(t, c, p)
          [] r.trtype # "ERASE" /\ ~partial ->
               StartFullBlocks(t, c, p, r.trtype = "WRITE")
          [] r.trtype = "ERASE" ->
               /\ FinishCurTra(t, ESTOR_NOTIMPL, c.data)
               /\ sdcard' = CardReady(c)
               /\ sdbuf' = c.sdbuf
     /\ clean' = (tainted => ~partial \/ BlockAddr(r.address) # sdbufaddr)
     /\ tainted' = (tainted \/ (r.trtype = "WRITE" /\ ~partial /\ buffered))
     /\ UNCHANGED sdbufaddr

\* Run, state SMDS_WAIT_NORMAL.
FinishNormal(c) ==
  /\ state = "WAIT_NORMAL"
  /\ FinishCurTra(curtra, c.errorcode, c.data)
  /\ sdcard' = CardReady(c)
  /\ disk' = c.disk
  /\ sdbuf' = c.sdbuf
  /\ UNCHANGED <<curtra, sdbufaddr, history>>

\* Run, a transfer of the sector buffer ended with an error.
FailPartial(c) ==
  /\ state \in {"RD_WAIT_PARTIAL", "WR_WAIT_PARTIAL_RD", "WR_WAIT_PARTIAL_WR"}
  /\ c.errorcode # 0
  /\ FinishCurTra(curtra, c.errorcode, c.data)
  /\ sdcard' = CardReady(c)
  /\ disk' = c.disk
  /\ sdbuf' = c.sdbuf
  /\ tainted' = TRUE
  /\ UNCHANGED <<curtra, sdbufaddr, clean>>

\* Run, state SMDS_RD_WAIT_PARTIAL: the sector to read from is loaded.
ReadLoaded(c) ==
  /\ state = "RD_WAIT_PARTIAL"
  /\ c.errorcode = 0
  /\ sdbufaddr' = BlockAddr(cur.curaddr)
  /\ ProcessPartialRead(curtra, c, cur)
  /\ disk' = c.disk
  /\ tainted' = FALSE
  /\ UNCHANGED <<curtra, clean>>

\* Mutant: sdbufaddr is not set when the sector to change was loaded.
WriteLoadedUnnamed(c) ==
  /\ state = "WR_WAIT_PARTIAL_RD"
  /\ c.errorcode = 0
  /\ StartPartialWrite(curtra, c, cur, BlockAddr(cur.curaddr))
  /\ disk' = c.disk
  /\ tainted' = FALSE
  /\ UNCHANGED <<curtra, sdbufaddr, clean>>

\* Run, state SMDS_WR_WAIT_PARTIAL_RD: the sector to change is loaded.
WriteLoaded(c) ==
  /\ state = "WR_WAIT_PARTIAL_RD"
  /\ c.errorcode = 0
  /\ sdbufaddr' = BlockAddr(cur.curaddr)
  /\ StartPartialWrite(curtra, c, cur, BlockAddr(cur.curaddr))
  /\ disk' = c.disk
  /\ tainted' = FALSE
  /\ UNCHANGED <<curtra, clean>>

\* Run, state SMDS_WR_WAIT_PARTIAL_WR, with FinishPartialWrite.
FinishPartialWrite(c) ==
  LET q == Advance(cur, cur.chunksize)
  IN /\ state = "WR_WAIT_PARTIAL_WR"
     /\ c.errorcode = 0
     /\ IF q.remaining > 0
          THEN PreparePartialWrite(curtra, c, q)
          ELSE /\ FinishCurTra(curtra, tra[curtra].errorcode, c.data)
               /\ sdcard' = CardReady(c)
               /\ sdbuf' = c.sdbuf
     /\ disk' = c.disk
     /\ UNCHANGED <<curtra, sdbufaddr, history>>

\* Run, state SMDS_FINISH: the error was set when the card refused.
FinishRefused(c) ==
  /\ state = "FINISH"
  /\ FinishCurTra(curtra, tra[curtra].errorcode, c.data)
  /\ sdcard' = CardReady(c)
  /\ disk' = c.disk
  /\ sdbuf' = c.sdbuf
  /\ UNCHANGED <<curtra, sdbufaddr, history>>

\* TStorManSdcard::Run.  A call that finds the card busy changes nothing.
Run ==
  /\ firsttra # NULL
  /\ \E c \in CardRun(IF state = "IDLE" THEN firsttra ELSE curtra) :
       \/ StartTransaction(c)
       \/ FinishNormal(c)
       \/ FailPartial(c)
       \/ ReadLoaded(c)
       \/ WriteLoaded(c)
       \/ FinishPartialWrite(c)
       \/ FinishRefused(c)

\* AddTransaction by a client, between two calls of Run.
AddTransaction(t, r) ==
  /\ Append2Chain(firsttra, lasttra, next, queue, tra, t, r)
  /\ report' = NoReport
  /\ UNCHANGED <<state, curtra, cur, sdbufaddr, sdbuf, sdcard, disk, history>>

-----------------------------------------------------------------------------
NoData == CHOOSE d \in [Index -> Val] : TRUE

Init ==
  /\ firsttra = NULL /\ lasttra = NULL
  /\ next = [t \in Tra |-> NULL]
  /\ tra = [t \in Tra |-> [trtype |-> "READ", address |-> 0, datalen |-> 1,
                           data |-> NoData, completed |-> TRUE,
                           errorcode |-> 0]]
  /\ state = "IDLE"
  /\ curtra = NULL
  /\ cur = NoProgress
  /\ sdbufaddr = InvalidAddr
  /\ sdbuf = [o \in Offsets |-> CHOOSE v \in Val : TRUE]
  /\ sdcard = [initialized |-> FALSE, completed |-> TRUE, errorcode |-> 0,
               transfer |-> NoTransfer]
  /\ disk = InitialDisk
  /\ queue = <<>>
  /\ report = NoReport
  /\ tainted = FALSE
  /\ clean = TRUE

Next ==
  \/ Run
  \/ CardInit
  \/ \E t \in Tra, r \in Requests : AddTransaction(t, r)

\* The application calls Run for ever and the card answers every command;
\* the clients owe nothing.
Spec == Init /\ [][Next]_vars /\ WF_vars(Run)
-----------------------------------------------------------------------------
(* Properties. *)

TStorTrans ==
  [trtype : {"READ", "WRITE", "ERASE"}, address : CardAddr,
   datalen : 1 .. MaxLen, data : [Index -> Val], completed : BOOLEAN,
   errorcode : ErrorCode]

\* Every variable keeps its type.
TypeOK ==
  /\ firsttra \in Tra \cup {NULL}
  /\ lasttra \in Tra \cup {NULL}
  /\ next \in [Tra -> Tra \cup {NULL}]
  /\ tra \in [Tra -> TStorTrans]
  /\ state \in {"IDLE", "WAIT_NORMAL", "RD_WAIT_PARTIAL", "WR_WAIT_PARTIAL_RD",
                "WR_WAIT_PARTIAL_WR", "FINISH"}
  /\ curtra \in Tra \cup {NULL}
  /\ cur \in [curaddr : Nat, remaining : Nat, dataptr : Nat, chunksize : Nat]
  /\ sdbufaddr \in CardAddr \cup {InvalidAddr}
  /\ sdbuf \in [Offsets -> Val]
  /\ sdcard \in [initialized : BOOLEAN, completed : BOOLEAN,
                 errorcode : ErrorCode,
                 transfer : [iswrite : BOOLEAN, tosdbuf : BOOLEAN,
                             startblock : Nat, blockcount : Nat]]
  /\ disk \in [CardAddr -> Val]
  /\ queue \in Seq(Tra)
  /\ tainted \in BOOLEAN
  /\ clean \in BOOLEAN

\* The next pointers lead from first to last through the objects of q.
IsChain(first, last, nx, q) ==
  LET n == Len(q)
  IN /\ n = 0 => first = NULL /\ last = NULL
     /\ n > 0 => first = q[1] /\ last = q[n] /\ nx[q[n]] = NULL
     /\ \A i \in 1 .. (n - 1) : nx[q[i]] = q[i + 1]
     /\ \A i, j \in 1 .. n : q[i] = q[j] => i = j

\* The chain of next pointers from firsttra to lasttra is the queue of the
\* transactions that were added and not yet reported, each of them once, also
\* when a callback adds the object it is called for (FinishCurTra unchains the
\* transaction before it calls back).
ChainIsQueue == IsChain(firsttra, lasttra, next, queue)

\* A client sees completed exactly when its transaction is not waiting: a loop
\* on completed (WaitTransaction) neither ends early nor misses the end.
CompletedWhenServed == \A t \in Tra : tra[t].completed <=> ~InQueue(t)

BufferBusy == ~sdcard.completed /\ sdcard.transfer.tosdbuf

\* While no transfer uses it, sdbuf holds the bytes of the sector it is named
\* after, unless a transfer of sdbuf failed or an aligned write changed that
\* sector since it was loaded.
BufferCoherent ==
  sdbufaddr # InvalidAddr /\ ~BufferBusy /\ ~tainted =>
    \A o \in Offsets : sdbuf[o] = disk[sdbufaddr + o]

\* The header's words: sdbufaddr is the "address of the buffered sector,
\* 1 = invalid", so a buffer with a valid address holds that sector.
BufferedSector ==
  sdbufaddr # InvalidAddr /\ ~BufferBusy =>
    \A o \in Offsets : sdbuf[o] = disk[sdbufaddr + o]

Device == INSTANCE StorDevice WITH store <- disk, trusted <- clean

\* The manager is the storage device its clients see: first come first served,
\* one report per transaction, a write changes the bytes it covers and no
\* others, a read returns what the card holds.  The data part is void for a
\* transaction that was served from a tainted sector buffer.
ImplementsDevice == Device!Spec

\* Every transaction is reported, however the clients keep adding others.
EveryTransactionReported ==
  \A t \in Tra : InQueue(t) ~> report.tra = t
=============================================================================
