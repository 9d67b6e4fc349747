------------------------ MODULE StorSdcard_refinement ------------------------
(***************************************************************************)
(* The SD card storage manager implements the storage device of            *)
(* StorDevice, for any number of transactions, any sector and card size,   *)
(* and any set of requests: what StorSdcard's ImplementsDevice states and  *)
(* the model checker examines for one small card.                          *)
(***************************************************************************)
EXTENDS StorSdcard_proofs

USE SizesAssumption, TraAssumption, CardBytesNat DEF CardAddr, Index, Offsets

-----------------------------------------------------------------------------
(* What the bytes are while a transaction is being served. *)

\* The progress p splits transaction r in two; while good, what was moved
\* before p agrees with what the card holds.
Moved(p, r, card, good) ==
  /\ p.curaddr = r.address + p.dataptr
  /\ p.dataptr + p.remaining = r.datalen
  /\ good => \A i \in 0 .. (p.dataptr - 1) : r.data[i] = card[r.address + i]

\* buf is the sector of p as the card holds it, with the chunk of p replaced
\* by the written data.
Changed(buf, p, data, card) ==
  \A o \in Offsets :
    buf[o] = IF o >= OffsetOf(p.curaddr) /\ o < OffsetOf(p.curaddr) + Chunk(p)
               THEN data[p.dataptr + o - OffsetOf(p.curaddr)]
               ELSE card[BlockAddr(p.curaddr) + o]

MovedInv ==
  LET r == tra[curtra]
  IN /\ state = "FINISH" => r.errorcode # 0
     /\ state = "WAIT_NORMAL" =>
          /\ r.trtype # "ERASE"
          /\ sdcard.transfer.iswrite <=> r.trtype = "WRITE"
          /\ Base = r.address
          /\ Bytes = r.datalen
     /\ state \in PartialWaits =>
          /\ r.trtype = IF state = "RD_WAIT_PARTIAL" THEN "READ" ELSE "WRITE"
          /\ Moved(cur, r, disk, clean)
     /\ state = "WR_WAIT_PARTIAL_WR" /\ clean =>
          Changed(sdbuf, cur, r.data, disk)

\* What the device promises of every step that serves t: its buffer changes
\* only in a read, and the card only where a write covers it.
Faithful(t, data) ==
  /\ Device!DataOnlyRead(t, data)
  /\ clean' => Device!StoreOnlyWritten(t, disk')

\* The bytes of r in a buffer data are those on the card.
Agrees(data, r, card) ==
  \A i \in 0 .. (r.datalen - 1) : data[i] = card[r.address + i]

-----------------------------------------------------------------------------
(* The pieces the handlers are made of. *)

\* Only the data and the error of t change, and nothing is reported.
Served(t, data, error) ==
  /\ tra' = [tra EXCEPT ![t].data = data, ![t].errorcode = error]
  /\ report' = NoReport
  /\ UNCHANGED chain

\* A step that goes on with t is a Serve of the device, and keeps all of t
\* but its data and its error.
LEMMA ServeMaps ==
  ASSUME NEW t \in Tra, NEW data, NEW error,
         tra \in [Tra -> TStorTrans], queue # <<>>, t = queue[1],
         Served(t, data, error), Faithful(t, data)
  PROVE  /\ Device!Serve
         /\ tra'[t].trtype = tra[t].trtype
         /\ tra'[t].address = tra[t].address
         /\ tra'[t].datalen = tra[t].datalen
         /\ tra'[t].data = data
         /\ tra'[t].errorcode = error
<1>0. tra[t] \in TStorTrans
  OBVIOUS
<1>1. /\ tra' = [tra EXCEPT ![t].data = data, ![t].errorcode = error]
      /\ tra'[t] = [tra[t] EXCEPT !.data = data, !.errorcode = error]
  BY DEF Served
<1>2. /\ tra'[t].trtype = tra[t].trtype
      /\ tra'[t].address = tra[t].address
      /\ tra'[t].datalen = tra[t].datalen
      /\ tra'[t].data = data
      /\ tra'[t].errorcode = error
  BY <1>0, <1>1 DEF TStorTrans
<1>3. /\ t = Head(queue)
      /\ queue' = queue
      /\ report' = Device!NoReport
  BY DEF Served, chain, NoReport, Device!NoReport
<1>4. tra' = [tra EXCEPT ![t].data = tra'[t].data,
                         ![t].errorcode = tra'[t].errorcode]
  BY <1>1, <1>2
<1>5. Device!Serve
  BY <1>2, <1>3, <1>4, Zenon DEF Device!Serve, Faithful
<1> QED BY <1>2, <1>5

\* Ending t with the right bytes, or with an error, is the device's Finish.
LEMMA FinishMaps ==
  ASSUME NEW t, NEW c, NEW error \in ErrorCode, NEW data \in [Index -> Val],
         Setting(t, c), FinishCurTra(t, error, data), Faithful(t, data),
         error = 0 => /\ tra[t].trtype # "ERASE"
                      /\ clean' => Agrees(data, tra[t], disk')
  PROVE  Device!Finish /\ MovedInv'
<1> DEFINE first == next[t]
           last == IF next[t] = NULL THEN NULL ELSE lasttra
           rest == Tail(queue)
           objs == [tra EXCEPT ![t].completed = TRUE, ![t].errorcode = error,
                               ![t].data = data]
           done == [tra EXCEPT ![t].completed = TRUE, ![t].data = data,
                               ![t].errorcode = error]
<1>1. t \in Tra /\ tra \in [Tra -> TStorTrans] /\ tra[t] \in TStorTrans
  BY HeadType
<1>2. firsttra = t
  BY <1>1, UnchainKeepsList DEF Setting
<1>3. /\ state' = "IDLE"
      /\ ExecCallBack(first, last, next, rest, objs)
      /\ report'.tra = t /\ report'.errorcode = error /\ report'.data = data
  BY <1>2 DEF FinishCurTra
<1>4. objs = done
  <2>1. [tra[t] EXCEPT !.completed = TRUE, !.errorcode = error, !.data = data]
          = [tra[t] EXCEPT !.completed = TRUE, !.data = data, !.errorcode = error]
    BY <1>1 DEF TStorTrans
  <2> QED BY <1>1, <2>1
<1>5. queue # <<>> /\ t = Head(queue)
  BY DEF Setting
<1> HIDE DEF first, last, rest, objs
<1>6. \/ queue' = rest /\ tra' = objs
      \/ \E u \in Tra, r \in Requests :
            /\ ~Device!Waiting(rest, u)
            /\ queue' = Append(rest, u)
            /\ tra' = [objs EXCEPT ![u] = Device!Fresh(r)]
  <2>1. CASE queue' = rest /\ tra' = objs
    BY <2>1
  <2>2. ASSUME NEW u \in Tra, NEW r \in Requests,
               Append2Chain(first, last, next, rest, objs, u, r)
        PROVE  /\ ~Device!Waiting(rest, u)
               /\ queue' = Append(rest, u)
               /\ tra' = [objs EXCEPT ![u] = Device!Fresh(r)]
    BY <2>2, Zenon DEF Append2Chain, Device!Waiting, Device!Fresh
  <2> QED BY <1>3, <2>1, <2>2, Zenon DEF ExecCallBack
<1>7. report'.errorcode = 0 => Device!Done(t, report'.data)
  BY <1>3 DEF Device!Done, Agrees
<1>8. Device!Finish
  <2>1. done = [tra EXCEPT ![t].completed = TRUE, ![t].data = report'.data,
                           ![t].errorcode = report'.errorcode]
    BY <1>3
  <2> HIDE DEF done
  <2>2. /\ report'.tra = Head(queue)
        /\ Device!DataOnlyRead(Head(queue), report'.data)
        /\ clean' => Device!StoreOnlyWritten(Head(queue), disk')
        /\ report'.errorcode = 0 => Device!Done(Head(queue), report'.data)
    BY <1>3, <1>5, <1>7, Zenon DEF Faithful
  <2>3. \/ queue' = Tail(queue) /\ tra' = done
        \/ \E u \in Tra, r \in Requests :
              /\ ~Device!Waiting(Tail(queue), u)
              /\ queue' = Append(Tail(queue), u)
              /\ tra' = [done EXCEPT ![u] = Device!Fresh(r)]
    BY <1>4, <1>6, Zenon DEF rest
  <2> QED BY <1>5, <2>1, <2>2, <2>3, Zenon DEF Device!Finish
<1>9. MovedInv'
  BY <1>3 DEF MovedInv, PartialWaits
<1> QED BY <1>8, <1>9

-----------------------------------------------------------------------------
(* What a call of sdcard->Run moved. *)

\* Where the chunk of p lies, in the sector, on the card and in the buffer of
\* its transaction.
LEMMA ChunkPlace ==
  ASSUME NEW t \in Tra, NEW p, tra[t] \in TStorTrans, ProgressOf(p, t),
         p.curaddr = tra[t].address + p.dataptr
  PROVE  /\ p.dataptr \in Nat /\ p.curaddr \in Nat /\ p.remaining \in Nat
         /\ tra[t].address \in Nat /\ tra[t].datalen \in Nat
         /\ tra[t].datalen <= MaxLen
         /\ OffsetOf(p.curaddr) \in Offsets /\ BlockAddr(p.curaddr) \in Nat
         /\ BlockAddr(p.curaddr) + OffsetOf(p.curaddr) = tra[t].address + p.dataptr
         /\ Chunk(p) \in Nat /\ Chunk(p) >= 1 /\ Chunk(p) <= p.remaining
         /\ OffsetOf(p.curaddr) + Chunk(p) <= SectorSize
         /\ p.dataptr + Chunk(p) <= tra[t].datalen
         /\ BlockAddr(p.curaddr) + SectorSize <= CardBytes
<1>1. /\ tra[t].address \in Nat /\ tra[t].datalen \in Nat
      /\ tra[t].datalen <= MaxLen
  BY DEF TStorTrans
<1>2. /\ p.dataptr \in Nat /\ p.curaddr \in Nat /\ p.remaining \in Nat
      /\ p.curaddr \in CardAddr
  BY DEF ProgressOf, Progress
<1>3. /\ OffsetOf(p.curaddr) \in Offsets /\ BlockAddr(p.curaddr) \in Nat
      /\ p.curaddr = BlockAddr(p.curaddr) + OffsetOf(p.curaddr)
      /\ BlockAddr(p.curaddr) + SectorSize <= CardBytes
  BY <1>2, SectorParts, SectorOnCard
<1>4. /\ Chunk(p) \in Nat /\ Chunk(p) >= 1 /\ Chunk(p) <= p.remaining
      /\ OffsetOf(p.curaddr) + Chunk(p) <= SectorSize
      /\ p.dataptr + Chunk(p) <= tra[t].datalen
  BY <1>1, ChunkBounds
<1> HIDE DEF Offsets, CardAddr
<1> QED BY <1>1, <1>2, <1>3, <1>4

\* Writing a prefix of a changed sector changes bytes of the chunk only.
LEMMA SectorWritten ==
  ASSUME NEW t \in Tra, NEW p, tra[t] \in TStorTrans, ProgressOf(p, t),
         p.curaddr = tra[t].address + p.dataptr,
         disk \in [CardAddr -> Val], sdbuf \in [Offsets -> Val],
         Changed(sdbuf, p, tra[t].data, disk),
         NEW n \in Nat, n <= SectorSize,
         NEW new, new = Store(disk, sdbuf, BlockAddr(p.curaddr), n)
  PROVE  /\ \A a \in CardAddr :
               new[a] # disk[a] =>
                 /\ a >= tra[t].address + p.dataptr
                 /\ a < tra[t].address + p.dataptr + Chunk(p)
                 /\ new[a] = tra[t].data[a - tra[t].address]
         /\ n = SectorSize =>
              \A i \in p.dataptr .. (p.dataptr + Chunk(p) - 1) :
                 tra[t].data[i] = new[tra[t].address + i]
<1> DEFINE off  == OffsetOf(p.curaddr)
           base == BlockAddr(p.curaddr)
           from == tra[t].address
           data == tra[t].data
           k    == p.dataptr
           m    == Chunk(p)
<1>1. /\ k \in Nat /\ from \in Nat /\ base \in Nat /\ off \in Nat /\ m \in Nat
      /\ SectorSize \in Nat /\ CardBytes \in Nat /\ n \in Nat /\ n <= SectorSize
      /\ base + off = from + k
      /\ off + m <= SectorSize
      /\ base + SectorSize <= CardBytes
  BY ChunkPlace
<1>2. \A a \in CardAddr :
        new[a] = IF a >= base /\ a < base + n THEN sdbuf[a - base] ELSE disk[a]
  <2> HIDE DEF base
  <2>1. new = Store(disk, sdbuf, base, n)
    BY DEF base
  <2> QED BY ONLY <2>1, disk \in [CardAddr -> Val] DEF Store
<1>3. \A o \in Offsets :
        /\ o >= off /\ o < off + m => sdbuf[o] = data[k + o - off]
        /\ ~(o >= off /\ o < off + m) => sdbuf[o] = disk[base + o]
  BY DEF Changed
<1> HIDE DEF off, base, from, data, k, m
<1>4. ASSUME NEW a \in CardAddr, new[a] # disk[a]
      PROVE  /\ a >= from + k
             /\ a < from + k + m
             /\ new[a] = data[a - from]
  <2> DEFINE o == a - base
  <2>1. /\ a >= base /\ a < base + n
        /\ new[a] = sdbuf[a - base]
    BY ONLY <1>1, <1>2, <1>4, a \in CardAddr DEF CardAddr
  <2>2. o \in Offsets /\ base + o = a /\ a \in Nat /\ o \in Nat
    BY ONLY <1>1, <2>1, a \in CardAddr DEF CardAddr, Offsets
  <2>3. new[a] = sdbuf[o] /\ sdbuf[o] # disk[base + o]
    BY ONLY <1>4, <2>1, <2>2
  <2> HIDE DEF o
  <2>4. o >= off /\ o < off + m /\ sdbuf[o] = data[k + o - off]
    BY ONLY <1>3, <2>2, <2>3
  <2>5. k + o - off = a - from
    BY ONLY <1>1, <2>2
  <2>6. a >= from + k /\ a < from + k + m
    BY ONLY <1>1, <2>2, <2>4
  <2> QED BY ONLY <2>3, <2>4, <2>5, <2>6
<1>5. ASSUME n = SectorSize, NEW i \in k .. (k + m - 1)
      PROVE  data[i] = new[from + i]
  <2> DEFINE o == off + i - k
  <2>1. /\ o \in Offsets /\ o >= off /\ o < off + m
        /\ k + o - off = i
        /\ from + i \in CardAddr
        /\ from + i >= base /\ from + i < base + n
        /\ (from + i) - base = o
    BY ONLY <1>1, <1>5, i \in k .. (k + m - 1) DEF Offsets, CardAddr
  <2> HIDE DEF o
  <2>2. sdbuf[o] = data[i]
    BY ONLY <1>3, <2>1
  <2>3. new[from + i] = sdbuf[o]
    BY ONLY <1>2, <2>1
  <2> QED BY ONLY <2>2, <2>3
<1> QED BY <1>4, <1>5 DEF from, data, k, m

\* A call of Run moves bytes as the device promises: a read changes only the
\* buffer of its transaction, a write only the bytes it covers, and what
\* ended without an error is complete.
LEMMA CardMoves ==
  ASSUME IInv, MovedInv, firsttra # NULL, NEW c \in CardRun(Current)
  PROVE  /\ Device!DataOnlyRead(Current, c.data)
         /\ state = "IDLE" \/ clean => Device!StoreOnlyWritten(Current, c.disk)
         /\ state # "WAIT_NORMAL" => c.data = tra[Current].data
         /\ state = "WAIT_NORMAL" /\ c.errorcode = 0 =>
              /\ tra[Current].trtype # "ERASE"
              /\ Agrees(c.data, tra[Current], c.disk)
         /\ state = "WR_WAIT_PARTIAL_WR" /\ c.errorcode = 0 /\ clean =>
              \A i \in 0 .. (cur.dataptr + Chunk(cur) - 1) :
                 tra[Current].data[i] = c.disk[tra[Current].address + i]
<1> DEFINE t == Current
           r == tra[t]
<1>1. /\ t \in Tra /\ r \in TStorTrans
      /\ r.data \in [Index -> Val]
      /\ r.address \in Nat /\ r.datalen \in Nat
      /\ r.datalen <= MaxLen /\ r.address + r.datalen <= CardBytes
  <2>1. t \in Tra
    BY CurrentIsHead
  <2> HIDE DEF t
  <2>2. r \in TStorTrans /\ r.address + r.datalen <= CardBytes
    BY <2>1 DEF IInv, ListInv, ListOK
  <2> HIDE DEF r
  <2>3. /\ r.data \in [Index -> Val] /\ r.address \in CardAddr
        /\ r.datalen \in 1 .. MaxLen
    BY <2>2 DEF TStorTrans
  <2> QED BY <2>1, <2>2, <2>3
<1>2. /\ FieldsOK /\ ServeInv /\ ProgressInv /\ TransferInv
      /\ disk \in [CardAddr -> Val] /\ sdbuf \in [Offsets -> Val]
  BY DEF IInv, FieldsOK
<1> HIDE DEF t
<1>3. CASE sdcard.completed
  <2>1. c.disk = disk /\ c.data = r.data
    BY <1>3 DEF CardRun, t
  <2>2. state \notin Waits
    BY <1>2, <1>3 DEF ServeInv
  <2>3. /\ Device!DataOnlyRead(t, c.data)
        /\ Device!StoreOnlyWritten(t, c.disk)
    BY <2>1 DEF Device!DataOnlyRead, Device!StoreOnlyWritten
  <2> QED
    BY <2>1, <2>2, <2>3 DEF Waits, PartialWaits, t
<1>4. CASE ~sdcard.completed
  <2>1. state \in Waits /\ t = curtra
    BY <1>2, <1>4 DEF ServeInv, t, Current, Waits, PartialWaits
  <2>2. PICK n \in Nat, error \in ErrorCode :
          /\ c = CardEnds(n, error)
          /\ n <= Bytes
          /\ error = 0 => n = Bytes
    BY <2>1, CardRunEnds
  <2> DEFINE op == sdcard.transfer
  <2>3. /\ c.errorcode = error
        /\ c.disk = IF ~op.iswrite THEN disk
                    ELSE Store(disk, IF op.tosdbuf THEN sdbuf ELSE r.data, Base, n)
        /\ c.data = IF ~op.iswrite /\ ~op.tosdbuf
                      THEN Fill(r.data, disk, Base, n) ELSE r.data
    BY <2>1, <2>2 DEF CardEnds, Base
  <2>4. CASE state = "WAIT_NORMAL"
    <3>1. /\ ~op.tosdbuf
          /\ r.trtype # "ERASE"
          /\ op.iswrite <=> r.trtype = "WRITE"
          /\ Base = r.address /\ Bytes = r.datalen
      BY <1>2, <2>1, <2>4 DEF TransferInv, MovedInv
    <3>2. r.trtype \in {"READ", "WRITE", "ERASE"} /\ state # "IDLE"
          /\ state # "WR_WAIT_PARTIAL_WR"
      BY <1>1, <2>4 DEF TStorTrans
    <3>3. n <= r.datalen /\ (error = 0 => n = r.datalen)
      BY <2>2, <3>1
    <3>4. CASE op.iswrite
      <4>1. c.data = r.data /\ c.disk = Store(disk, r.data, r.address, n)
            /\ r.trtype = "WRITE"
        BY <2>3, <3>1, <3>4
      <4>2. \A a \in CardAddr :
              c.disk[a] = IF a >= r.address /\ a < r.address + n
                            THEN r.data[a - r.address] ELSE disk[a]
        <5> HIDE DEF r
        <5> QED BY ONLY <1>2, <4>1 DEF Store
      <4>3. Device!DataOnlyRead(t, c.data)
        BY <4>1 DEF Device!DataOnlyRead
      <4>4. Device!StoreOnlyWritten(t, c.disk)
        <5> SUFFICES ASSUME NEW a \in CardAddr, c.disk[a] # disk[a]
                     PROVE  /\ a >= r.address /\ a < r.address + r.datalen
                            /\ c.disk[a] = r.data[a - r.address]
          BY <4>1 DEF Device!StoreOnlyWritten, Device!InRange
        <5>1. a >= r.address /\ a < r.address + n
          BY <1>1, <4>2
        <5> HIDE DEF r
        <5> QED BY <1>1, <3>3, <4>2, <5>1
      <4>5. error = 0 => Agrees(c.data, r, c.disk)
        <5> SUFFICES ASSUME error = 0, NEW i \in 0 .. (r.datalen - 1)
                     PROVE  c.data[i] = c.disk[r.address + i]
          BY DEF Agrees
        <5> HIDE DEF r
        <5>1. /\ r.address + i \in CardAddr /\ r.address + i >= r.address
              /\ r.address + i < r.address + n
              /\ (r.address + i) - r.address = i
          BY <1>1, <3>3
        <5> QED BY <4>1, <4>2, <5>1
      <4> QED BY <2>3, <3>1, <3>2, <4>3, <4>4, <4>5, <2>4 DEF t
    <3>5. CASE ~op.iswrite
      <4>1. c.disk = disk /\ c.data = Fill(r.data, disk, r.address, n)
            /\ r.trtype = "READ"
        BY <2>3, <3>1, <3>2, <3>5
      <4>2. /\ DOMAIN c.data = Index
            /\ \A i \in Index : i < n => c.data[i] = disk[r.address + i]
            /\ \A i \in Index : ~(i < n) => c.data[i] = r.data[i]
        BY <1>1, <4>1 DEF Fill
      <4>3. Device!StoreOnlyWritten(t, c.disk)
        BY <4>1 DEF Device!StoreOnlyWritten
      <4>4. Device!DataOnlyRead(t, c.data)
        <5> SUFFICES ASSUME NEW i \in Index, c.data[i] # r.data[i]
                     PROVE  i < r.datalen
          BY <4>1, <4>2 DEF Device!DataOnlyRead
        <5> HIDE DEF r
        <5> QED BY <1>1, <3>3, <4>2
      <4>5. error = 0 => Agrees(c.data, r, c.disk)
        <5> SUFFICES ASSUME error = 0, NEW i \in 0 .. (r.datalen - 1)
                     PROVE  c.data[i] = c.disk[r.address + i]
          BY DEF Agrees
        <5> HIDE DEF r
        <5> QED BY <1>1, <3>3, <4>1, <4>2
      <4> QED BY <2>3, <3>1, <3>2, <4>3, <4>4, <4>5, <2>4 DEF t
    <3> QED BY <3>4, <3>5
  <2>5. CASE state \in PartialWaits /\ state # "WR_WAIT_PARTIAL_WR"
    <3>1. op.tosdbuf /\ ~op.iswrite
      BY <1>2, <2>5 DEF TransferInv
    <3>2. c.disk = disk /\ c.data = r.data
      BY <2>3, <3>1
    <3>3. /\ Device!DataOnlyRead(t, c.data)
          /\ Device!StoreOnlyWritten(t, c.disk)
      BY <3>2 DEF Device!DataOnlyRead, Device!StoreOnlyWritten
    <3> QED
      BY <2>5, <3>2, <3>3 DEF PartialWaits, t
  <2>6. CASE state = "WR_WAIT_PARTIAL_WR"
    <3>1. /\ op.tosdbuf /\ op.iswrite
          /\ Base = BlockAddr(cur.curaddr)
          /\ Bytes = SectorSize
          /\ ProgressOf(cur, t)
      BY <1>2, <2>1, <2>6 DEF TransferInv, ProgressInv, PartialWaits, Bytes
    <3>2. c.data = r.data /\ c.disk = Store(disk, sdbuf, BlockAddr(cur.curaddr), n)
      BY <2>3, <3>1
    <3>3. /\ r.trtype = "WRITE"
          /\ Moved(cur, r, disk, clean)
          /\ clean => Changed(sdbuf, cur, r.data, disk)
      BY <2>1, <2>6 DEF MovedInv, PartialWaits
    <3>4. /\ n <= SectorSize /\ (error = 0 => n = SectorSize)
          /\ cur.curaddr = r.address + cur.dataptr
      BY <2>2, <3>1, <3>3 DEF Moved
    <3>5. Device!DataOnlyRead(t, c.data)
      BY <3>2 DEF Device!DataOnlyRead
    <3>6. ASSUME clean
          PROVE  /\ Device!StoreOnlyWritten(t, c.disk)
                 /\ error = 0 => \A i \in 0 .. (cur.dataptr + Chunk(cur) - 1) :
                                    r.data[i] = c.disk[r.address + i]
      <4>1. /\ \A a \in CardAddr :
                  c.disk[a] # disk[a] =>
                    /\ a >= r.address + cur.dataptr
                    /\ a < r.address + cur.dataptr + Chunk(cur)
                    /\ c.disk[a] = r.data[a - r.address]
            /\ n = SectorSize =>
                 \A i \in cur.dataptr .. (cur.dataptr + Chunk(cur) - 1) :
                    r.data[i] = c.disk[r.address + i]
        <5>1. /\ t \in Tra /\ r \in TStorTrans /\ ProgressOf(cur, t)
              /\ cur.curaddr = r.address + cur.dataptr
              /\ disk \in [CardAddr -> Val] /\ sdbuf \in [Offsets -> Val]
              /\ Changed(sdbuf, cur, r.data, disk)
              /\ n \in Nat /\ n <= SectorSize
              /\ c.disk = Store(disk, sdbuf, BlockAddr(cur.curaddr), n)
          BY <1>1, <1>2, <3>1, <3>2, <3>3, <3>4, <3>6
        <5> QED BY ONLY <5>1, SectorWritten
      <4>2. /\ cur.dataptr \in Nat /\ Chunk(cur) \in Nat
            /\ cur.dataptr + Chunk(cur) <= r.datalen
        BY <1>1, <3>1, <3>4, ChunkPlace
      <4>3. Device!StoreOnlyWritten(t, c.disk)
        <5> SUFFICES ASSUME NEW a \in CardAddr, c.disk[a] # disk[a]
                     PROVE  /\ a >= r.address /\ a < r.address + r.datalen
                            /\ c.disk[a] = r.data[a - r.address]
          BY <3>3 DEF Device!StoreOnlyWritten, Device!InRange
        <5> DEFINE k    == cur.dataptr
                   m    == Chunk(cur)
                   from == r.address
                   len  == r.datalen
        <5>1. /\ a \in Nat /\ k \in Nat /\ m \in Nat /\ from \in Nat /\ len \in Nat
              /\ k + m <= len
              /\ a >= from + k /\ a < from + k + m
              /\ c.disk[a] = r.data[a - from]
          BY <1>1, <4>1, <4>2
        <5> HIDE DEF r, k, m, from, len
        <5>2. a >= from /\ a < from + len
          BY ONLY <5>1
        <5> QED BY <5>1, <5>2 DEF from, len
      <4>4. ASSUME error = 0, NEW i \in 0 .. (cur.dataptr + Chunk(cur) - 1)
            PROVE  r.data[i] = c.disk[r.address + i]
        <5>1. CASE i >= cur.dataptr
          BY <3>4, <4>1, <4>2, <4>4, <5>1
        <5>2. CASE i < cur.dataptr
          <6>1. r.data[i] = disk[r.address + i]
            BY <3>3, <3>6, <4>2, <5>2 DEF Moved
          <6>2. r.address + i \in CardAddr /\ ~(r.address + i >= r.address + cur.dataptr)
            <7> HIDE DEF r
            <7> QED BY <1>1, <4>2, <5>2
          <6> QED BY <4>1, <6>1, <6>2
        <5> QED BY <4>2, <5>1, <5>2
      <4> QED BY <4>3, <4>4
    <3> QED
      BY <2>3, <2>6, <3>2, <3>5, <3>6 DEF t
  <2> QED BY <2>1, <2>4, <2>5, <2>6 DEF Waits
<1> QED BY <1>3, <1>4
-----------------------------------------------------------------------------
(* The handlers, as steps of the device. *)

\* A transfer of the sector buffer is started or refused for a transaction
\* whose bytes are moved as far as p says.
LEMMA BufferMoves ==
  ASSUME NEW t, NEW c, NEW data \in [Index -> Val], NEW p, NEW write, NEW a,
         NEW w \in PartialWaits,
         Setting(t, c), Faithful(t, data),
         StartBufTransfer(t, data, write, a, w), cur' = p,
         tra[t].trtype = IF w = "RD_WAIT_PARTIAL" THEN "READ" ELSE "WRITE",
         Moved(p, [tra[t] EXCEPT !.data = data], disk', clean'),
         w = "WR_WAIT_PARTIAL_WR" /\ clean' => Changed(sdbuf', p, data, disk')
  PROVE  Device!Serve /\ MovedInv'
<1>1. /\ t \in Tra /\ tra \in [Tra -> TStorTrans] /\ tra[t] \in TStorTrans
      /\ queue # <<>> /\ t = queue[1] /\ curtra' = t
  BY HeadType DEF Setting
<1> DEFINE e == IF sdcard.initialized THEN tra[t].errorcode ELSE HWERR_NOTINIT
<1>2. /\ Served(t, data, e)
      /\ state' = IF sdcard.initialized THEN w ELSE "FINISH"
  BY <1>1 DEF StartBufTransfer, TStorTrans, Served
<1> HIDE DEF e
<1>3. /\ Device!Serve
      /\ tra'[t].trtype = tra[t].trtype
      /\ tra'[t].address = tra[t].address
      /\ tra'[t].datalen = tra[t].datalen
      /\ tra'[t].data = data
      /\ tra'[t].errorcode = e
  BY <1>1, <1>2, ServeMaps
<1>4. Moved(p, tra'[t], disk', clean')
  <2>1. /\ [tra[t] EXCEPT !.data = data].address = tra[t].address
        /\ [tra[t] EXCEPT !.data = data].datalen = tra[t].datalen
        /\ [tra[t] EXCEPT !.data = data].data = data
    BY <1>1 DEF TStorTrans
  <2> QED BY <1>3, <2>1 DEF Moved
<1>5. CASE sdcard.initialized
  <2>1. state' = w /\ w # "FINISH" /\ w # "WAIT_NORMAL"
    BY <1>2, <1>5 DEF PartialWaits
  <2> QED BY <1>1, <1>3, <1>4, <2>1 DEF MovedInv
<1>6. CASE ~sdcard.initialized
  <2>1. state' = "FINISH" /\ tra'[t].errorcode # 0
    BY <1>2, <1>3, <1>6 DEF e, HWERR_NOTINIT
  <2> QED BY <1>1, <1>3, <2>1 DEF MovedInv, PartialWaits
<1>7. sdcard.initialized \in BOOLEAN
  BY DEF Setting, SdCardFields
<1> QED BY <1>5, <1>6, <1>7

\* ProcessPartialRead copies the bytes of the chunk from the card's sector.
LEMMA ReadMoves ==
  ASSUME NEW t, NEW c, NEW p, Setting(t, c), ProgressOf(p, t),
         ProcessPartialRead(t, c, p), tra[t].trtype = "READ",
         c.disk = disk, c.data = tra[t].data,
         Moved(p, tra[t], disk, clean'),
         clean' => Holds(c.sdbuf, disk, BlockAddr(p.curaddr))
  PROVE  (Device!Serve \/ Device!Finish) /\ MovedInv'
<1> DEFINE data == FromBuf(c.data, c.sdbuf, p)
           q    == Advance(p, Chunk(p))
           k    == p.dataptr
           m    == Chunk(p)
           off  == OffsetOf(p.curaddr)
           base == BlockAddr(p.curaddr)
           from == tra[t].address
           len  == tra[t].datalen
           old  == tra[t].data
<1>1. /\ t \in Tra /\ tra[t] \in TStorTrans /\ old \in [Index -> Val]
      /\ tra[t].errorcode \in ErrorCode
      /\ c.sdbuf \in [Offsets -> Val] /\ disk' = disk
  BY HeadType DEF TStorTrans, Setting, CardResult
<1>2. /\ k \in Nat /\ m \in Nat /\ off \in Nat /\ base \in Nat /\ from \in Nat
      /\ len \in Nat /\ len <= MaxLen /\ MaxLen \in Nat /\ SectorSize \in Nat
      /\ base + off = from + k
      /\ off + m <= SectorSize
      /\ k + m <= len
      /\ p.remaining \in Nat /\ k + p.remaining = len
      /\ p.curaddr = from + k
  BY <1>1, ChunkPlace DEF Moved
<1>3. /\ DOMAIN data = Index
      /\ \A i \in Index :
            data[i] = IF i >= k /\ i < k + m THEN c.sdbuf[off + i - k] ELSE old[i]
  BY <1>1 DEF FromBuf
<1>4. /\ clean' => \A o \in Offsets : c.sdbuf[o] = disk[base + o]
      /\ clean' => \A i \in 0 .. (k - 1) : old[i] = disk[from + i]
  BY DEF Holds, Moved
<1>5. /\ q.curaddr = p.curaddr + m /\ q.remaining = p.remaining - m
      /\ q.dataptr = k + m
  BY DEF Advance
<1> HIDE DEF data, q, k, m, off, base, from, len, old
<1>6. \A i \in Index : i >= k /\ i < k + m =>
         off + i - k \in Offsets /\ base + (off + i - k) = from + i
  BY ONLY <1>2 DEF Index, Offsets
<1>7. data \in [Index -> Val]
  <2>1. \A i \in Index : data[i] \in Val
    BY ONLY <1>1, <1>3, <1>6
  <2>2. data = [i \in Index |-> data[i]]
    BY <1>3 DEF data, FromBuf
  <2> QED BY ONLY <2>1, <2>2
<1>8. clean' => \A i \in 0 .. (k + m - 1) : data[i] = disk'[from + i]
  <2> SUFFICES ASSUME clean', NEW i \in 0 .. (k + m - 1)
               PROVE  data[i] = disk[from + i]
    BY <1>1
  <2>1. i \in Index
    BY ONLY <1>2, i \in 0 .. (k + m - 1) DEF Index
  <2>2. CASE i >= k
    <3>1. i < k + m
      BY ONLY <1>2, i \in 0 .. (k + m - 1)
    <3>2. data[i] = c.sdbuf[off + i - k]
      BY ONLY <1>3, <2>1, <2>2, <3>1
    <3>3. off + i - k \in Offsets /\ base + (off + i - k) = from + i
      BY ONLY <1>6, <2>1, <2>2, <3>1
    <3> QED BY ONLY clean', <1>4, <3>2, <3>3
  <2>3. CASE ~(i >= k)
    <3>1. i \in 0 .. (k - 1)
      BY ONLY <1>2, <2>3, i \in 0 .. (k + m - 1)
    <3> QED BY ONLY clean', <1>3, <1>4, <2>1, <2>3, <3>1
  <2> QED BY <2>2, <2>3
<1>9. Faithful(t, data)
  <2>1. Device!DataOnlyRead(t, data)
    <3> SUFFICES ASSUME NEW i \in Index, data[i] # old[i] PROVE i < len
      BY <1>3 DEF Device!DataOnlyRead, old, len
    <3>1. i < k + m
      BY ONLY <1>3, data[i] # old[i], i \in Index
    <3> QED BY ONLY <1>2, <3>1, i \in Index DEF Index
  <2>2. Device!StoreOnlyWritten(t, disk')
    BY <1>1 DEF Device!StoreOnlyWritten
  <2> QED BY <2>1, <2>2 DEF Faithful
<1>10. CASE q.remaining > 0
  <2>1. /\ StartBufTransfer(t, data, FALSE, BlockAddr(q.curaddr), "RD_WAIT_PARTIAL")
        /\ cur' = q
    BY <1>10 DEF ProcessPartialRead, data, q
  <2>2. Moved(q, [tra[t] EXCEPT !.data = data], disk', clean')
    <3>1. /\ [tra[t] EXCEPT !.data = data].address = from
          /\ [tra[t] EXCEPT !.data = data].datalen = len
          /\ [tra[t] EXCEPT !.data = data].data = data
      BY <1>1 DEF TStorTrans, from, len
    <3>2. q.curaddr = from + q.dataptr /\ q.dataptr + q.remaining = len
      BY ONLY <1>2, <1>5
    <3>3. ASSUME clean', NEW i \in 0 .. (q.dataptr - 1)
          PROVE  data[i] = disk'[from + i]
      <4>1. i \in 0 .. (k + m - 1)
        BY ONLY <1>2, <1>5, i \in 0 .. (q.dataptr - 1)
      <4> QED BY ONLY <1>8, <3>3, <4>1
    <3> QED BY ONLY <3>1, <3>2, <3>3 DEF Moved
  <2> QED
    BY <1>7, <1>9, <2>1, <2>2, BufferMoves DEF PartialWaits
<1>11. CASE ~(q.remaining > 0)
  <2>1. FinishCurTra(t, tra[t].errorcode, data)
    BY <1>11 DEF ProcessPartialRead, data, q
  <2>2. clean' => Agrees(data, tra[t], disk')
    <3>1. k + m = len
      BY ONLY <1>2, <1>5, <1>11
    <3>2. ASSUME clean', NEW i \in 0 .. (len - 1)
          PROVE  data[i] = disk'[from + i]
      <4>1. i \in 0 .. (k + m - 1)
        BY ONLY <1>2, <3>1, i \in 0 .. (len - 1)
      <4> QED BY ONLY <1>8, <3>2, <4>1
    <3> QED BY ONLY <3>2 DEF Agrees, from, len
  <2> QED
    BY <1>1, <1>7, <1>9, <2>1, <2>2, FinishMaps
<1> QED BY <1>10, <1>11

\* StartPartialWrite changes the chunk in the sector as the card holds it.
LEMMA WriteMoves ==
  ASSUME NEW t, NEW c, NEW p, NEW a, Setting(t, c), ProgressOf(p, t),
         StartPartialWrite(t, c, p, a), tra[t].trtype = "WRITE",
         c.data = tra[t].data, Faithful(t, c.data),
         Moved(p, tra[t], disk', clean'),
         clean' => Holds(c.sdbuf, disk', BlockAddr(p.curaddr))
  PROVE  Device!Serve /\ MovedInv'
<1> DEFINE q == [p EXCEPT !.chunksize = Chunk(p)]
<1>1. /\ p \in Progress
      /\ c.data \in [Index -> Val] /\ c.sdbuf \in [Offsets -> Val]
      /\ t \in Tra /\ tra[t] \in TStorTrans
  BY HeadType DEF ProgressOf, Setting, CardResult
<1>2. /\ q.curaddr = p.curaddr /\ q.dataptr = p.dataptr
      /\ q.remaining = p.remaining
  BY <1>1 DEF Progress
<1>3. Chunk(q) = Chunk(p)
  BY <1>2 DEF Chunk
<1>4. /\ sdbuf' = IntoBuf(c.sdbuf, c.data, p)
      /\ cur' = q
      /\ StartBufTransfer(t, c.data, TRUE, a, "WR_WAIT_PARTIAL_WR")
  BY DEF StartPartialWrite
<1> HIDE DEF q
<1>5. clean' => Changed(sdbuf', q, c.data, disk')
  BY <1>1, <1>2, <1>3, <1>4 DEF Changed, IntoBuf, Holds
<1>6. Moved(q, [tra[t] EXCEPT !.data = c.data], disk', clean')
  <2>1. [tra[t] EXCEPT !.data = c.data] = tra[t]
    BY <1>1 DEF TStorTrans
  <2> QED BY <1>2, <2>1 DEF Moved
<1> QED
  BY <1>1, <1>4, <1>5, <1>6, BufferMoves DEF PartialWaits

\* PreparePartialWrite loads the sector, or changes it if it is buffered.
LEMMA PrepareMoves ==
  ASSUME NEW t, NEW c, NEW p, Setting(t, c), ProgressOf(p, t),
         PreparePartialWrite(t, c, p), tra[t].trtype = "WRITE",
         c.data = tra[t].data, Faithful(t, c.data),
         Moved(p, tra[t], disk', clean'),
         clean' /\ sdbufaddr = BlockAddr(p.curaddr) =>
           Holds(c.sdbuf, disk', sdbufaddr)
  PROVE  Device!Serve /\ MovedInv'
<1>1. CASE BlockAddr(p.curaddr) # sdbufaddr
  <2>1. /\ StartBufTransfer(t, c.data, FALSE, BlockAddr(p.curaddr),
                            "WR_WAIT_PARTIAL_RD")
        /\ cur' = p
    BY <1>1 DEF PreparePartialWrite
  <2>2. c.data \in [Index -> Val] /\ tra[t] \in TStorTrans
    BY HeadType DEF Setting, CardResult
  <2>3. [tra[t] EXCEPT !.data = c.data] = tra[t]
    BY <2>2 DEF TStorTrans
  <2> QED
    BY <2>1, <2>2, <2>3, BufferMoves DEF PartialWaits
<1>2. CASE BlockAddr(p.curaddr) = sdbufaddr
  BY <1>2, WriteMoves DEF PreparePartialWrite
<1> QED BY <1>1, <1>2

\* The full block mode hands the whole transaction to the card.
LEMMA FullMoves ==
  ASSUME NEW t, NEW c, NEW p \in Progress, NEW write \in BOOLEAN,
         Setting(t, c), StartFullBlocks(t, c, p, write),
         c.data = tra[t].data, Faithful(t, c.data),
         p.curaddr = tra[t].address, p.remaining = tra[t].datalen,
         IsAligned(p.curaddr), IsAligned(p.remaining),
         tra[t].trtype # "ERASE", write <=> tra[t].trtype = "WRITE"
  PROVE  (Device!Serve \/ Device!Finish) /\ MovedInv'
<1>1. /\ t \in Tra /\ tra \in [Tra -> TStorTrans] /\ tra[t] \in TStorTrans
      /\ queue # <<>> /\ t = queue[1] /\ curtra' = t
      /\ c.data \in [Index -> Val]
  BY HeadType DEF Setting, CardResult
<1>2. CASE sdcard.initialized
  <2>1. /\ state' = "WAIT_NORMAL"
        /\ tra' = [tra EXCEPT ![t].data = c.data]
        /\ report' = NoReport /\ UNCHANGED chain
        /\ sdcard' = [initialized |-> TRUE, completed |-> FALSE, errorcode |-> 0,
                      transfer |-> [iswrite |-> write, tosdbuf |-> FALSE,
                                    startblock |-> p.curaddr \div SectorSize,
                                    blockcount |-> p.remaining \div SectorSize]]
    BY <1>2 DEF StartFullBlocks, StartBlocks
  <2>2. Served(t, c.data, tra[t].errorcode)
    BY <1>1, <2>1 DEF TStorTrans, Served
  <2>3. /\ Device!Serve
        /\ tra'[t].trtype = tra[t].trtype
        /\ tra'[t].address = tra[t].address
        /\ tra'[t].datalen = tra[t].datalen
    BY <1>1, <2>2, ServeMaps
  <2>4. /\ p.curaddr \in Nat /\ p.remaining \in Nat
        /\ (p.curaddr \div SectorSize) * SectorSize = p.curaddr
        /\ (p.remaining \div SectorSize) * SectorSize = p.remaining
    BY AlignedParts DEF Progress
  <2>5. /\ Base' = tra[t].address /\ Bytes' = tra[t].datalen
        /\ sdcard'.transfer.iswrite = write
    BY <2>1, <2>4 DEF Base, Bytes
  <2>6. MovedInv'
    BY <1>1, <2>1, <2>3, <2>5 DEF MovedInv, PartialWaits
  <2> QED BY <2>3, <2>6
<1>3. CASE ~sdcard.initialized
  <2>1. FinishCurTra(t, HWERR_NOTINIT, c.data)
    BY <1>3 DEF StartFullBlocks
  <2>2. HWERR_NOTINIT \in ErrorCode /\ HWERR_NOTINIT # 0
    BY DEF ErrorCode, HWERR_NOTINIT
  <2> QED BY <1>1, <2>1, <2>2, FinishMaps
<1> QED BY <1>2, <1>3 DEF Setting, SdCardFields

-----------------------------------------------------------------------------
(* The steps. *)

\* A transaction is added between two calls of Run: the device's Add.
LEMMA AddMaps ==
  ASSUME IInv, MovedInv, NEW t \in Tra, NEW r \in Requests, AddTransaction(t, r)
  PROVE  Device!Add(t, r) /\ MovedInv'
<1>1. /\ Append2Chain(firsttra, lasttra, next, queue, tra, t, r)
      /\ report' = NoReport
      /\ UNCHANGED <<state, curtra, cur, sdbufaddr, sdbuf, sdcard, disk, history>>
  BY DEF AddTransaction
<1>2. /\ \A u \in Tra \ {t} : tra'[u] = tra[u]
      /\ \A i \in 1 .. Len(queue) : queue[i] # t
      /\ queue \in Seq(Tra)
  BY <1>1, AppendKeepsList DEF IInv, ListInv, ListOK
<1>3. Device!Add(t, r)
  <2>1. /\ ~Device!Waiting(queue, t)
        /\ queue' = Append(queue, t)
        /\ tra' = [tra EXCEPT ![t] = Device!Fresh(r)]
    BY <1>1, Zenon DEF Append2Chain, Device!Waiting, Device!Fresh
  <2>2. report' = Device!NoReport /\ disk' = disk /\ clean' = clean
    BY <1>1 DEF NoReport, Device!NoReport, history
  <2> QED BY <2>1, <2>2 DEF Device!Add
<1>4. MovedInv'
  <2>1. state # "IDLE" => tra'[curtra] = tra[curtra]
    BY <1>2 DEF IInv, ServeInv
  <2>2. /\ state' = state /\ curtra' = curtra /\ cur' = cur /\ sdcard' = sdcard
        /\ sdbuf' = sdbuf /\ disk' = disk /\ clean' = clean
    BY <1>1 DEF history
  <2> QED
    BY <2>1, <2>2 DEF MovedInv, Base, Bytes, PartialWaits
<1> QED BY <1>3, <1>4

\* The application initializes the card: nothing the device shows.
LEMMA CardInitMaps ==
  ASSUME IInv, MovedInv, CardInit
  PROVE  Device!Quiet /\ MovedInv'
<1>1. /\ sdcard' = [sdcard EXCEPT !.initialized = TRUE]
      /\ report' = NoReport
      /\ queue' = queue /\ tra' = tra /\ state' = state /\ curtra' = curtra
      /\ cur' = cur /\ sdbuf' = sdbuf /\ disk' = disk /\ clean' = clean
  BY DEF CardInit, chain, history
<1>2. sdcard'.transfer = sdcard.transfer
  BY <1>1 DEF IInv, FieldsOK
<1>3. Device!Quiet
  BY <1>1 DEF Device!Quiet, NoReport, Device!NoReport
<1>4. MovedInv'
  BY <1>1, <1>2 DEF MovedInv, Base, Bytes
<1> QED BY <1>3, <1>4

\* A call of Run that ends the transaction with what the card reported.
LEMMA EndMaps ==
  ASSUME IInv, MovedInv, firsttra # NULL, NEW c \in CardRun(Current),
         FinishNormal(c) \/ FailPartial(c) \/ FinishRefused(c)
  PROVE  Device!Finish /\ MovedInv'
<1>1. /\ state # "IDLE" /\ Current = curtra /\ curtra' = curtra
      /\ disk' = c.disk /\ sdbufaddr' = sdbufaddr /\ clean' = clean
      /\ tainted' \in BOOLEAN
  BY DEF FinishNormal, FailPartial, FinishRefused, Current, history, IInv, FieldsOK
<1>2. Setting(curtra, c)
  BY <1>1, RunSetting DEF IInv, FieldsOK
<1>3. /\ c.errorcode \in ErrorCode /\ c.data \in [Index -> Val]
      /\ tra[curtra].errorcode \in ErrorCode
  BY <1>2, HeadType DEF Setting, CardResult, TStorTrans
<1>4. Faithful(curtra, c.data)
  BY <1>1, CardMoves DEF Faithful
<1>5. CASE FinishNormal(c)
  <2>1. FinishCurTra(curtra, c.errorcode, c.data) /\ state = "WAIT_NORMAL"
    BY <1>5 DEF FinishNormal
  <2>2. c.errorcode = 0 => /\ tra[curtra].trtype # "ERASE"
                           /\ Agrees(c.data, tra[curtra], disk')
    BY <1>1, <2>1, CardMoves
  <2> QED BY <1>2, <1>3, <1>4, <2>1, <2>2, FinishMaps
<1>6. CASE FailPartial(c)
  <2>1. FinishCurTra(curtra, c.errorcode, c.data) /\ c.errorcode # 0
    BY <1>6 DEF FailPartial
  <2> QED BY <1>2, <1>3, <1>4, <2>1, FinishMaps
<1>7. CASE FinishRefused(c)
  <2>1. FinishCurTra(curtra, tra[curtra].errorcode, c.data) /\ state = "FINISH"
    BY <1>7 DEF FinishRefused
  <2>2. tra[curtra].errorcode # 0
    BY <2>1 DEF MovedInv
  <2> QED BY <1>2, <1>3, <1>4, <2>1, <2>2, FinishMaps
<1> QED BY <1>5, <1>6, <1>7

\* A call of Run that goes on with a loaded sector.
LEMMA LoadedMaps ==
  ASSUME IInv, MovedInv, firsttra # NULL, NEW c \in CardRun(Current),
         ReadLoaded(c) \/ WriteLoaded(c)
  PROVE  (Device!Serve \/ Device!Finish) /\ MovedInv'
<1>1. /\ state \in {"RD_WAIT_PARTIAL", "WR_WAIT_PARTIAL_RD"}
      /\ c.errorcode = 0
      /\ Current = curtra /\ curtra' = curtra
      /\ disk' = c.disk
      /\ sdbufaddr' = BlockAddr(cur.curaddr)
      /\ tainted' = FALSE /\ clean' = clean
  BY DEF ReadLoaded, WriteLoaded, Current
<1>2. /\ ProgressOf(cur, curtra)
      /\ sdcard.initialized
  BY <1>1 DEF IInv, ProgressInv, ServeInv, PartialWaits, Waits
<1>3. cur.curaddr \in CardAddr /\ cur.curaddr \in Nat
  BY <1>2 DEF ProgressOf, Progress
<1>4. /\ BlockAddr(cur.curaddr) \in CardAddr
      /\ BlockAddr(cur.curaddr) + SectorSize <= CardBytes
      /\ IsAligned(BlockAddr(cur.curaddr))
  BY <1>3, SectorOnCard, BlockOfBlock
<1>5. Setting(curtra, c)
  BY <1>1, <1>2, <1>4, CurrentIsHead, CardRunResult
     DEF IInv, Setting, FieldsOK, SdCardFields
<1>6. c.disk = disk /\ Holds(c.sdbuf, c.disk, BlockAddr(cur.curaddr))
  BY <1>1, CardRunResult
<1>7. c.data = tra[curtra].data /\ Faithful(curtra, c.data)
  BY <1>1, CardMoves DEF Faithful
<1>8. /\ tra[curtra].trtype = IF state = "RD_WAIT_PARTIAL" THEN "READ" ELSE "WRITE"
      /\ Moved(cur, tra[curtra], disk, clean')
  BY <1>1 DEF MovedInv, PartialWaits
<1>9. CASE ReadLoaded(c)
  <2>1. ProcessPartialRead(curtra, c, cur) /\ state = "RD_WAIT_PARTIAL"
    BY <1>9 DEF ReadLoaded
  <2> QED BY <1>2, <1>5, <1>6, <1>7, <1>8, <2>1, ReadMoves
<1>10. CASE WriteLoaded(c)
  <2>1. /\ StartPartialWrite(curtra, c, cur, BlockAddr(cur.curaddr))
        /\ state = "WR_WAIT_PARTIAL_RD"
    BY <1>10 DEF WriteLoaded
  <2>2. disk' = disk
    BY <1>1, <1>6
  <2> QED BY <1>2, <1>5, <1>6, <1>7, <1>8, <2>1, <2>2, WriteMoves
<1> QED BY <1>9, <1>10

\* A call of Run after the sector write.
LEMMA WrittenMaps ==
  ASSUME IInv, MovedInv, firsttra # NULL, NEW c \in CardRun(Current),
         FinishPartialWrite(c)
  PROVE  (Device!Serve \/ Device!Finish) /\ MovedInv'
<1> DEFINE q == Advance(cur, cur.chunksize)
           r == tra[curtra]
<1>1. /\ state = "WR_WAIT_PARTIAL_WR"
      /\ c.errorcode = 0
      /\ Current = curtra /\ curtra' = curtra
      /\ disk' = c.disk
      /\ sdbufaddr' = sdbufaddr /\ tainted' = tainted /\ clean' = clean
  BY DEF FinishPartialWrite, Current, history
<1>2. /\ ProgressOf(cur, curtra)
      /\ cur.chunksize = Chunk(cur)
      /\ sdbufaddr \in CardAddr \cup {InvalidAddr}
  BY <1>1 DEF IInv, ProgressInv, FieldsOK, PartialWaits
<1>3. Setting(curtra, c)
  BY <1>1, RunSetting DEF IInv, FieldsOK
<1>4. /\ curtra \in Tra /\ r \in TStorTrans
      /\ r.errorcode \in ErrorCode /\ c.data \in [Index -> Val]
  BY <1>3, HeadType DEF Setting, CardResult, TStorTrans
<1>5. c.data = r.data /\ Faithful(curtra, c.data)
  BY <1>1, CardMoves DEF Faithful
<1>6. r.trtype = "WRITE" /\ Moved(cur, r, disk, clean)
  BY <1>1 DEF MovedInv, PartialWaits
<1>7. clean' => /\ Holds(c.sdbuf, disk', sdbufaddr)
                /\ \A i \in 0 .. (cur.dataptr + Chunk(cur) - 1) :
                      r.data[i] = disk'[r.address + i]
  BY <1>1, CardRunResult, CardMoves
<1>8. /\ q.curaddr = r.address + q.dataptr
      /\ q.dataptr + q.remaining = r.datalen
      /\ q.dataptr = cur.dataptr + Chunk(cur)
  <2> DEFINE k == cur.dataptr
             m == Chunk(cur)
             from == r.address
  <2>1. /\ k \in Nat /\ m \in Nat /\ from \in Nat /\ cur.remaining \in Nat
        /\ cur.curaddr = from + k /\ k + cur.remaining = r.datalen
    BY <1>2, <1>4, <1>6, ChunkPlace DEF Moved
  <2>2. /\ q.curaddr = cur.curaddr + m /\ q.remaining = cur.remaining - m
        /\ q.dataptr = k + m
    BY <1>2 DEF Advance
  <2> HIDE DEF q, r, k, m, from
  <2>3. q.curaddr = from + q.dataptr /\ q.dataptr + q.remaining = r.datalen
    BY ONLY <2>1, <2>2
  <2> QED BY <2>2, <2>3 DEF k, m, from
<1>9. Moved(q, r, disk', clean')
  <2> DEFINE k == cur.dataptr
             m == Chunk(cur)
  <2>1. k \in Nat /\ m \in Nat
    BY <1>2, <1>4, <1>6, ChunkPlace DEF Moved
  <2>2. q.dataptr = k + m
    BY <1>8
  <2> HIDE DEF q, r, k, m
  <2>3. ASSUME clean', NEW i \in 0 .. (q.dataptr - 1)
        PROVE  r.data[i] = disk'[r.address + i]
    <3>1. i \in 0 .. (k + m - 1)
      BY ONLY <2>1, <2>2, i \in 0 .. (q.dataptr - 1)
    <3> QED BY <1>7, <2>3, <3>1, Zenon DEF k, m
  <2> QED BY <1>8, <2>3 DEF Moved
<1>10. q.remaining > 0 => ProgressOf(q, curtra)
  <2>1. r.datalen \in Nat
    BY <1>4 DEF TStorTrans
  <2> QED BY <1>2, <2>1, ChunkBounds
<1> HIDE DEF q
<1>11. CASE q.remaining > 0
  <2>1. PreparePartialWrite(curtra, c, q)
    BY <1>11 DEF FinishPartialWrite, q
  <2> QED
    BY <1>3, <1>5, <1>6, <1>7, <1>9, <1>10, <1>11, <2>1, PrepareMoves
<1>12. CASE ~(q.remaining > 0)
  <2>1. FinishCurTra(curtra, r.errorcode, c.data)
    BY <1>12 DEF FinishPartialWrite, q
  <2>2. clean' => Agrees(c.data, r, disk')
    <3> DEFINE k == cur.dataptr
               m == Chunk(cur)
               len == r.datalen
    <3>1. /\ k \in Nat /\ m \in Nat /\ k + m <= len /\ len \in Nat
      BY <1>2, <1>4, <1>6, ChunkPlace DEF Moved
    <3>2. ~(q.remaining > 0) /\ q.dataptr + q.remaining = len /\ q.dataptr = k + m
          /\ q.remaining = cur.remaining - m /\ cur.remaining \in Nat
      BY <1>2, <1>8, <1>12 DEF q, Advance, ProgressOf, Progress
    <3> HIDE DEF k, m, len
    <3>3. k + m = len
      BY ONLY <3>1, <3>2
    <3>4. ASSUME clean', NEW i \in 0 .. (len - 1)
          PROVE  r.data[i] = disk'[r.address + i]
      <4>1. i \in 0 .. (k + m - 1)
        BY ONLY <3>1, <3>3, i \in 0 .. (len - 1)
      <4> QED BY <1>7, <3>4, <4>1, Zenon DEF k, m
    <3> QED BY <1>5, <3>4 DEF Agrees, len
  <2> QED
    BY <1>3, <1>4, <1>5, <1>6, <2>1, <2>2, FinishMaps
<1> QED BY <1>11, <1>12

\* A call of Run that starts the first transaction of the list.  What is
\* buffered is used only while it is trusted.
LEMMA StartMaps ==
  ASSUME IInv, MovedInv, firsttra # NULL, NEW c \in CardRun(Current),
         StartTransaction(c)
  PROVE  (Device!Serve \/ Device!Finish) /\ MovedInv'
<1> DEFINE t == firsttra
           r == tra[t]
           p == [curaddr |-> r.address, remaining |-> r.datalen, dataptr |-> 0,
                 chunksize |-> 0]
           partial == ~IsAligned(r.address) \/ ~IsAligned(r.datalen)
<1>1. /\ state = "IDLE" /\ Current = t /\ curtra' = t
      /\ disk' = c.disk /\ sdbufaddr' = sdbufaddr
      /\ clean' = (tainted => ~partial \/ BlockAddr(r.address) # sdbufaddr)
      /\ tainted' \in BOOLEAN
  BY DEF StartTransaction, Current, IInv, FieldsOK
<1>2. tainted \in BOOLEAN /\ clean' \in BOOLEAN
  BY <1>1 DEF IInv, FieldsOK
<1>3. Setting(t, c)
  BY <1>1, <1>2, RunSetting
<1>4. /\ t \in Tra /\ r \in TStorTrans
      /\ r.address + r.datalen <= CardBytes
  BY <1>3, HeadType DEF Setting, ListInv, ListOK
<1>5. /\ r.trtype \in {"READ", "WRITE", "ERASE"}
      /\ r.address \in CardAddr /\ r.datalen \in 1 .. MaxLen
  BY <1>4 DEF TStorTrans
<1>6. /\ p \in Progress /\ ProgressOf(p, t)
      /\ p.curaddr = r.address /\ p.remaining = r.datalen /\ p.dataptr = 0
  BY <1>4, <1>5 DEF ProgressOf, Progress
<1>7. c.disk = disk /\ c.sdbuf = sdbuf /\ disk' = disk
  BY <1>1, CardRunResult
<1>8. c.data = r.data /\ Faithful(t, c.data) /\ c.data \in [Index -> Val]
  BY <1>1, <1>3, CardMoves DEF Faithful, Setting, CardResult
<1>9. Moved(p, r, disk, clean')
  BY <1>5, <1>6 DEF Moved
<1>10. partial /\ clean' /\ sdbufaddr = BlockAddr(r.address) =>
         Holds(c.sdbuf, disk, sdbufaddr)
  <2>1. r.address \in Nat /\ BlockAddr(r.address) % SectorSize = 0
    BY <1>5, BlockOfBlock DEF IsAligned
  <2>2. sdbufaddr = BlockAddr(r.address) => sdbufaddr # InvalidAddr
    BY <2>1 DEF InvalidAddr
  <2>3. ~BufferBusy
    BY <1>1 DEF IInv, ServeInv, BufferBusy, Waits, PartialWaits
  <2>4. partial /\ clean' /\ sdbufaddr = BlockAddr(r.address) => ~tainted
    BY <1>1
  <2> HIDE DEF partial, r
  <2> QED BY <1>7, <2>2, <2>3, <2>4 DEF IInv, BufferCoherent, Holds
<1>11. /\ r.trtype = "READ" /\ partial => StartPartialRead(t, c, p)
       /\ r.trtype = "WRITE" /\ partial => PreparePartialWrite(t, c, p)
       /\ r.trtype # "ERASE" /\ ~partial =>
             StartFullBlocks(t, c, p, r.trtype = "WRITE")
       /\ r.trtype = "ERASE" => FinishCurTra(t, ESTOR_NOTIMPL, c.data)
  BY <1>5 DEF StartTransaction
<1> HIDE DEF p
<1>12. CASE r.trtype = "READ" /\ partial
  <2>1. StartPartialRead(t, c, p)
    BY <1>11, <1>12
  <2>2. CASE BlockAddr(p.curaddr) # sdbufaddr
    <3>1. /\ StartBufTransfer(t, c.data, FALSE, BlockAddr(p.curaddr),
                               "RD_WAIT_PARTIAL")
          /\ cur' = p
      BY <2>1, <2>2 DEF StartPartialRead
    <3>2. [r EXCEPT !.data = c.data] = r
      BY <1>4, <1>8 DEF TStorTrans
    <3>3. Moved(p, [tra[t] EXCEPT !.data = c.data], disk', clean')
      BY <1>7, <1>9, <3>2
    <3> HIDE DEF t
    <3> QED
      BY <1>3, <1>8, <1>12, <3>1, <3>3, BufferMoves DEF PartialWaits
  <2>3. CASE BlockAddr(p.curaddr) = sdbufaddr
    <3>1. ProcessPartialRead(t, c, p)
      BY <2>1, <2>3 DEF StartPartialRead
    <3>2. clean' => Holds(c.sdbuf, disk, BlockAddr(p.curaddr))
      BY <1>6, <1>10, <1>12, <2>3
    <3> HIDE DEF t
    <3> QED
      BY <1>3, <1>6, <1>7, <1>8, <1>9, <1>12, <3>1, <3>2, ReadMoves
  <2> QED BY <2>2, <2>3
<1>13. CASE r.trtype = "WRITE" /\ partial
  <2>1. PreparePartialWrite(t, c, p)
    BY <1>11, <1>13
  <2>2. clean' /\ sdbufaddr = BlockAddr(p.curaddr) =>
          Holds(c.sdbuf, disk', sdbufaddr)
    BY <1>6, <1>7, <1>10, <1>13
  <2>3. Moved(p, tra[t], disk', clean')
    BY <1>7, <1>9
  <2> HIDE DEF t
  <2> QED
    BY <1>3, <1>6, <1>8, <1>13, <2>1, <2>2, <2>3, PrepareMoves
<1>14. CASE r.trtype # "ERASE" /\ ~partial
  <2> DEFINE write == r.trtype = "WRITE"
  <2>1. StartFullBlocks(t, c, p, write)
    BY <1>11, <1>14
  <2>2. IsAligned(p.curaddr) /\ IsAligned(p.remaining)
    BY <1>6, <1>14
  <2>3. write \in BOOLEAN /\ (write <=> tra[t].trtype = "WRITE")
    OBVIOUS
  <2> HIDE DEF t, write
  <2> QED
    BY <1>3, <1>6, <1>8, <1>14, <2>1, <2>2, <2>3, FullMoves
<1>15. CASE r.trtype = "ERASE"
  <2>1. FinishCurTra(t, ESTOR_NOTIMPL, c.data)
    BY <1>11, <1>15
  <2>2. ESTOR_NOTIMPL \in ErrorCode /\ ESTOR_NOTIMPL # 0
    BY DEF ErrorCode, ESTOR_NOTIMPL
  <2> HIDE DEF t
  <2> QED
    BY <1>3, <1>8, <2>1, <2>2, FinishMaps
<1> QED BY <1>5, <1>12, <1>13, <1>14, <1>15

-----------------------------------------------------------------------------
(* The theorem. *)

\* The initial states are initial states of the device.
LEMMA InitMaps == Init => Device!Init /\ MovedInv
<1> SUFFICES ASSUME Init PROVE Device!Init /\ MovedInv
  OBVIOUS
<1>1. Device!Init
  BY DEF Init, Device!Init, NoReport, Device!NoReport
<1>2. MovedInv
  BY DEF Init, MovedInv, PartialWaits
<1> QED BY <1>1, <1>2

\* Every step of the manager, the card and the clients is a step of the
\* device or leaves it alone.
LEMMA NextMaps ==
  IInv /\ MovedInv /\ [Next]_vars => [Device!Next]_Device!vars /\ MovedInv'
<1> SUFFICES ASSUME IInv, MovedInv, [Next]_vars
             PROVE  [Device!Next]_Device!vars /\ MovedInv'
  OBVIOUS
<1>1. CASE Run
  <2>1. PICK c \in CardRun(Current) :
          \/ StartTransaction(c)
          \/ FinishNormal(c)
          \/ FailPartial(c)
          \/ ReadLoaded(c)
          \/ WriteLoaded(c)
          \/ FinishPartialWrite(c)
          \/ FinishRefused(c)
    BY <1>1 DEF Run, Current
  <2>2. firsttra # NULL
    BY <1>1 DEF Run
  <2>3. (Device!Serve \/ Device!Finish) /\ MovedInv'
    BY <2>1, <2>2, StartMaps, EndMaps, LoadedMaps, WrittenMaps
  <2> QED BY <2>3 DEF Device!Next
<1>2. CASE CardInit
  BY <1>2, CardInitMaps DEF Device!Next
<1>3. CASE \E t \in Tra, r \in Requests : AddTransaction(t, r)
  BY <1>3, AddMaps DEF Device!Next
<1>4. CASE UNCHANGED vars
  <2>1. UNCHANGED Device!vars
    BY <1>4 DEF vars, chain, history, Device!vars
  <2>2. MovedInv'
    BY <1>4 DEF vars, chain, history, MovedInv, Moved, Changed, Base, Bytes
  <2> QED BY <2>1, <2>2
<1> QED BY <1>1, <1>2, <1>3, <1>4 DEF Next

\* TStorManSdcard over TSdCard is a storage device: transactions are served in
\* the order they were added, each reported once; a write changes the bytes it
\* covers and no others, a read delivers what the card holds, and an error is
\* reported for all else.  The bytes of a transaction served from a sector
\* buffer that does not hold its sector are excepted, as ImplementsDevice says.
THEOREM RefinementCorrect == Spec => ImplementsDevice
<1>1. Spec => []MovedInv
  <2>1. Init => MovedInv
    BY InitMaps
  <2>2. IInv /\ MovedInv /\ [Next]_vars => MovedInv'
    BY NextMaps
  <2> QED BY <2>1, <2>2, SpecInv, PTL DEF Spec
<1>2. Init => Device!Init
  BY InitMaps
<1>3. IInv /\ MovedInv /\ [Next]_vars => [Device!Next]_Device!vars
  BY NextMaps
<1> QED
  BY <1>1, <1>2, <1>3, SpecInv, PTL DEF Spec, ImplementsDevice, Device!Spec
=============================================================================
