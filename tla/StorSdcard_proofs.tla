-------------------------- MODULE StorSdcard_proofs --------------------------
(***************************************************************************)
(* Proofs about the storage manager, for any number of transactions, any   *)
(* sector size and card size, and any set of requests.                     *)
(***************************************************************************)
EXTENDS StorSdcard, TLAPS

\* The card has a whole number of bytes.
LEMMA CardBytesNat == CardBytes \in Nat
  BY SizesAssumption DEF CardBytes

USE SizesAssumption, TraAssumption, CardBytesNat DEF CardAddr, Index, Offsets

-----------------------------------------------------------------------------
(* Sector arithmetic. *)

\* An address is the address of its sector plus an offset in the sector.
LEMMA SectorParts ==
  ASSUME NEW a \in Nat
  PROVE  /\ OffsetOf(a) \in Offsets
         /\ BlockAddr(a) \in Nat
         /\ a = BlockAddr(a) + OffsetOf(a)
         /\ a \div SectorSize \in Nat
         /\ BlockAddr(a) = (a \div SectorSize) * SectorSize
  BY DEF OffsetOf, BlockAddr

\* A sector that holds a byte of the card lies on the card.
LEMMA SectorOnCard ==
  ASSUME NEW a \in CardAddr
  PROVE  /\ BlockAddr(a) \in CardAddr
         /\ BlockAddr(a) + SectorSize <= CardBytes
<1> DEFINE q == a \div SectorSize
<1>1. a \in Nat /\ a < NumSectors * SectorSize /\ NumSectors * SectorSize \in Nat
  BY DEF CardBytes
<1>2. q \in Nat /\ q < NumSectors
  BY <1>1
<1>3. q * SectorSize + SectorSize <= NumSectors * SectorSize
  BY <1>2
<1>4. BlockAddr(a) \in Nat /\ BlockAddr(a) = q * SectorSize
  BY <1>1, SectorParts
<1> HIDE DEF q
<1> QED
  BY <1>1, <1>3, <1>4 DEF CardBytes

\* An aligned number is a whole number of sectors.
LEMMA AlignedParts ==
  ASSUME NEW a \in Nat, IsAligned(a)
  PROVE  (a \div SectorSize) * SectorSize = a
  BY DEF IsAligned

\* The first sector of an address: shifting it back gives the same sector.
LEMMA BlockOfBlock ==
  ASSUME NEW a \in Nat
  PROVE  /\ (BlockAddr(a) \div SectorSize) * SectorSize = BlockAddr(a)
         /\ IsAligned(BlockAddr(a))
<1>1. BlockAddr(a) % SectorSize = 0
  <2> DEFINE q == a \div SectorSize
  <2>1. q \in Nat /\ BlockAddr(a) = q * SectorSize
    BY SectorParts
  <2>2. (q * SectorSize) % SectorSize = 0
    BY <2>1
  <2> QED BY <2>1, <2>2
<1> QED
  BY <1>1, SectorParts, AlignedParts DEF IsAligned

-----------------------------------------------------------------------------
(* The transaction list. *)

\* Waiting exactly when not completed, for a list q and objects objs.
ServedIs(q, objs) ==
  \A t \in Tra : objs[t].completed <=> ~(\E i \in 1 .. Len(q) : q[i] = t)

ListOK(first, last, nx, q, objs) ==
  /\ nx \in [Tra -> Tra \cup {NULL}]
  /\ q \in Seq(Tra)
  /\ objs \in [Tra -> TStorTrans]
  /\ \A t \in Tra : objs[t].address + objs[t].datalen <= CardBytes
  /\ IsChain(first, last, nx, q)
  /\ ServedIs(q, objs)

ListInv == ListOK(firsttra, lasttra, next, queue, tra)

\* Adding an object that is not in the list keeps the list well formed and
\* leaves the other objects alone.
LEMMA AppendKeepsList ==
  ASSUME NEW first, NEW last, NEW nx, NEW q, NEW objs,
         NEW u \in Tra, NEW r \in Requests,
         ListOK(first, last, nx, q, objs),
         Append2Chain(first, last, nx, q, objs, u, r)
  PROVE  /\ ListInv'
         /\ queue' = Append(q, u)
         /\ \A t \in Tra \ {u} : tra'[t] = objs[t]
         /\ \A i \in 1 .. Len(q) : q[i] # u
<1> USE DEF ListOK
<1>1. /\ r \in Request
      /\ r.address + r.datalen <= CardBytes
  BY RequestsAssumption
<1>2. tra' = [objs EXCEPT ![u] =
                [trtype |-> r.trtype, address |-> r.address,
                 datalen |-> r.datalen, data |-> r.data,
                 completed |-> FALSE, errorcode |-> 0]]
  BY DEF Append2Chain
<1>3. /\ tra' \in [Tra -> TStorTrans]
      /\ \A t \in Tra : tra'[t].address + tra'[t].datalen <= CardBytes
      /\ \A t \in Tra \ {u} : tra'[t] = objs[t]
      /\ ~tra'[u].completed
  BY <1>1, <1>2 DEF Request, TStorTrans, ErrorCode
<1>4. /\ \A i \in 1 .. Len(q) : q[i] # u
      /\ queue' = Append(q, u)
      /\ lasttra' = u
  BY DEF Append2Chain
<1>5. /\ queue' \in Seq(Tra)
      /\ Len(queue') = Len(q) + 1
      /\ Len(q) \in Nat
      /\ \A i \in 1 .. Len(q) : queue'[i] = q[i] /\ q[i] \in Tra
      /\ queue'[Len(q) + 1] = u
  BY <1>4
<1>6. ServedIs(queue', tra')
  <2>1. ASSUME NEW t \in Tra, t # u
        PROVE  (\E i \in 1 .. Len(queue') : queue'[i] = t)
                 <=> (\E i \in 1 .. Len(q) : q[i] = t)
    <3>1. ASSUME NEW i \in 1 .. Len(queue'), queue'[i] = t
          PROVE  \E j \in 1 .. Len(q) : q[j] = t
      <4>1. i # Len(q) + 1
        BY <2>1, <3>1, <1>5
      <4>2. i \in 1 .. Len(q) /\ q[i] = t
        BY <3>1, <4>1, <1>5
      <4> QED BY <4>2
    <3>2. ASSUME NEW i \in 1 .. Len(q), q[i] = t
          PROVE  \E j \in 1 .. Len(queue') : queue'[j] = t
      <4>1. i \in 1 .. Len(queue') /\ queue'[i] = t
        BY <3>2, <1>5
      <4> QED BY <4>1
    <3> QED BY <3>1, <3>2
  <2>2. \E i \in 1 .. Len(queue') : queue'[i] = u
    BY <1>5
  <2> QED BY <2>1, <2>2, <1>3 DEF ServedIs
<1>7. next' \in [Tra -> Tra \cup {NULL}] /\ IsChain(firsttra', lasttra', next', queue')
  <2>1. CASE Len(q) = 0
    <3>1. last = NULL
      BY <2>1 DEF IsChain
    <3>2. next' = [nx EXCEPT ![u] = NULL] /\ firsttra' = u
      BY <3>1 DEF Append2Chain
    <3> QED
      BY <2>1, <3>2, <1>4, <1>5 DEF IsChain
  <2>2. CASE Len(q) > 0
    <3>1. last = q[Len(q)] /\ last \in Tra /\ last # NULL /\ last # u
      BY <2>2, <1>4, <1>5 DEF IsChain
    <3>2. next' = [nx EXCEPT ![u] = NULL, ![last] = u] /\ firsttra' = first
      BY <3>1 DEF Append2Chain
    <3>3. /\ next' \in [Tra -> Tra \cup {NULL}]
          /\ next'[u] = NULL
          /\ next'[last] = u
          /\ \A t \in Tra \ {u, last} : next'[t] = nx[t]
      BY <3>1, <3>2
    <3>4. \A i \in 1 .. (Len(q) - 1) : q[i] # last /\ q[i] # u
      BY <3>1, <1>4, <1>5 DEF IsChain
    <3>5. \A i \in 1 .. Len(q) : next'[queue'[i]] = queue'[i + 1]
      <4> SUFFICES ASSUME NEW i \in 1 .. Len(q)
                   PROVE  next'[queue'[i]] = queue'[i + 1]
        OBVIOUS
      <4>1. CASE i = Len(q)
        BY <4>1, <3>1, <3>3, <1>5
      <4>2. CASE i < Len(q)
        BY <4>2, <3>3, <3>4, <1>5 DEF IsChain
      <4> QED BY <4>1, <4>2, <1>5
    <3>6. \A i, j \in 1 .. (Len(q) + 1) : queue'[i] = queue'[j] => i = j
      BY <1>4, <1>5 DEF IsChain
    <3>7. firsttra' = queue'[1]
      BY <2>2, <3>2, <1>5 DEF IsChain
    <3>8. /\ \A i \in 1 .. (Len(queue') - 1) : next'[queue'[i]] = queue'[i + 1]
          /\ \A i, j \in 1 .. Len(queue') : queue'[i] = queue'[j] => i = j
      BY <3>5, <3>6, <1>5
    <3>9. lasttra' = queue'[Len(queue')] /\ next'[queue'[Len(queue')]] = NULL
      BY <3>3, <1>4, <1>5
    <3> QED
      BY <3>3, <3>7, <3>8, <3>9, <1>5 DEF IsChain
  <2> QED
    BY <2>1, <2>2, <1>5
<1> QED
  BY <1>3, <1>4, <1>5, <1>6, <1>7 DEF ListInv

\* Unchaining the first transaction leaves a well formed list of the others,
\* and completes that transaction.
LEMMA UnchainKeepsList ==
  ASSUME NEW t \in Tra, NEW error \in ErrorCode, NEW data \in [Index -> Val],
         NEW objs,
         ListInv, queue # <<>>, t = queue[1],
         objs = [tra EXCEPT ![t].completed = TRUE, ![t].errorcode = error,
                            ![t].data = data]
  PROVE  /\ firsttra = t
         /\ ListOK(next[t], IF next[t] = NULL THEN NULL ELSE lasttra, next,
                   Tail(queue), objs)
<1> USE DEF ListInv, ListOK
<1>1. /\ Len(queue) \in Nat /\ Len(queue) >= 1
      /\ \A i \in 1 .. Len(queue) : queue[i] \in Tra
      /\ Tail(queue) \in Seq(Tra)
      /\ Len(Tail(queue)) = Len(queue) - 1
      /\ \A i \in 1 .. (Len(queue) - 1) : Tail(queue)[i] = queue[i + 1]
  OBVIOUS
<1>2. firsttra = t
  BY <1>1 DEF IsChain
<1>3. /\ objs \in [Tra -> TStorTrans]
      /\ \A u \in Tra : objs[u].address + objs[u].datalen <= CardBytes
      /\ objs[t].completed
      /\ \A u \in Tra \ {t} : objs[u] = tra[u]
  <2> DEFINE new == [tra[t] EXCEPT !.completed = TRUE, !.errorcode = error,
                                  !.data = data]
  <2>0. tra[t] \in TStorTrans
    OBVIOUS
  <2>1. /\ new \in TStorTrans
        /\ new.completed
        /\ new.address = tra[t].address /\ new.datalen = tra[t].datalen
    <3> HIDE DEF ListInv
    <3> QED BY <2>0 DEF TStorTrans
  <2>2. objs = [tra EXCEPT ![t] = new]
    OBVIOUS
  <2> HIDE DEF new
  <2> QED
    BY <2>1, <2>2
<1>4. ServedIs(Tail(queue), objs)
  <2> SUFFICES ASSUME NEW u \in Tra
               PROVE  objs[u].completed <=>
                        ~(\E i \in 1 .. Len(Tail(queue)) : Tail(queue)[i] = u)
    BY DEF ServedIs
  <2>1. CASE u = t
    BY <2>1, <1>1, <1>3 DEF IsChain
  <2>2. CASE u # t
    <3>1. (\E i \in 1 .. Len(queue) : queue[i] = u)
            <=> (\E i \in 1 .. (Len(queue) - 1) : queue[i + 1] = u)
      <4>1. ASSUME NEW i \in 1 .. Len(queue), queue[i] = u
            PROVE  \E j \in 1 .. (Len(queue) - 1) : queue[j + 1] = u
        <5>1. i # 1
          BY <2>2, <4>1
        <5>2. i - 1 \in 1 .. (Len(queue) - 1) /\ queue[(i - 1) + 1] = u
          BY <1>1, <4>1, <5>1
        <5> QED BY <5>2
      <4>2. ASSUME NEW i \in 1 .. (Len(queue) - 1), queue[i + 1] = u
            PROVE  \E j \in 1 .. Len(queue) : queue[j] = u
        BY <1>1, <4>2
      <4> QED BY <4>1, <4>2
    <3> QED
      BY <2>2, <3>1, <1>1, <1>3 DEF ServedIs
  <2> QED BY <2>1, <2>2
<1>5. IsChain(next[t], IF next[t] = NULL THEN NULL ELSE lasttra, next, Tail(queue))
  <2>1. CASE Len(queue) = 1
    <3>1. next[t] = NULL
      BY <2>1, <1>1 DEF IsChain
    <3>2. Len(Tail(queue)) = 0
      BY <2>1, <1>1
    <3> DEFINE rest == Tail(queue)
    <3>3. Len(rest) = 0
      BY <3>2
    <3> HIDE DEF rest, ListInv
    <3>4. IsChain(NULL, NULL, next, rest)
      BY <3>3 DEF IsChain
    <3> QED BY <3>1, <3>4 DEF rest
  <2>2. CASE Len(queue) > 1
    <3>0. 1 \in 1 .. (Len(queue) - 1) /\ queue[1 + 1] = queue[2] /\ queue[2] \in Tra
      BY <2>2, <1>1
    <3>a. next[queue[1]] = queue[1 + 1]
      BY <3>0 DEF IsChain
    <3>1. /\ next[t] = queue[2]
          /\ next[t] # NULL
          /\ lasttra = queue[Len(queue)]
          /\ next[lasttra] = NULL
      BY <2>2, <3>0, <3>a, <1>1 DEF IsChain
    <3>2. \A i \in 1 .. (Len(queue) - 2) :
             next[Tail(queue)[i]] = Tail(queue)[i + 1]
      BY <2>2, <1>1 DEF IsChain
    <3>3. \A i, j \in 1 .. (Len(queue) - 1) :
             Tail(queue)[i] = Tail(queue)[j] => i = j
      BY <2>2, <1>1 DEF IsChain
    <3>4. Tail(queue)[1] = queue[2] /\ Tail(queue)[Len(queue) - 1] = queue[Len(queue)]
      BY <2>2, <1>1
    <3> QED
      BY <2>2, <3>1, <3>2, <3>3, <3>4, <1>1 DEF IsChain
  <2> QED BY <2>1, <2>2, <1>1
<1> QED
  BY <1>1, <1>2, <1>3, <1>4, <1>5

-----------------------------------------------------------------------------
(* The inductive invariant. *)

PartialWaits == {"RD_WAIT_PARTIAL", "WR_WAIT_PARTIAL_RD", "WR_WAIT_PARTIAL_WR"}
Waits == PartialWaits \cup {"WAIT_NORMAL"}

Transfer == [iswrite : BOOLEAN, tosdbuf : BOOLEAN, startblock : Nat,
             blockcount : Nat]
Progress == [curaddr : Nat, remaining : Nat, dataptr : Nat, chunksize : Nat]

FieldsOK ==
  /\ state \in Waits \cup {"IDLE", "FINISH"}
  /\ curtra \in Tra \cup {NULL}
  /\ cur \in Progress
  /\ sdbufaddr \in CardAddr \cup {InvalidAddr}
  /\ sdbuf \in [Offsets -> Val]
  /\ sdcard \in [initialized : BOOLEAN, completed : BOOLEAN,
                 errorcode : ErrorCode, transfer : Transfer]
  /\ disk \in [CardAddr -> Val]
  /\ tainted \in BOOLEAN
  /\ clean \in BOOLEAN

\* Outside SMDS_IDLE the first of the list is being served; the card works
\* exactly in the waiting states; what is buffered is a sector of the card.
ServeInv ==
  /\ state # "IDLE" => queue # <<>> /\ curtra = queue[1]
  /\ sdcard.completed <=> state \notin Waits
  /\ state \in Waits => sdcard.initialized
  /\ sdbufaddr # InvalidAddr => /\ sdcard.initialized
                                /\ IsAligned(sdbufaddr)
                                /\ sdbufaddr + SectorSize <= CardBytes

\* p is the progress of t, with something left.
ProgressOf(p, t) ==
  /\ p \in Progress
  /\ p.remaining >= 1
  /\ p.dataptr + p.remaining <= tra[t].datalen
  /\ p.curaddr + p.remaining <= CardBytes

ProgressInv ==
  /\ state \in PartialWaits => ProgressOf(cur, curtra)
  /\ state = "WR_WAIT_PARTIAL_WR" => /\ cur.chunksize = Chunk(cur)
                                     /\ sdbufaddr = BlockAddr(cur.curaddr)

Base  == sdcard.transfer.startblock * SectorSize
Bytes == sdcard.transfer.blockcount * SectorSize

\* The card moves the sector of cur in the partial states, and otherwise the
\* aligned range of the transaction; the latter makes the buffer tainted.
TransferInv ==
  /\ state \in PartialWaits =>
       /\ sdcard.transfer.tosdbuf
       /\ sdcard.transfer.iswrite <=> state = "WR_WAIT_PARTIAL_WR"
       /\ Base = BlockAddr(cur.curaddr)
       /\ sdcard.transfer.blockcount = 1
  /\ state = "WAIT_NORMAL" =>
       /\ ~sdcard.transfer.tosdbuf
       /\ Base \in Nat /\ Bytes \in Nat
       /\ IsAligned(Base) /\ IsAligned(Base + Bytes)
       /\ Base + Bytes <= CardBytes
       /\ Bytes <= MaxLen
       /\ sdcard.transfer.iswrite /\ ~tainted =>
            sdbufaddr = InvalidAddr \/ sdbufaddr < Base
              \/ sdbufaddr >= Base + Bytes

IInv == ListInv /\ FieldsOK /\ ServeInv /\ ProgressInv /\ TransferInv
          /\ BufferCoherent

-----------------------------------------------------------------------------
(* What a call of sdcard->Run can leave behind. *)

CardResult == [errorcode : ErrorCode, disk : [CardAddr -> Val],
               sdbuf : [Offsets -> Val], data : [Index -> Val]]

Holds(buf, d, a) == \A o \in Offsets : buf[o] = d[a + o]

\* Two different aligned addresses are at least a sector apart.
LEMMA AlignedApart ==
  ASSUME NEW a \in Nat, NEW b \in Nat, IsAligned(a), IsAligned(b), a < b
  PROVE  a + SectorSize <= b
<1> DEFINE m == a \div SectorSize
           n == b \div SectorSize
<1>1. m \in Nat /\ n \in Nat
  OBVIOUS
<1>2. a = m * SectorSize /\ b = n * SectorSize
  BY AlignedParts
<1> HIDE DEF m, n
<1>3. m < n
  BY <1>1, <1>2
<1>4. m * SectorSize + SectorSize <= n * SectorSize
  BY <1>1, <1>3
<1> QED BY <1>2, <1>4

\* The current transaction, as the call of CardRun names it.
Current == IF state = "IDLE" THEN firsttra ELSE curtra

\* When Run serves something, it serves the first of the queue.
LEMMA CurrentIsHead ==
  ASSUME IInv, firsttra # NULL
  PROVE  queue # <<>> /\ Current = queue[1] /\ Current \in Tra
<1>1. queue \in Seq(Tra) /\ IsChain(firsttra, lasttra, next, queue)
  BY DEF IInv, ListInv, ListOK
<1>2. Len(queue) \in Nat /\ Len(queue) # 0
  BY <1>1 DEF IsChain
<1>3. queue # <<>> /\ firsttra = queue[1] /\ queue[1] \in Tra
  BY <1>1, <1>2 DEF IsChain
<1> QED
  BY <1>3 DEF Current, IInv, ServeInv

\* A read fills the bytes it covers with what it reads.
LEMMA FillType ==
  ASSUME NEW n \in Nat, NEW m \in Nat, NEW b \in Nat,
         NEW dst \in [0 .. (m - 1) -> Val], NEW src \in [CardAddr -> Val],
         b + n <= CardBytes, n <= m
  PROVE  /\ Fill(dst, src, b, n) \in [0 .. (m - 1) -> Val]
         /\ \A i \in 0 .. (m - 1) : i < n => Fill(dst, src, b, n)[i] = src[b + i]
  BY DEF Fill

\* A write changes the bytes it covers, to what it writes, and no others.
LEMMA StoreType ==
  ASSUME NEW n \in Nat, NEW m \in Nat, NEW b \in Nat,
         NEW dst \in [CardAddr -> Val], NEW src \in [0 .. (m - 1) -> Val],
         n <= m
  PROVE  /\ Store(dst, src, b, n) \in [CardAddr -> Val]
         /\ \A a \in CardAddr : a >= b /\ a < b + n =>
                 Store(dst, src, b, n)[a] = src[a - b]
         /\ \A a \in CardAddr : a < b \/ a >= b + n =>
                 Store(dst, src, b, n)[a] = dst[a]
  BY DEF Store

\* While a transfer runs, a call of Run ends it with all bytes moved or with
\* an error after some of them.
LEMMA CardRunEnds ==
  ASSUME IInv, firsttra # NULL, NEW c \in CardRun(Current), state \in Waits
  PROVE  \E n \in Nat, error \in ErrorCode :
           /\ c = CardEnds(n, error)
           /\ n <= Bytes
           /\ error = 0 => n = Bytes
<1>1. ~sdcard.completed /\ Bytes \in Nat
  BY DEF IInv, ServeInv, FieldsOK, Transfer, Bytes
<1>2. c = CardEnds(Bytes, 0)
        \/ \E k \in FailPoints, e \in {HWERR_READ, HWERR_WRITE} :
              k <= Bytes /\ c = CardEnds(k, e)
  BY <1>1 DEF CardRun, Bytes
<1>3. CASE c = CardEnds(Bytes, 0)
  BY <1>1, <1>3 DEF ErrorCode
<1>4. ASSUME NEW k \in FailPoints, NEW e \in {HWERR_READ, HWERR_WRITE},
             k <= Bytes, c = CardEnds(k, e)
      PROVE  \E n \in Nat, error \in ErrorCode :
               c = CardEnds(n, error) /\ n <= Bytes /\ (error = 0 => n = Bytes)
  <2>1. k \in Nat /\ e \in ErrorCode /\ e # 0
    BY FailAssumption DEF ErrorCode, HWERR_READ, HWERR_WRITE
  <2> QED BY <1>4, <2>1
<1> QED BY <1>2, <1>3, <1>4

\* What a call of Run finds: nothing moved while the card was idle; a loaded
\* sector in the buffer, the written sector on the card, and in full block
\* mode a buffer that still holds its sector or is tainted.
LEMMA CardRunResult ==
  ASSUME IInv, firsttra # NULL, NEW c \in CardRun(Current)
  PROVE  /\ c \in CardResult
         /\ state \in {"IDLE", "FINISH"} => c.disk = disk /\ c.sdbuf = sdbuf
         /\ state \in {"RD_WAIT_PARTIAL", "WR_WAIT_PARTIAL_RD"} =>
              /\ c.disk = disk
              /\ c.errorcode = 0 => Holds(c.sdbuf, c.disk, BlockAddr(cur.curaddr))
         /\ state = "WR_WAIT_PARTIAL_WR" =>
              /\ c.sdbuf = sdbuf
              /\ c.errorcode = 0 => Holds(c.sdbuf, c.disk, sdbufaddr)
         /\ state = "WAIT_NORMAL" /\ ~tainted /\ sdbufaddr # InvalidAddr =>
              Holds(c.sdbuf, c.disk, sdbufaddr)
<1> DEFINE t == Current
<1>1. t \in Tra /\ tra[t] \in TStorTrans /\ tra[t].data \in [Index -> Val]
  BY CurrentIsHead DEF IInv, ListInv, ListOK, TStorTrans
<1>2. FieldsOK /\ ServeInv /\ ProgressInv /\ TransferInv /\ BufferCoherent
  BY DEF IInv
<1> HIDE DEF t
<1>3. CASE sdcard.completed
  <2>1. c = [errorcode |-> sdcard.errorcode, disk |-> disk, sdbuf |-> sdbuf,
             data |-> tra[t].data]
    BY <1>3 DEF CardRun, t
  <2>2. c \in CardResult
    BY <2>1, <1>1, <1>2 DEF CardResult, FieldsOK
  <2>3. state \notin Waits
    BY <1>2, <1>3 DEF ServeInv
  <2> QED
    BY <2>1, <2>2, <2>3 DEF Waits, PartialWaits
<1>4. CASE ~sdcard.completed
  <2>1. state \in Waits /\ t = curtra
    BY <1>2, <1>4 DEF ServeInv, t, Current, Waits, PartialWaits
  <2>2. Bytes \in Nat /\ Base \in Nat
    BY <1>2 DEF FieldsOK, Transfer, Bytes, Base
  <2>3. PICK n \in Nat, error \in ErrorCode :
          /\ c = CardEnds(n, error)
          /\ n <= Bytes
          /\ error = 0 => n = Bytes
    BY <2>1, CardRunEnds
  <2> DEFINE op == sdcard.transfer
             data == tra[curtra].data
  <2>4. data \in [Index -> Val]
    BY <1>1, <2>1
  <2>5. /\ op.iswrite \in BOOLEAN /\ op.tosdbuf \in BOOLEAN
        /\ disk \in [CardAddr -> Val]
        /\ sdbuf \in [0 .. (SectorSize - 1) -> Val]
        /\ data \in [0 .. (MaxLen - 1) -> Val]
    BY <1>2, <2>4 DEF FieldsOK, Transfer
  <2>6. c = [errorcode |-> error,
             disk  |-> IF ~op.iswrite THEN disk
                       ELSE Store(disk, IF op.tosdbuf THEN sdbuf ELSE data, Base, n),
             sdbuf |-> IF ~op.iswrite /\ op.tosdbuf
                         THEN Fill(sdbuf, disk, Base, n) ELSE sdbuf,
             data  |-> IF ~op.iswrite /\ ~op.tosdbuf
                         THEN Fill(data, disk, Base, n) ELSE data]
    BY <2>3 DEF CardEnds, Base
  <2>7. CASE state \in PartialWaits
    <3>1. /\ op.tosdbuf
          /\ op.iswrite <=> state = "WR_WAIT_PARTIAL_WR"
          /\ Base = BlockAddr(cur.curaddr)
          /\ Bytes = SectorSize
      BY <1>2, <2>7 DEF TransferInv, Bytes
    <3>2. cur.curaddr \in CardAddr
      BY <1>2, <2>7 DEF ProgressInv, ProgressOf, Progress
    <3>3. Base + SectorSize <= CardBytes
      BY <3>1, <3>2, SectorOnCard
    <3>4. CASE state = "WR_WAIT_PARTIAL_WR"
      <4>1. c = [errorcode |-> error, disk |-> Store(disk, sdbuf, Base, n),
                 sdbuf |-> sdbuf, data |-> data]
        BY <2>6, <3>1, <3>4
      <4>2. /\ Store(disk, sdbuf, Base, n) \in [CardAddr -> Val]
            /\ \A a \in CardAddr : a >= Base /\ a < Base + n =>
                  Store(disk, sdbuf, Base, n)[a] = sdbuf[a - Base]
        <5>1. /\ n \in Nat /\ Base \in Nat /\ SectorSize \in Nat /\ n <= SectorSize
              /\ disk \in [CardAddr -> Val]
              /\ sdbuf \in [0 .. (SectorSize - 1) -> Val]
          BY <2>2, <2>3, <2>5, <3>1
        <5> HIDE DEF Base
        <5> QED BY ONLY <5>1, StoreType
      <4>3. Base = sdbufaddr
        BY <3>1, <3>4, <1>2 DEF ProgressInv
      <4>4. error = 0 => Holds(sdbuf, c.disk, sdbufaddr)
        <5> SUFFICES ASSUME error = 0, NEW o \in Offsets
                     PROVE  sdbuf[o] = c.disk[sdbufaddr + o]
          BY DEF Holds
        <5>1. n = SectorSize
          BY <2>3, <3>1
        <5>2. /\ Base + o \in CardAddr /\ Base + o >= Base
              /\ Base + o < Base + n /\ (Base + o) - Base = o
          BY <5>1, <2>2, <3>3
        <5> QED BY <5>2, <4>1, <4>2, <4>3
      <4> QED
        BY <4>1, <4>2, <4>4, <3>4, <2>5 DEF CardResult
    <3>5. CASE state # "WR_WAIT_PARTIAL_WR"
      <4>1. c = [errorcode |-> error, disk |-> disk,
                 sdbuf |-> Fill(sdbuf, disk, Base, n), data |-> data]
        BY <2>6, <3>1, <3>5
      <4>2. /\ Fill(sdbuf, disk, Base, n) \in [Offsets -> Val]
            /\ \A o \in Offsets : o < n =>
                  Fill(sdbuf, disk, Base, n)[o] = disk[Base + o]
        <5>1. /\ n \in Nat /\ Base \in Nat /\ SectorSize \in Nat /\ n <= SectorSize
              /\ Base + n <= CardBytes
              /\ disk \in [CardAddr -> Val]
              /\ sdbuf \in [0 .. (SectorSize - 1) -> Val]
          BY <2>2, <2>3, <2>5, <3>1, <3>3
        <5> QED BY ONLY <5>1, FillType DEF Offsets
      <4>3. error = 0 => Holds(c.sdbuf, c.disk, Base)
        BY <4>1, <4>2, <2>3, <3>1 DEF Holds
      <4> QED
        BY <4>1, <4>2, <4>3, <3>1, <3>5, <2>5, <2>7 DEF CardResult, PartialWaits
    <3> QED BY <3>4, <3>5
  <2>8. CASE state = "WAIT_NORMAL"
    <3>1. /\ ~op.tosdbuf
          /\ IsAligned(Base) /\ IsAligned(Base + Bytes)
          /\ Base + Bytes <= CardBytes
          /\ Bytes <= MaxLen
          /\ op.iswrite /\ ~tainted =>
               sdbufaddr = InvalidAddr \/ sdbufaddr < Base
                 \/ sdbufaddr >= Base + Bytes
      BY <1>2, <2>8 DEF TransferInv
    <3>2. CASE ~op.iswrite
      <4>1. c = [errorcode |-> error, disk |-> disk, sdbuf |-> sdbuf,
                 data |-> Fill(data, disk, Base, n)]
        BY <2>6, <3>1, <3>2
      <4>2. Fill(data, disk, Base, n) \in [Index -> Val]
        <5>1. n <= MaxLen /\ Base + n <= CardBytes
          BY <2>2, <2>3, <3>1
        <5> QED BY <5>1, <2>2, <2>3, <2>5, FillType
      <4>3. ~tainted /\ sdbufaddr # InvalidAddr => Holds(sdbuf, disk, sdbufaddr)
        BY <1>2, <3>1 DEF BufferCoherent, BufferBusy, Holds
      <4> QED
        BY <4>1, <4>2, <4>3, <2>5, <2>8 DEF CardResult
    <3>3. CASE op.iswrite
      <4>1. c = [errorcode |-> error, disk |-> Store(disk, data, Base, n),
                 sdbuf |-> sdbuf, data |-> data]
        BY <2>6, <3>1, <3>3
      <4>2. /\ Store(disk, data, Base, n) \in [CardAddr -> Val]
            /\ \A a \in CardAddr : a < Base \/ a >= Base + n =>
                  Store(disk, data, Base, n)[a] = disk[a]
        BY <2>2, <2>3, <2>5, <3>1, StoreType
      <4>3. ASSUME ~tainted, sdbufaddr # InvalidAddr
            PROVE  Holds(sdbuf, c.disk, sdbufaddr)
        <5>1. /\ Holds(sdbuf, disk, sdbufaddr)
              /\ sdbufaddr \in Nat
              /\ IsAligned(sdbufaddr)
              /\ sdbufaddr + SectorSize <= CardBytes
          BY <1>2, <3>1, <4>3
             DEF BufferCoherent, BufferBusy, Holds, FieldsOK, ServeInv
        <5>2. sdbufaddr + SectorSize <= Base \/ sdbufaddr >= Base + n
          BY <5>1, <3>1, <3>3, <4>3, <2>2, <2>3, AlignedApart
        <5>3. \A o \in Offsets :
                /\ sdbufaddr + o \in CardAddr
                /\ sdbufaddr + o < Base \/ sdbufaddr + o >= Base + n
          BY <5>1, <5>2, <2>2
        <5> QED
          BY <5>1, <5>3, <4>1, <4>2 DEF Holds
      <4> QED
        BY <4>1, <4>2, <4>3, <2>5, <2>8 DEF CardResult
    <3> QED BY <3>2, <3>3, <2>5
  <2> QED BY <2>1, <2>7, <2>8 DEF Waits
<1> QED BY <1>3, <1>4

-----------------------------------------------------------------------------
(* The pieces the handlers are made of.  Each lemma says that the invariant *)
(* holds after a step that ends in that piece.                              *)

SdCardFields == [initialized : BOOLEAN, completed : BOOLEAN,
                 errorcode : ErrorCode, transfer : Transfer]

\* A call of Run serves t and found c; what it leaves in sdbufaddr, tainted
\* and clean is well typed.
Setting(t, c) ==
  /\ ListInv
  /\ queue # <<>>
  /\ t = queue[1]
  /\ sdcard \in SdCardFields
  /\ c \in CardResult
  /\ curtra' = t
  /\ disk' = c.disk
  /\ sdbufaddr' \in CardAddr \cup {InvalidAddr}
  /\ sdbufaddr' # InvalidAddr => /\ sdcard.initialized
                                 /\ IsAligned(sdbufaddr')
                                 /\ sdbufaddr' + SectorSize <= CardBytes
  /\ tainted' \in BOOLEAN
  /\ clean' \in BOOLEAN

\* What c found in the buffer is what sdbufaddr' and tainted' say of it.
KeepsBuffer(c) ==
  ~tainted' /\ sdbufaddr' # InvalidAddr => Holds(c.sdbuf, c.disk, sdbufaddr')

\* The transaction a call of Run serves is a well formed object.
LEMMA HeadType ==
  ASSUME NEW t, NEW c, Setting(t, c)
  PROVE  t \in Tra /\ tra[t] \in TStorTrans /\ tra \in [Tra -> TStorTrans]
BY DEF Setting, ListInv, ListOK

\* The current transaction is finished.
LEMMA FinishStep ==
  ASSUME NEW t, NEW c, NEW error \in ErrorCode, NEW data \in [Index -> Val],
         Setting(t, c), KeepsBuffer(c), FinishCurTra(t, error, data),
         sdbuf' = c.sdbuf, sdcard' \in SdCardFields, sdcard'.completed,
         sdcard.initialized => sdcard'.initialized
  PROVE  IInv'
<1> DEFINE first == next[t]
           last == IF next[t] = NULL THEN NULL ELSE lasttra
           rest == Tail(queue)
           objs == [tra EXCEPT ![t].completed = TRUE, ![t].errorcode = error,
                               ![t].data = data]
<1>1. t \in Tra
  BY HeadType
<1>2. firsttra = t /\ ListOK(first, last, next, rest, objs)
  BY <1>1, UnchainKeepsList DEF Setting
<1>3. state' = "IDLE" /\ cur' = NoProgress /\ ExecCallBack(first, last, next, rest, objs)
  BY <1>2 DEF FinishCurTra
<1> HIDE DEF first, last, rest, objs
<1>4. ListInv'
  <2>1. CASE /\ firsttra' = first
             /\ lasttra' = last
             /\ next' = next
             /\ queue' = rest
             /\ tra' = objs
    BY <2>1, <1>2 DEF ListInv
  <2>2. CASE \E u \in Tra, r \in Requests :
               Append2Chain(first, last, next, rest, objs, u, r)
    BY <2>2, <1>2, AppendKeepsList
  <2> QED BY <1>3, <2>1, <2>2 DEF ExecCallBack
<1>5. FieldsOK'
  BY <1>1, <1>3
     DEF FieldsOK, Setting, CardResult, SdCardFields, NoProgress, Progress, Waits
<1>6. ServeInv'
  BY <1>3 DEF ServeInv, Setting, Waits, PartialWaits
<1>7. ProgressInv' /\ TransferInv'
  BY <1>3 DEF ProgressInv, TransferInv, Waits, PartialWaits
<1>8. BufferCoherent'
  BY DEF BufferCoherent, KeepsBuffer, Holds, Setting
<1> QED
  BY <1>4, <1>5, <1>6, <1>7, <1>8 DEF IInv

\* Only the data and the error of the current transaction change.
LEMMA DataKeepsList ==
  ASSUME NEW t \in Tra, NEW error \in ErrorCode, NEW data \in [Index -> Val],
         ListInv, UNCHANGED chain,
         tra' = [tra EXCEPT ![t].data = data, ![t].errorcode = error]
  PROVE  ListInv' /\ tra'[t].datalen = tra[t].datalen
<1> DEFINE new == [tra[t] EXCEPT !.data = data, !.errorcode = error]
<1>0. tra \in [Tra -> TStorTrans] /\ tra[t] \in TStorTrans
  BY DEF ListInv, ListOK
<1>1. tra' = [tra EXCEPT ![t] = new]
  OBVIOUS
<1>2. /\ new \in TStorTrans
      /\ new.completed = tra[t].completed
      /\ new.address = tra[t].address /\ new.datalen = tra[t].datalen
  BY <1>0 DEF TStorTrans
<1> HIDE DEF new
<1>3. /\ tra' \in [Tra -> TStorTrans]
      /\ \A u \in Tra : /\ tra'[u].completed = tra[u].completed
                        /\ tra'[u].address = tra[u].address
                        /\ tra'[u].datalen = tra[u].datalen
  BY <1>0, <1>1, <1>2
<1>4. next' = next /\ queue' = queue /\ firsttra' = firsttra /\ lasttra' = lasttra
  BY DEF chain
<1> QED
  BY <1>3, <1>4 DEF ListInv, ListOK, ServedIs

\* A transfer of the sector buffer is started, or refused.
LEMMA BufferStep ==
  ASSUME NEW t, NEW c, NEW data \in [Index -> Val], NEW p,
         NEW write \in BOOLEAN, NEW w \in PartialWaits,
         Setting(t, c), ProgressOf(p, t),
         StartBufTransfer(t, data, write, BlockAddr(p.curaddr), w),
         cur' = p, sdbuf' \in [Offsets -> Val],
         write <=> w = "WR_WAIT_PARTIAL_WR",
         write => /\ sdcard.initialized
                  /\ p.chunksize = Chunk(p)
                  /\ sdbufaddr' = BlockAddr(p.curaddr)
  PROVE  IInv'
<1>1. t \in Tra /\ tra[t] \in TStorTrans
  BY HeadType
<1>2. tra[t].errorcode \in ErrorCode /\ HWERR_NOTINIT \in ErrorCode
  BY <1>1 DEF TStorTrans, ErrorCode
<1>3. ListInv' /\ tra'[t].datalen = tra[t].datalen
  <2> DEFINE e == IF sdcard.initialized THEN tra[t].errorcode ELSE HWERR_NOTINIT
  <2>1. e \in ErrorCode
    BY <1>2
  <2>2. tra' = [tra EXCEPT ![t].data = data, ![t].errorcode = e]
    BY <1>1, HeadType DEF StartBufTransfer, TStorTrans
  <2> QED
    BY <1>1, <2>1, <2>2, DataKeepsList DEF Setting, StartBufTransfer
<1>4. p.curaddr \in CardAddr /\ p \in Progress
  BY DEF ProgressOf, Progress
<1>5. /\ BlockAddr(p.curaddr) \div SectorSize \in Nat
      /\ (BlockAddr(p.curaddr) \div SectorSize) * SectorSize = BlockAddr(p.curaddr)
  <2>1. p.curaddr \in Nat
    BY <1>4
  <2>2. BlockAddr(p.curaddr) \in Nat
    BY <2>1, SectorParts
  <2> QED BY <2>1, <2>2, SectorParts, BlockOfBlock
<1>6. queue' = queue /\ curtra' = t /\ t = queue[1] /\ queue # <<>>
  BY DEF Setting, StartBufTransfer, chain
<1>7. CASE sdcard.initialized
  <2>1. /\ state' = w
        /\ sdcard' = [initialized |-> TRUE, completed |-> FALSE, errorcode |-> 0,
                      transfer |-> [iswrite |-> write, tosdbuf |-> TRUE,
                                    startblock |-> BlockAddr(p.curaddr) \div SectorSize,
                                    blockcount |-> 1]]
    BY <1>7 DEF StartBufTransfer, StartBlocks
  <2>2. sdcard' \in SdCardFields
    BY <2>1, <1>5 DEF SdCardFields, Transfer, ErrorCode
  <2>3. FieldsOK'
    BY <2>1, <2>2, <1>1, <1>4
       DEF FieldsOK, Setting, CardResult, SdCardFields, Waits
  <2>4. ServeInv'
    BY <2>1, <1>6 DEF ServeInv, Setting, Waits
  <2>5. ProgressInv'
    BY <2>1, <1>3, <1>6 DEF ProgressInv, ProgressOf
  <2>6. TransferInv'
    BY <2>1, <1>5 DEF TransferInv, PartialWaits, Base
  <2>7. BufferCoherent'
    BY <2>1 DEF BufferCoherent, BufferBusy
  <2> QED
    BY <1>3, <2>3, <2>4, <2>5, <2>6, <2>7 DEF IInv
<1>8. CASE ~sdcard.initialized
  <2>1. /\ state' = "FINISH"
        /\ sdcard' = [sdcard EXCEPT !.completed = TRUE, !.errorcode = HWERR_NOTINIT]
    BY <1>8 DEF StartBufTransfer, StartBlocks
  <2>2. sdcard' \in SdCardFields /\ sdcard'.completed
    BY <2>1, <1>2 DEF SdCardFields, Setting
  <2>3. FieldsOK'
    BY <2>1, <2>2, <1>1, <1>4
       DEF FieldsOK, Setting, CardResult, SdCardFields, Waits
  <2>4. sdbufaddr' = InvalidAddr
    BY <1>8 DEF Setting
  <2>5. ServeInv' /\ ProgressInv' /\ TransferInv' /\ BufferCoherent'
    BY <2>1, <2>2, <2>4, <1>6
       DEF ServeInv, ProgressInv, TransferInv, BufferCoherent, Waits, PartialWaits
  <2> QED
    BY <1>3, <2>3, <2>5 DEF IInv
<1> QED BY <1>7, <1>8, HeadType DEF Setting, SdCardFields

\* The chunk of some progress lies in one sector and is not empty.
LEMMA ChunkBounds ==
  ASSUME NEW t, NEW p, ProgressOf(p, t), tra[t].datalen \in Nat
  PROVE  /\ Chunk(p) \in Nat /\ Chunk(p) >= 1 /\ Chunk(p) <= p.remaining
         /\ OffsetOf(p.curaddr) + Chunk(p) <= SectorSize
         /\ p.dataptr + Chunk(p) <= tra[t].datalen
         /\ Advance(p, Chunk(p)).remaining > 0 =>
              ProgressOf(Advance(p, Chunk(p)), t)
<1>1. p \in Progress /\ p.curaddr \in Nat /\ OffsetOf(p.curaddr) \in Offsets
  BY SectorParts DEF ProgressOf, Progress
<1>2. /\ Chunk(p) \in Nat /\ Chunk(p) >= 1 /\ Chunk(p) <= p.remaining
      /\ OffsetOf(p.curaddr) + Chunk(p) <= SectorSize
  BY <1>1 DEF Chunk, ProgressOf, Progress
<1> HIDE DEF Chunk
<1> QED
  BY <1>1, <1>2 DEF Advance, ProgressOf, Progress

\* ProcessPartialRead with the sector of p in the buffer.
LEMMA ProcessReadStep ==
  ASSUME NEW t, NEW c, NEW p, Setting(t, c), KeepsBuffer(c), ProgressOf(p, t),
         sdcard.initialized, ProcessPartialRead(t, c, p)
  PROVE  IInv'
<1>1. t \in Tra /\ tra[t] \in TStorTrans /\ tra[t].datalen \in 1 .. MaxLen
      /\ tra[t].errorcode \in ErrorCode
  BY HeadType DEF TStorTrans
<1> DEFINE data == FromBuf(c.data, c.sdbuf, p)
           q    == Advance(p, Chunk(p))
<1>2. q.remaining > 0 => ProgressOf(q, t)
  BY <1>1, ChunkBounds
<1>3. data \in [Index -> Val]
  <2>1. /\ p \in Progress /\ OffsetOf(p.curaddr) \in Offsets
        /\ c.data \in [Index -> Val] /\ c.sdbuf \in [Offsets -> Val]
    BY SectorParts DEF ProgressOf, Progress, Setting, CardResult
  <2>2. Chunk(p) \in Nat /\ OffsetOf(p.curaddr) + Chunk(p) <= SectorSize
    <3>1. tra[t].datalen \in Nat
      BY <1>1
    <3> HIDE DEF Offsets
    <3> QED BY <3>1, ChunkBounds
  <2> HIDE DEF Offsets
  <2>3. ASSUME NEW i \in Index, i >= p.dataptr, i < p.dataptr + Chunk(p)
        PROVE  c.sdbuf[OffsetOf(p.curaddr) + i - p.dataptr] \in Val
    <3>1. OffsetOf(p.curaddr) + i - p.dataptr \in Offsets
      BY <2>1, <2>2, <2>3 DEF Progress, Offsets
    <3> QED BY <3>1, <2>1
  <2> QED
    BY <2>1, <2>3 DEF FromBuf
<1> HIDE DEF data, q
<1>4. CASE q.remaining > 0
  <2>1. /\ StartBufTransfer(t, data, FALSE, BlockAddr(q.curaddr), "RD_WAIT_PARTIAL")
        /\ cur' = q
        /\ sdbuf' = c.sdbuf
    BY <1>4 DEF ProcessPartialRead, data, q
  <2>2. sdbuf' \in [Offsets -> Val]
    BY <2>1 DEF Setting, CardResult
  <2> QED
    BY <1>2, <1>3, <1>4, <2>1, <2>2, BufferStep DEF PartialWaits
<1>5. CASE ~(q.remaining > 0)
  <2>1. /\ FinishCurTra(t, tra[t].errorcode, data)
        /\ sdcard' = CardReady(c)
        /\ sdbuf' = c.sdbuf
    BY <1>5 DEF ProcessPartialRead, data, q
  <2>2. sdcard' \in SdCardFields /\ sdcard'.completed /\ sdcard'.initialized
    BY <2>1 DEF CardReady, Setting, SdCardFields, CardResult, Transfer, NoTransfer
  <2> QED
    BY <1>1, <1>3, <2>1, <2>2, FinishStep
<1> QED BY <1>4, <1>5

\* StartPartialWrite with the sector of p in the buffer.
LEMMA WriteStep ==
  ASSUME NEW t, NEW c, NEW p, Setting(t, c), ProgressOf(p, t),
         sdcard.initialized, sdbufaddr' = BlockAddr(p.curaddr),
         StartPartialWrite(t, c, p, BlockAddr(p.curaddr))
  PROVE  IInv'
<1>1. t \in Tra /\ tra[t] \in TStorTrans /\ tra[t].datalen \in 1 .. MaxLen
  BY HeadType DEF TStorTrans
<1> DEFINE q == [p EXCEPT !.chunksize = Chunk(p)]
<1>2. /\ Chunk(p) \in Nat
      /\ OffsetOf(p.curaddr) + Chunk(p) <= SectorSize
      /\ p.dataptr + Chunk(p) <= MaxLen
  BY <1>1, ChunkBounds DEF ProgressOf, Progress
<1>3. ProgressOf(q, t) /\ q.curaddr = p.curaddr /\ q.chunksize = Chunk(q)
  BY <1>2 DEF ProgressOf, Progress, Chunk
<1>4. sdbuf' \in [Offsets -> Val]
  <2>1. /\ p \in Progress /\ OffsetOf(p.curaddr) \in Offsets
        /\ c.data \in [Index -> Val] /\ c.sdbuf \in [Offsets -> Val]
    BY SectorParts DEF ProgressOf, Progress, Setting, CardResult
  <2> HIDE DEF Index
  <2>2. ASSUME NEW o \in Offsets, o >= OffsetOf(p.curaddr),
               o < OffsetOf(p.curaddr) + Chunk(p)
        PROVE  c.data[p.dataptr + o - OffsetOf(p.curaddr)] \in Val
    <3>1. p.dataptr + o - OffsetOf(p.curaddr) \in Index
      BY <1>2, <2>1, <2>2 DEF Progress, Index
    <3> QED BY <3>1, <2>1
  <2>3. sdbuf' = IntoBuf(c.sdbuf, c.data, p)
    BY DEF StartPartialWrite
  <2> QED
    BY <2>1, <2>2, <2>3 DEF IntoBuf
<1>5. /\ StartBufTransfer(t, c.data, TRUE, BlockAddr(q.curaddr), "WR_WAIT_PARTIAL_WR")
      /\ cur' = q
      /\ c.data \in [Index -> Val]
  BY <1>3 DEF StartPartialWrite, Setting, CardResult
<1>6. sdbufaddr' = BlockAddr(q.curaddr)
  BY <1>3
<1> HIDE DEF q
<1> QED
  BY <1>3, <1>4, <1>5, <1>6, BufferStep DEF PartialWaits

\* PreparePartialWrite, whichever sector is buffered.
LEMMA PrepareWriteStep ==
  ASSUME NEW t, NEW c, NEW p, Setting(t, c), ProgressOf(p, t),
         sdbufaddr' = sdbufaddr, sdbufaddr \in CardAddr \cup {InvalidAddr},
         PreparePartialWrite(t, c, p)
  PROVE  IInv'
<1>1. c.data \in [Index -> Val] /\ c.sdbuf \in [Offsets -> Val]
  BY DEF Setting, CardResult
<1>2. CASE BlockAddr(p.curaddr) # sdbufaddr
  BY <1>1, <1>2, BufferStep DEF PreparePartialWrite, PartialWaits
<1>3. CASE BlockAddr(p.curaddr) = sdbufaddr
  <2>1. sdbufaddr # InvalidAddr
    <3>1. p.curaddr \in Nat
      BY DEF ProgressOf, Progress
    <3>2. BlockAddr(p.curaddr) % SectorSize = 0
      BY <3>1, BlockOfBlock DEF IsAligned
    <3>3. 1 % SectorSize = 1
      OBVIOUS
    <3> QED BY <1>3, <3>2, <3>3 DEF InvalidAddr
  <2>2. sdcard.initialized
    BY <2>1 DEF Setting
  <2>3. StartPartialWrite(t, c, p, BlockAddr(p.curaddr))
    BY <1>3 DEF PreparePartialWrite
  <2> QED
    BY <1>3, <2>2, <2>3, WriteStep
<1> QED BY <1>2, <1>3

-----------------------------------------------------------------------------
(* The steps. *)

\* A transaction is added between two calls of Run.
LEMMA AddStep ==
  ASSUME IInv, NEW t \in Tra, NEW r \in Requests, AddTransaction(t, r)
  PROVE  IInv'
<1>1. /\ Append2Chain(firsttra, lasttra, next, queue, tra, t, r)
      /\ UNCHANGED <<state, curtra, cur, sdbufaddr, sdbuf, sdcard, disk, history>>
  BY DEF AddTransaction
<1>2. /\ ListInv'
      /\ queue' = Append(queue, t)
      /\ \A u \in Tra \ {t} : tra'[u] = tra[u]
      /\ \A i \in 1 .. Len(queue) : queue[i] # t
      /\ queue \in Seq(Tra)
  BY <1>1, AppendKeepsList DEF IInv, ListInv, ListOK
<1>3. FieldsOK'
  BY <1>1 DEF IInv, FieldsOK, history
<1>4. queue # <<>> => /\ queue' # <<>>
                      /\ queue'[1] = queue[1]
                      /\ queue[1] \in Tra \ {t}
  BY <1>2
<1>5. ServeInv'
  BY <1>1, <1>4 DEF IInv, ServeInv
<1>6. ProgressInv'
  <2>1. state \in PartialWaits => tra'[curtra] = tra[curtra]
    BY <1>2, <1>4 DEF IInv, ServeInv, PartialWaits
  <2> QED
    BY <1>1, <2>1 DEF IInv, ProgressInv, ProgressOf
<1>7. TransferInv' /\ BufferCoherent'
  BY <1>1 DEF IInv, TransferInv, BufferCoherent, BufferBusy, Base, Bytes, history
<1> QED
  BY <1>2, <1>3, <1>5, <1>6, <1>7 DEF IInv

\* The application initializes the card.
LEMMA CardInitStep ==
  ASSUME IInv, CardInit
  PROVE  IInv'
<1>1. /\ sdcard' = [sdcard EXCEPT !.initialized = TRUE]
      /\ UNCHANGED <<chain, tra, state, curtra, cur, sdbufaddr, sdbuf, disk, history>>
  BY DEF CardInit
<1>2. /\ sdcard' \in SdCardFields
      /\ sdcard'.initialized
      /\ sdcard'.completed = sdcard.completed
      /\ sdcard'.transfer = sdcard.transfer
  BY <1>1 DEF IInv, FieldsOK, SdCardFields
<1>3. ListInv'
  BY <1>1 DEF IInv, ListInv, ListOK, ServedIs, chain
<1>4. FieldsOK'
  BY <1>1, <1>2 DEF IInv, FieldsOK, SdCardFields, history
<1>5. ServeInv' /\ ProgressInv'
  BY <1>1, <1>2 DEF IInv, ServeInv, ProgressInv, ProgressOf, chain
<1>6. TransferInv' /\ BufferCoherent'
  BY <1>1, <1>2 DEF IInv, TransferInv, BufferCoherent, BufferBusy, Base, Bytes, history
<1> QED
  BY <1>3, <1>4, <1>5, <1>6 DEF IInv

\* What every handler of Run finds.
LEMMA RunSetting ==
  ASSUME IInv, firsttra # NULL, NEW c \in CardRun(Current),
         curtra' = Current, disk' = c.disk, sdbufaddr' = sdbufaddr,
         tainted' \in BOOLEAN, clean' \in BOOLEAN
  PROVE  Setting(Current, c)
BY CurrentIsHead, CardRunResult
   DEF IInv, Setting, FieldsOK, ServeInv, SdCardFields

\* A card that answered is ready again, and as initialized as it was.
LEMMA ReadyCard ==
  ASSUME sdcard \in SdCardFields, NEW c \in CardResult
  PROVE  /\ CardReady(c) \in SdCardFields
         /\ CardReady(c).completed
         /\ CardReady(c).initialized = sdcard.initialized
BY DEF CardReady, SdCardFields, CardResult, Transfer, NoTransfer

\* The handlers that end the transaction with what the card reported.
LEMMA EndSteps ==
  ASSUME IInv, firsttra # NULL, NEW c \in CardRun(Current),
         FinishNormal(c) \/ FailPartial(c) \/ FinishRefused(c)
  PROVE  IInv'
<1>1. /\ state # "IDLE" /\ Current = curtra /\ curtra' = curtra
      /\ disk' = c.disk /\ sdbuf' = c.sdbuf /\ sdbufaddr' = sdbufaddr
      /\ sdcard' = CardReady(c)
  BY DEF FinishNormal, FailPartial, FinishRefused, Current
<1>2. /\ tainted \in BOOLEAN /\ clean \in BOOLEAN
      /\ tainted' \in BOOLEAN /\ clean' \in BOOLEAN
  BY DEF FinishNormal, FailPartial, FinishRefused, history, IInv, FieldsOK
<1>3. Setting(curtra, c)
  BY <1>1, <1>2, RunSetting
<1>4. /\ c \in CardResult /\ c.errorcode \in ErrorCode /\ c.data \in [Index -> Val]
      /\ tra[curtra].errorcode \in ErrorCode
  BY <1>3, HeadType DEF Setting, CardResult, TStorTrans
<1>5. /\ sdcard' \in SdCardFields /\ sdcard'.completed
      /\ sdcard.initialized => sdcard'.initialized
  BY <1>1, <1>3, <1>4, ReadyCard DEF Setting
<1>6. KeepsBuffer(c)
  <2>1. CASE FinishNormal(c)
    BY <1>1, <2>1, CardRunResult DEF FinishNormal, KeepsBuffer, history
  <2>2. CASE FailPartial(c)
    BY <2>2 DEF FailPartial, KeepsBuffer
  <2>3. CASE FinishRefused(c)
    <3>1. state = "FINISH" /\ c.disk = disk /\ c.sdbuf = sdbuf /\ tainted' = tainted
      BY <2>3, CardRunResult DEF FinishRefused, history
    <3>2. ~BufferBusy
      BY <3>1 DEF IInv, ServeInv, BufferBusy, Waits, PartialWaits
    <3> QED
      BY <1>1, <3>1, <3>2 DEF IInv, BufferCoherent, KeepsBuffer, Holds
  <2> QED BY <2>1, <2>2, <2>3
<1>7. \E e \in ErrorCode : FinishCurTra(curtra, e, c.data)
  BY <1>4 DEF FinishNormal, FailPartial, FinishRefused
<1> QED
  BY <1>1, <1>3, <1>4, <1>5, <1>6, <1>7, FinishStep

\* The handlers that go on with a loaded sector.
LEMMA LoadedSteps ==
  ASSUME IInv, firsttra # NULL, NEW c \in CardRun(Current),
         ReadLoaded(c) \/ WriteLoaded(c)
  PROVE  IInv'
<1>1. /\ state \in {"RD_WAIT_PARTIAL", "WR_WAIT_PARTIAL_RD"}
      /\ c.errorcode = 0
      /\ Current = curtra /\ curtra' = curtra
      /\ disk' = c.disk
      /\ sdbufaddr' = BlockAddr(cur.curaddr)
      /\ tainted' = FALSE /\ clean' = clean
  BY DEF ReadLoaded, WriteLoaded, Current
<1>2. /\ ProgressOf(cur, curtra)
      /\ sdcard.initialized
  BY <1>1 DEF IInv, ProgressInv, ServeInv, PartialWaits, Waits
<1>3. cur.curaddr \in CardAddr /\ cur.curaddr \in Nat
  BY <1>2 DEF ProgressOf, Progress
<1>4. /\ BlockAddr(cur.curaddr) \in CardAddr
      /\ BlockAddr(cur.curaddr) + SectorSize <= CardBytes
      /\ IsAligned(BlockAddr(cur.curaddr))
  BY <1>3, SectorOnCard, BlockOfBlock
<1>5. Setting(curtra, c)
  BY <1>1, <1>2, <1>4, CurrentIsHead, CardRunResult
     DEF IInv, Setting, FieldsOK, SdCardFields
<1>6. KeepsBuffer(c)
  BY <1>1, CardRunResult DEF KeepsBuffer
<1>7. CASE ReadLoaded(c)
  <2>1. ProcessPartialRead(curtra, c, cur)
    BY <1>7 DEF ReadLoaded
  <2> QED BY <1>2, <1>5, <1>6, <2>1, ProcessReadStep
<1>8. CASE WriteLoaded(c)
  <2>1. StartPartialWrite(curtra, c, cur, BlockAddr(cur.curaddr))
    BY <1>8 DEF WriteLoaded
  <2> QED BY <1>1, <1>2, <1>5, <2>1, WriteStep
<1> QED BY <1>7, <1>8

\* The sector write is done.
LEMMA FinishPartialWriteStep ==
  ASSUME IInv, firsttra # NULL, NEW c \in CardRun(Current), FinishPartialWrite(c)
  PROVE  IInv'
<1> DEFINE q == Advance(cur, cur.chunksize)
<1>1. /\ state = "WR_WAIT_PARTIAL_WR"
      /\ c.errorcode = 0
      /\ Current = curtra /\ curtra' = curtra
      /\ disk' = c.disk
      /\ sdbufaddr' = sdbufaddr /\ tainted' = tainted /\ clean' = clean
  BY DEF FinishPartialWrite, Current, history
<1>2. /\ ProgressOf(cur, curtra)
      /\ cur.chunksize = Chunk(cur)
      /\ sdbufaddr \in CardAddr \cup {InvalidAddr}
  BY <1>1 DEF IInv, ProgressInv, FieldsOK, PartialWaits
<1>3. Setting(curtra, c)
  BY <1>1, RunSetting DEF IInv, FieldsOK
<1>4. KeepsBuffer(c)
  BY <1>1, CardRunResult DEF KeepsBuffer
<1>a. tra[curtra] \in TStorTrans
  BY <1>3, HeadType
<1>b. c \in CardResult
  BY <1>3 DEF Setting
<1>5. /\ tra[curtra].errorcode \in ErrorCode
      /\ tra[curtra].datalen \in Nat
      /\ c.data \in [Index -> Val]
  BY <1>a, <1>b DEF TStorTrans, CardResult
<1>6. q.remaining > 0 => ProgressOf(q, curtra)
  BY <1>2, <1>5, ChunkBounds
<1> HIDE DEF q
<1>7. CASE q.remaining > 0
  <2>1. PreparePartialWrite(curtra, c, q)
    BY <1>7 DEF FinishPartialWrite, q
  <2> QED
    BY <1>1, <1>2, <1>3, <1>6, <1>7, <2>1, PrepareWriteStep
<1>8. CASE ~(q.remaining > 0)
  <2>1. /\ FinishCurTra(curtra, tra[curtra].errorcode, c.data)
        /\ sdcard' = CardReady(c)
        /\ sdbuf' = c.sdbuf
    BY <1>8 DEF FinishPartialWrite, q
  <2>2. /\ sdcard' \in SdCardFields /\ sdcard'.completed
        /\ sdcard.initialized => sdcard'.initialized
    BY <1>3, <1>b, <2>1, ReadyCard DEF Setting
  <2> QED
    BY <1>3, <1>4, <1>5, <2>1, <2>2, FinishStep
<1> QED BY <1>7, <1>8

\* The full block mode, whether the card takes the transfer or refuses it.
LEMMA FullStep ==
  ASSUME NEW t, NEW c, NEW p \in Progress, NEW write \in BOOLEAN,
         Setting(t, c), KeepsBuffer(c), StartFullBlocks(t, c, p, write),
         IsAligned(p.curaddr), IsAligned(p.remaining),
         p.curaddr + p.remaining <= CardBytes, p.remaining <= MaxLen,
         write /\ ~tainted' => sdbufaddr' = InvalidAddr
                                 \/ sdbufaddr' < p.curaddr
                                 \/ sdbufaddr' >= p.curaddr + p.remaining
  PROVE  IInv'
<1>1. t \in Tra /\ tra[t] \in TStorTrans /\ tra \in [Tra -> TStorTrans]
  BY HeadType
<1>2. c \in CardResult /\ sdbuf' = c.sdbuf
  BY DEF Setting, StartFullBlocks
<1>3. c.data \in [Index -> Val] /\ c.sdbuf \in [Offsets -> Val]
  BY <1>2 DEF CardResult
<1>4. p.curaddr \in Nat /\ p.remaining \in Nat
  BY DEF Progress
<1>5. CASE sdcard.initialized
  <2>1. /\ state' = "WAIT_NORMAL" /\ cur' = p
        /\ tra' = [tra EXCEPT ![t].data = c.data]
        /\ UNCHANGED chain
        /\ sdcard' = [initialized |-> TRUE, completed |-> FALSE, errorcode |-> 0,
                      transfer |-> [iswrite |-> write, tosdbuf |-> FALSE,
                                    startblock |-> p.curaddr \div SectorSize,
                                    blockcount |-> p.remaining \div SectorSize]]
    BY <1>5 DEF StartFullBlocks, StartBlocks
  <2>2. /\ p.curaddr \div SectorSize \in Nat
        /\ p.remaining \div SectorSize \in Nat
        /\ (p.curaddr \div SectorSize) * SectorSize = p.curaddr
        /\ (p.remaining \div SectorSize) * SectorSize = p.remaining
    BY <1>4, SectorParts, AlignedParts
  <2>3. ListInv'
    <3>1. tra' = [tra EXCEPT ![t].data = c.data, ![t].errorcode = tra[t].errorcode]
      BY <1>1, <2>1 DEF TStorTrans
    <3>2. tra[t].errorcode \in ErrorCode
      BY <1>1 DEF TStorTrans
    <3> QED BY <1>1, <1>3, <2>1, <3>1, <3>2, DataKeepsList DEF Setting
  <2>4. sdcard' \in SdCardFields
    BY <2>1, <2>2 DEF SdCardFields, Transfer, ErrorCode
  <2>5. FieldsOK'
    BY <1>1, <1>2, <1>3, <2>1, <2>4
       DEF FieldsOK, Setting, CardResult, SdCardFields, Waits
  <2>6. ServeInv'
    BY <1>5, <2>1 DEF ServeInv, Setting, Waits, chain
  <2>7. ProgressInv'
    BY <2>1 DEF ProgressInv, PartialWaits
  <2>8. TransferInv'
    <3>1. /\ Base' = p.curaddr /\ Bytes' = p.remaining
          /\ ~sdcard'.transfer.tosdbuf
          /\ sdcard'.transfer.iswrite = write
      BY <2>1, <2>2 DEF Base, Bytes
    <3>2. IsAligned(p.curaddr + p.remaining)
      <4> DEFINE m == p.curaddr \div SectorSize
                 n == p.remaining \div SectorSize
      <4>1. m \in Nat /\ n \in Nat /\ p.curaddr = m * SectorSize
            /\ p.remaining = n * SectorSize
        BY <2>2
      <4> HIDE DEF m, n
      <4>2. p.curaddr + p.remaining = (m + n) * SectorSize
        BY <4>1
      <4>3. ((m + n) * SectorSize) % SectorSize = 0
        BY <4>1
      <4> QED BY <4>2, <4>3 DEF IsAligned
    <3> QED
      BY <1>4, <2>1, <3>1, <3>2 DEF TransferInv, PartialWaits
  <2>9. BufferCoherent'
    <3>1. ~tainted' /\ sdbufaddr' # InvalidAddr => Holds(sdbuf', disk', sdbufaddr')
      BY <1>2 DEF KeepsBuffer, Setting
    <3> QED BY <3>1 DEF BufferCoherent, Holds
  <2> QED
    BY <2>3, <2>5, <2>6, <2>7, <2>8, <2>9 DEF IInv
<1>6. CASE ~sdcard.initialized
  <2>1. /\ FinishCurTra(t, HWERR_NOTINIT, c.data)
        /\ sdcard' = [sdcard EXCEPT !.completed = TRUE, !.errorcode = HWERR_NOTINIT]
    BY <1>6 DEF StartFullBlocks, StartBlocks
  <2>2. HWERR_NOTINIT \in ErrorCode
    BY DEF ErrorCode
  <2>3. sdcard' \in SdCardFields /\ sdcard'.completed
    BY <2>1, <2>2 DEF Setting, SdCardFields
  <2> QED
    BY <1>2, <1>3, <1>6, <2>1, <2>2, <2>3, FinishStep
<1> QED BY <1>5, <1>6 DEF Setting, SdCardFields

\* The first transaction of the list is started.
LEMMA StartTransactionStep ==
  ASSUME IInv, firsttra # NULL, NEW c \in CardRun(Current), StartTransaction(c)
  PROVE  IInv'
<1> DEFINE t == firsttra
           r == tra[t]
           p == [curaddr |-> r.address, remaining |-> r.datalen, dataptr |-> 0,
                 chunksize |-> 0]
           partial == ~IsAligned(r.address) \/ ~IsAligned(r.datalen)
           buffered == sdbufaddr # InvalidAddr /\ sdbufaddr >= r.address
                         /\ sdbufaddr < r.address + r.datalen
<1>1. /\ state = "IDLE" /\ Current = t /\ curtra' = t
      /\ disk' = c.disk /\ sdbufaddr' = sdbufaddr
      /\ clean' = (tainted => ~partial \/ BlockAddr(r.address) # sdbufaddr)
      /\ tainted' = (tainted \/ (r.trtype = "WRITE" /\ ~partial /\ buffered))
  BY DEF StartTransaction, Current
<1>2. /\ tainted \in BOOLEAN
      /\ sdbufaddr \in CardAddr \cup {InvalidAddr}
  BY DEF IInv, FieldsOK
<1>3. tainted' \in BOOLEAN /\ clean' \in BOOLEAN
  BY <1>1
<1>4. Setting(t, c)
  BY <1>1, <1>3, RunSetting
<1>5. /\ t \in Tra /\ r \in TStorTrans
      /\ r.address + r.datalen <= CardBytes
  BY <1>4, HeadType DEF Setting, ListInv, ListOK
<1>6. /\ r.trtype \in {"READ", "WRITE", "ERASE"}
      /\ r.address \in CardAddr /\ r.datalen \in 1 .. MaxLen
  BY <1>5 DEF TStorTrans
<1>7. /\ p \in Progress
      /\ ProgressOf(p, t)
      /\ p.curaddr = r.address /\ p.remaining = r.datalen
  BY <1>5, <1>6 DEF ProgressOf, Progress
<1>8. c.data \in [Index -> Val] /\ c.sdbuf \in [Offsets -> Val]
  BY <1>4 DEF Setting, CardResult
<1>9. KeepsBuffer(c)
  <2>1. c.disk = disk /\ c.sdbuf = sdbuf
    BY <1>1, CardRunResult
  <2>2. ~BufferBusy
    BY <1>1 DEF IInv, ServeInv, BufferBusy, Waits, PartialWaits
  <2>3. ~tainted' => ~tainted
    BY <1>1
  <2> QED
    BY <1>1, <2>1, <2>2, <2>3 DEF IInv, BufferCoherent, KeepsBuffer, Holds
<1>10. /\ r.trtype = "READ" /\ partial => StartPartialRead(t, c, p)
       /\ r.trtype = "WRITE" /\ partial => PreparePartialWrite(t, c, p)
       /\ r.trtype # "ERASE" /\ ~partial =>
             StartFullBlocks(t, c, p, r.trtype = "WRITE")
       /\ r.trtype = "ERASE" => /\ FinishCurTra(t, ESTOR_NOTIMPL, c.data)
                                /\ sdcard' = CardReady(c)
                                /\ sdbuf' = c.sdbuf
  BY <1>6 DEF StartTransaction
<1>11. CASE r.trtype = "READ" /\ partial
  <2> HIDE DEF p
  <2>1. StartPartialRead(t, c, p)
    BY <1>10, <1>11
  <2>2. CASE BlockAddr(p.curaddr) # sdbufaddr
    <3>1. /\ StartBufTransfer(t, c.data, FALSE, BlockAddr(p.curaddr),
                               "RD_WAIT_PARTIAL")
          /\ cur' = p /\ sdbuf' = c.sdbuf
      BY <2>1, <2>2 DEF StartPartialRead
    <3> QED
      BY <1>4, <1>7, <1>8, <3>1, BufferStep DEF PartialWaits
  <2>3. CASE BlockAddr(p.curaddr) = sdbufaddr
    <3>1. p.curaddr \in Nat
      BY <1>6, <1>7
    <3>2. BlockAddr(p.curaddr) % SectorSize = 0
      BY <3>1, BlockOfBlock DEF IsAligned
    <3>3. sdbufaddr # InvalidAddr
      BY <2>3, <3>2 DEF InvalidAddr
    <3>4. sdcard.initialized
      BY <3>3 DEF IInv, ServeInv
    <3>5. ProcessPartialRead(t, c, p)
      BY <2>1, <2>3 DEF StartPartialRead
    <3> QED
      BY <1>4, <1>7, <1>9, <3>4, <3>5, ProcessReadStep
  <2> QED BY <2>2, <2>3
<1>12. CASE r.trtype = "WRITE" /\ partial
  <2> HIDE DEF p
  <2>1. PreparePartialWrite(t, c, p)
    BY <1>10, <1>12
  <2> QED
    BY <1>1, <1>2, <1>4, <1>7, <2>1, PrepareWriteStep
<1>13. CASE r.trtype # "ERASE" /\ ~partial
  <2> HIDE DEF p
  <2>1. StartFullBlocks(t, c, p, r.trtype = "WRITE")
    BY <1>10, <1>13
  <2>2. r.trtype = "WRITE" /\ ~tainted' =>
          sdbufaddr' = InvalidAddr \/ sdbufaddr' < p.curaddr
            \/ sdbufaddr' >= p.curaddr + p.remaining
    <3>1. r.trtype = "WRITE" /\ ~tainted' => ~buffered
      <4> HIDE DEF buffered
      <4> QED BY <1>1, <1>13
    <3>2. sdbufaddr \in Int /\ r.address \in Int /\ r.datalen \in Int
      BY <1>2, <1>6 DEF InvalidAddr
    <3>3. ~buffered => sdbufaddr = InvalidAddr \/ sdbufaddr < r.address
                         \/ sdbufaddr >= r.address + r.datalen
      <4> HIDE DEF r
      <4> QED BY <3>2
    <3> HIDE DEF r, buffered
    <3> QED BY <1>1, <1>7, <3>1, <3>3
  <2>3. p.curaddr + p.remaining <= CardBytes /\ p.remaining <= MaxLen
    BY <1>5, <1>6, <1>7
  <2>4. IsAligned(p.curaddr) /\ IsAligned(p.remaining)
    BY <1>7, <1>13
  <2> HIDE DEF t
  <2> QED
    BY <1>4, <1>7, <1>9, <2>1, <2>2, <2>3, <2>4, FullStep
<1>14. CASE r.trtype = "ERASE"
  <2>1. ESTOR_NOTIMPL \in ErrorCode
    BY DEF ErrorCode
  <2>2. /\ FinishCurTra(t, ESTOR_NOTIMPL, c.data)
        /\ sdcard' = CardReady(c)
        /\ sdbuf' = c.sdbuf
    BY <1>10, <1>14
  <2>3. /\ sdcard' \in SdCardFields
        /\ sdcard.initialized => sdcard'.initialized
        /\ sdcard'.completed
    BY <1>1, <1>4, <2>2, ReadyCard DEF Setting, IInv, ServeInv, Waits, PartialWaits
  <2> QED
    BY <1>4, <1>8, <1>9, <2>1, <2>2, <2>3, FinishStep
<1> QED BY <1>6, <1>11, <1>12, <1>13, <1>14

-----------------------------------------------------------------------------
(* The theorems. *)

\* The invariant holds at the start.
LEMMA InitInv == Init => IInv
<1> SUFFICES ASSUME Init PROVE IInv
  OBVIOUS
<1> USE DEF Init
<1>1. CardBytes >= 2
  <2> HIDE DEF Init
  <2>1. NumSectors * SectorSize >= SectorSize /\ NumSectors * SectorSize \in Nat
    OBVIOUS
  <2>2. CardBytes = NumSectors * SectorSize
    BY DEF CardBytes
  <2> QED BY <2>1, <2>2
<1>2. 0 \in CardAddr /\ InitialDisk \in [CardAddr -> Val]
  BY <1>1, DiskAssumption
<1>3. InitialDisk[0] \in Val
  BY <1>2
<1>4. (CHOOSE v \in Val : TRUE) \in Val
  BY <1>3
<1>5. NoData \in [Index -> Val]
  <2>1. [i \in Index |-> InitialDisk[0]] \in [Index -> Val]
    BY <1>3
  <2> QED BY <2>1 DEF NoData
<1>6. ListInv
  <2>1. queue \in Seq(Tra) /\ Len(queue) = 0
    OBVIOUS
  <2>2. tra \in [Tra -> TStorTrans]
    BY <1>2, <1>5 DEF TStorTrans, ErrorCode
  <2>3. \A t \in Tra : tra[t].address + tra[t].datalen <= CardBytes
                       /\ tra[t].completed
    <3> SUFFICES ASSUME NEW t \in Tra
                 PROVE  /\ tra[t].address + tra[t].datalen <= CardBytes
                        /\ tra[t].completed
      OBVIOUS
    <3>1. tra[t].address = 0 /\ tra[t].datalen = 1 /\ tra[t].completed
      OBVIOUS
    <3> HIDE DEF Init
    <3> QED BY <1>1, <3>1
  <2>4. ServedIs(queue, tra)
    <3> HIDE DEF Init
    <3>1. ~(\E i \in 1 .. Len(queue) : TRUE)
      BY <2>1
    <3> QED BY <2>3, <3>1, Zenon DEF ServedIs
  <2>5. IsChain(firsttra, lasttra, next, queue)
    BY <2>1 DEF IsChain
  <2> QED
    BY <2>1, <2>2, <2>3, <2>4, <2>5 DEF ListInv, ListOK
<1>7. FieldsOK
  BY <1>2, <1>4
     DEF FieldsOK, Waits, PartialWaits, Progress, NoProgress, Transfer, NoTransfer,
         ErrorCode
<1>8. ServeInv /\ ProgressInv /\ TransferInv /\ BufferCoherent
  BY DEF ServeInv, ProgressInv, TransferInv, BufferCoherent, Waits, PartialWaits
<1> QED BY <1>6, <1>7, <1>8 DEF IInv

\* Every step of the manager, the card and the clients keeps it.
LEMMA NextInv == IInv /\ [Next]_vars => IInv'
<1> SUFFICES ASSUME IInv, [Next]_vars PROVE IInv'
  OBVIOUS
<1>1. CASE Run
  <2>1. PICK c \in CardRun(Current) :
          \/ StartTransaction(c)
          \/ FinishNormal(c)
          \/ FailPartial(c)
          \/ ReadLoaded(c)
          \/ WriteLoaded(c)
          \/ FinishPartialWrite(c)
          \/ FinishRefused(c)
    BY <1>1 DEF Run, Current
  <2>2. firsttra # NULL
    BY <1>1 DEF Run
  <2> QED
    BY <2>1, <2>2, StartTransactionStep, EndSteps, LoadedSteps,
       FinishPartialWriteStep
<1>2. CASE CardInit
  BY <1>2, CardInitStep
<1>3. CASE \E t \in Tra, r \in Requests : AddTransaction(t, r)
  BY <1>3, AddStep
<1>4. CASE UNCHANGED vars
  <2> USE <1>4 DEF vars, chain, history
  <2>1. ListInv'
    BY DEF IInv, ListInv, ListOK, ServedIs
  <2>2. FieldsOK' /\ ServeInv'
    BY DEF IInv, FieldsOK, ServeInv
  <2>3. ProgressInv' /\ TransferInv' /\ BufferCoherent'
    BY DEF IInv, ProgressInv, ProgressOf, TransferInv, Base, Bytes,
           BufferCoherent, BufferBusy
  <2> QED BY <2>1, <2>2, <2>3 DEF IInv
<1> QED BY <1>1, <1>2, <1>3, <1>4 DEF Next

\* The invariant holds in every state the program reaches.
LEMMA SpecInv == Spec => []IInv
  BY InitInv, NextInv, PTL DEF Spec

\* Every variable keeps its type, whatever the card and the clients do.
THEOREM TypeCorrect == Spec => []TypeOK
<1>1. IInv => TypeOK
  <2> SUFFICES ASSUME IInv PROVE TypeOK
    OBVIOUS
  <2>1. /\ next \in [Tra -> Tra \cup {NULL}]
        /\ tra \in [Tra -> TStorTrans]
        /\ queue \in Seq(Tra)
    BY DEF IInv, ListInv, ListOK
  <2>2. firsttra \in Tra \cup {NULL} /\ lasttra \in Tra \cup {NULL}
    <3>1. IsChain(firsttra, lasttra, next, queue)
      BY DEF IInv, ListInv, ListOK
    <3> QED BY <2>1, <3>1 DEF IsChain
  <2> QED
    BY <2>1, <2>2
       DEF TypeOK, IInv, FieldsOK, Progress, Transfer, Waits, PartialWaits
<1> QED BY <1>1, SpecInv, PTL

\* AddTransaction, FinishCurTra and the callbacks that add from inside it
\* keep the pointer list equal to the queue of the waiting transactions.
THEOREM ListCorrect == Spec => []ChainIsQueue
<1>1. IInv => ChainIsQueue
  BY DEF IInv, ListInv, ListOK, ChainIsQueue
<1> QED BY <1>1, SpecInv, PTL

\* A client that loops on completed stops exactly when it was served.
THEOREM CompletedCorrect == Spec => []CompletedWhenServed
<1>1. IInv => CompletedWhenServed
  BY DEF IInv, ListInv, ListOK, ServedIs, CompletedWhenServed, InQueue
<1> QED BY <1>1, SpecInv, PTL

\* The sector buffer holds the sector sdbufaddr names, except after a failed
\* transfer of the buffer or an aligned write of that sector.
THEOREM BufferCorrect == Spec => []BufferCoherent
<1>1. IInv => BufferCoherent
  BY DEF IInv
<1> QED BY <1>1, SpecInv, PTL
=============================================================================
