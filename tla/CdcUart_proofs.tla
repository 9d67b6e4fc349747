---------------------------- MODULE CdcUart_proofs ----------------------------
(***************************************************************************)
(* Proofs about the USB to UART bridge, for buffers and packets of any     *)
(* size: types, the owners of the halves of the double buffer, the end of  *)
(* USB transfers, and the order of the bytes both ways.                    *)
(***************************************************************************)
EXTENDS CdcUart, SequenceTheorems, TLAPS

LEMMA Sizes ==
  /\ RxSize \in Nat /\ UsbTxSize \in Nat /\ SerialTxSize \in Nat /\ MaxLen \in Nat
  /\ RxSize > 1 /\ UsbTxSize > 1 /\ SerialTxSize > 1 /\ MaxLen > 1
  /\ MaxLen <= SerialTxSize
  /\ MaxUp \in Nat /\ MaxDown \in Nat /\ MaxRestarts \in Nat
BY SizeAssumption

USE Sizes

-----------------------------------------------------------------------------
(* Types. *)

\* A change of one field of a pipe.
LEMMA PipeFields ==
  ASSUME NEW S, NEW p \in Pipe(S)
  PROVE  /\ p.taken \in S /\ p.given \in Seq(S) /\ p.lost \subseteq S
         /\ \A v \in S : [p EXCEPT !.taken = v] \in Pipe(S)
         /\ \A v \in Seq(S) : [p EXCEPT !.given = v] \in Pipe(S)
         /\ \A v : v \subseteq S => [p EXCEPT !.lost = v] \in Pipe(S)
<1>1. p \in [taken : S, given : Seq(S), lost : SUBSET S]
  BY DEF Pipe
<1>2. \A v \in SUBSET S : [p EXCEPT !.lost = v] \in Pipe(S)
  BY <1>1 DEF Pipe
<1> QED BY <1>1, <1>2 DEF Pipe

LEMMA NextRxIdxType ==
  ASSUME NEW i \in 0 .. RxSize - 1
  PROVE  NextRxIdx(i) \in 0 .. RxSize - 1
BY DEF NextRxIdx

LEMMA SeqElements ==
  ASSUME NEW S, NEW s \in Seq(S)
  PROVE  ToSet(s) \subseteq S
BY DEF ToSet

LEMMA UnreadType ==
  ASSUME UpOK
  PROVE  ToSet(Unread) \subseteq Up
<1>1. /\ serial_rxidx \in 0 .. RxSize - 1 /\ rxdma \in 0 .. RxSize - 1
      /\ serial_rxbuf \in [0 .. RxSize - 1 -> Up]
  BY DEF UpOK
<1>2. CASE serial_rxidx <= rxdma
  <2>1. \A k \in 1 .. rxdma - serial_rxidx : serial_rxbuf[serial_rxidx + k - 1] \in Up
    <3> TAKE k \in 1 .. rxdma - serial_rxidx
    <3>1. serial_rxidx + k - 1 \in 0 .. RxSize - 1
      BY <1>1
    <3> QED BY <1>1, <3>1
  <2> QED BY <1>2, <2>1 DEF Unread, ToSet
<1>3. CASE ~(serial_rxidx <= rxdma)
  <2> DEFINE Byte(k) == IF serial_rxidx + k - 1 < RxSize THEN serial_rxbuf[serial_rxidx + k - 1]
                        ELSE serial_rxbuf[serial_rxidx + k - 1 - RxSize]
  <2>1. \A k \in 1 .. RxSize - serial_rxidx + rxdma : Byte(k) \in Up
    <3> TAKE k \in 1 .. RxSize - serial_rxidx + rxdma
    <3>1. CASE serial_rxidx + k - 1 < RxSize
      <4>1. serial_rxidx + k - 1 \in 0 .. RxSize - 1
        BY <1>1, <3>1
      <4> QED BY <1>1, <3>1, <4>1
    <3>2. CASE ~(serial_rxidx + k - 1 < RxSize)
      <4>1. serial_rxidx + k - 1 - RxSize \in 0 .. RxSize - 1
        BY <1>1, <3>2
      <4> QED BY <1>1, <3>2, <4>1
    <3> QED BY <3>1, <3>2
  <2> QED BY <1>3, <2>1 DEF Unread, ToSet
<1> QED BY <1>2, <1>3

\* The beginning and the rest of a sequence.
LEMMA Parts ==
  ASSUME NEW S, NEW s \in Seq(S), NEW n \in 0 .. Len(s)
  PROVE  /\ SubSeq(s, 1, n) \in Seq(S) /\ Len(SubSeq(s, 1, n)) = n
         /\ ToSet(SubSeq(s, n + 1, Len(s))) \subseteq S
<1>1. SubSeq(s, n + 1, Len(s)) \in Seq(S)
  <2>1. \A i \in n + 1 .. Len(s) : s[i] \in S
    OBVIOUS
  <2> QED BY <2>1, SubSeqProperties
<1>2. SubSeq(s, 1, n) \in Seq(S) /\ Len(SubSeq(s, 1, n)) = n
  <2>1. \A i \in 1 .. n : s[i] \in S
    OBVIOUS
  <2> QED BY <2>1, SubSeqProperties
<1> QED BY <1>1, <1>2, SeqElements

LEMMA FilledType ==
  ASSUME DownOK, NEW b \in Seq(Down)
  PROVE  Filled(b) \in [Half -> [1 .. SerialTxSize -> Down]]
<1>1. /\ serial_txbuf \in [Half -> [1 .. SerialTxSize -> Down]]
      /\ serial_txbufidx \in Half /\ serial_txlen \in 0 .. SerialTxSize
  BY DEF DownOK
<1> DEFINE Row == [k \in 1 .. SerialTxSize |-> IF k - serial_txlen \in 1 .. Len(b)
                     THEN b[k - serial_txlen] ELSE serial_txbuf[serial_txbufidx][k]]
<1>2. Row \in [1 .. SerialTxSize -> Down]
  <2>1. ASSUME NEW k \in 1 .. SerialTxSize, k - serial_txlen \in 1 .. Len(b)
        PROVE  b[k - serial_txlen] \in Down
    BY <2>1
  <2>2. \A k \in 1 .. SerialTxSize : serial_txbuf[serial_txbufidx][k] \in Down
    BY <1>1
  <2> QED BY <2>1, <2>2
<1>3. Filled(b) = [serial_txbuf EXCEPT ![serial_txbufidx] = Row]
  BY <1>1 DEF Filled
<1> QED BY <1>1, <1>2, <1>3

\* The packet of the host.
LEMMA PacketType ==
  ASSUME DownOK, NEW n \in 0 .. MaxLen, down.taken + n <= MaxDown
  PROVE  /\ [k \in 1 .. n |-> down.taken + k] \in Seq(Down)
         /\ Len([k \in 1 .. n |-> down.taken + k]) = n
         /\ down.taken + n \in Down
<1>1. down.taken \in 0 .. MaxDown
  BY PipeFields DEF DownOK, Down
<1>2. \A k \in 1 .. n : down.taken + k \in Down
  BY <1>1 DEF Down
<1> QED BY <1>1, <1>2 DEF Down

LEMMA RestartType ==
  ASSUME UpOK, DownOK, Restart
  PROVE  /\ uart_running' \in BOOLEAN
         /\ UNCHANGED <<serial_rxbuf, ep_output, open>> => UpOK'
         /\ ep_input' \in BOOLEAN
            /\ UNCHANGED <<usb_rx, serial_txbuf, serial_txbufidx, serial_txlen, dmaxfer_tx>>
              => DownOK'
<1>1. up' \in Pipe(Up)
  <2>1. ToSet(usb_tx) \subseteq Up /\ ToSet(Unread) \subseteq Up
    BY SeqElements, UnreadType DEF UpOK
  <2>2. up \in Pipe(Up) /\ up.lost \subseteq Up
    BY PipeFields DEF UpOK
  <2>3. up.lost \cup ToSet(Unread) \cup ToSet(usb_tx) \subseteq Up
    BY <2>1, <2>2
  <2>4. up' = [up EXCEPT !.lost = up.lost \cup ToSet(Unread) \cup ToSet(usb_tx)]
    BY <2>2 DEF Restart, Pipe
  <2> QED BY <2>2, <2>3, <2>4, PipeFields
<1>2. down' \in Pipe(Down)
  <2> DEFINE rest == {serial_txbuf[txdma.src][k] : k \in txdma.at .. txdma.at + txdma.left - 1}
  <2>1. ASSUME NEW k \in txdma.at .. txdma.at + txdma.left - 1
        PROVE  serial_txbuf[txdma.src][k] \in Down
    <3>1. k \in 1 .. SerialTxSize /\ txdma.src \in Half
      BY DEF DownOK, Transfer
    <3> QED BY <3>1 DEF DownOK
  <2>2. down \in Pipe(Down) /\ down.lost \subseteq Down
    BY PipeFields DEF DownOK
  <2>3. down.lost \cup rest \subseteq Down
    BY <2>1, <2>2
  <2>4. down' = [down EXCEPT !.lost = down.lost \cup rest]
    BY <2>2 DEF Restart, Pipe
  <2> QED BY <2>2, <2>3, <2>4, PipeFields
<1>3. txdma' \in Transfer /\ txdma'.at + txdma'.left <= SerialTxSize + 1
  <2>1. txdma \in Transfer /\ txdma.at + txdma.left <= SerialTxSize + 1
    BY DEF DownOK
  <2>2. txdma' = [txdma EXCEPT !.left = 0]
    BY DEF Restart
  <2> QED BY <2>1, <2>2 DEF Transfer
<1>4. serial_rxidx' \in 0 .. RxSize - 1 /\ rxdma' \in 0 .. RxSize - 1
      /\ usb_tx' \in Seq(Up) /\ Len(usb_tx') <= UsbTxSize /\ ready_to_send' \in BOOLEAN
  BY DEF Restart
<1> QED BY <1>1, <1>2, <1>3, <1>4 DEF Restart, UpOK, DownOK

\* The steps of the way up.
LEMMA UpType ==
  ASSUME TypeOK,
         UartByte \/ CopyByte \/ SendStart \/ SendEnd \/ InEvent
  PROVE  TypeOK'
<1> USE DEF TypeOK
<1>1. DownOK'
  <2>1. UNCHANGED downvars
    BY DEF UartByte, CopyByte, SendStart, SendEnd, InEvent
  <2> QED BY <2>1 DEF downvars, DownOK
<1>2. PlaceOK'
  BY DEF UartByte, CopyByte, SendStart, SendEnd, InEvent, PlaceOK, Place, Race
<1>3. CASE UartByte
  <2>1. up.taken + 1 \in Up /\ up \in Pipe(Up)
    <3>1. up.taken \in 0 .. MaxUp /\ up \in Pipe(Up)
      BY PipeFields DEF UpOK, Up
    <3> QED BY <1>3, <3>1 DEF UartByte, Up
  <2>2. up' = [up EXCEPT !.taken = up.taken + 1]
    BY <1>3, <2>1 DEF UartByte, Pipe
  <2>3. up' \in Pipe(Up)
    BY <2>1, <2>2, PipeFields
  <2>4. serial_rxbuf' \in [0 .. RxSize - 1 -> Up] /\ rxdma' \in 0 .. RxSize - 1
    BY <1>3, <2>1, NextRxIdxType DEF UartByte, UpOK
  <2> QED BY <1>1, <1>2, <1>3, <2>3, <2>4 DEF UartByte, UpOK
<1>4. CASE CopyByte
  <2>1. serial_rxbuf[serial_rxidx] \in Up /\ serial_rxidx' \in 0 .. RxSize - 1
    BY <1>4, NextRxIdxType DEF CopyByte, UpOK
  <2>2. usb_tx' \in Seq(Up) /\ Len(usb_tx') <= UsbTxSize
    BY <1>4, <2>1 DEF CopyByte, TxRoom, UpOK
  <2> QED BY <1>1, <1>2, <1>4, <2>1, <2>2 DEF CopyByte, UpOK
<1>5. CASE SendStart
  <2> DEFINE n == SendLen(Len(usb_tx))
             rest == SubSeq(usb_tx, n + 1, Len(usb_tx))
  <2>1. n \in 0 .. Len(usb_tx) /\ n <= MaxLen
    BY DEF SendLen, UpOK
  <2>2. /\ SubSeq(usb_tx, 1, n) \in Seq(Up) /\ Len(SubSeq(usb_tx, 1, n)) = n
        /\ ToSet(rest) \subseteq Up
    BY <2>1, Parts DEF UpOK
  <2>3. ZeroState(n) \in 0 .. 2
    BY DEF ZeroState
  <2>4. up \in Pipe(Up) /\ up.lost \subseteq Up
    BY PipeFields DEF UpOK
  <2>5. /\ ep_output' = [busy |-> TRUE, data |-> SubSeq(usb_tx, 1, n), send_zero_state |-> ZeroState(n)]
        /\ up' = [up EXCEPT !.lost = up.lost \cup ToSet(rest)]
    BY <1>5, <2>4 DEF SendStart, Pipe
  <2> HIDE DEF n, rest
  <2>6. ep_output' \in [busy : BOOLEAN, data : Seq(Up), send_zero_state : 0 .. 2]
        /\ Len(ep_output'.data) <= MaxLen
    BY <2>1, <2>2, <2>3, <2>5
  <2>7. up' \in Pipe(Up)
    <3>1. up.lost \cup ToSet(rest) \subseteq Up
      BY <2>2, <2>4
    <3> QED BY <2>4, <2>5, <3>1, PipeFields
  <2> QED BY <1>1, <1>2, <1>5, <2>6, <2>7 DEF SendStart, UpOK
<1>6. CASE SendEnd
  <2>1. usb_tx' \in Seq(Up) /\ Len(usb_tx') <= UsbTxSize
    BY <1>6 DEF SendEnd
  <2> QED BY <1>1, <1>2, <1>6, <2>1 DEF SendEnd, UpOK
<1>7. CASE InEvent
  <2>1. up \in Pipe(Up) /\ ep_output.data \in Seq(Up) /\ up.given \in Seq(Up)
    BY PipeFields DEF UpOK
  <2>2. up.given \o ep_output.data \in Seq(Up)
    BY <2>1
  <2>3. up' = [up EXCEPT !.given = up.given \o ep_output.data]
    BY <1>7, <2>1 DEF InEvent, Pipe
  <2>4. up' \in Pipe(Up)
    BY <2>1, <2>2, <2>3, PipeFields
  <2>5. /\ ep_output' \in [busy : BOOLEAN, data : Seq(Up), send_zero_state : 0 .. 2]
        /\ Len(ep_output'.data) <= MaxLen
    <3>1. <<>> \in Seq(Up) /\ Len(<<>>) <= MaxLen
      OBVIOUS
    <3>2. /\ ep_output \in [busy : BOOLEAN, data : Seq(Up), send_zero_state : 0 .. 2]
          /\ \/ ep_output' = [busy |-> TRUE, data |-> <<>>, send_zero_state |-> 2]
             \/ ep_output' = [ep_output EXCEPT !.busy = FALSE, !.data = <<>>]
      BY <1>7 DEF InEvent, UpOK
    <3>3. \A b \in BOOLEAN, z \in 0 .. 2 :
            [busy |-> b, data |-> <<>>, send_zero_state |-> z]
              \in [busy : BOOLEAN, data : Seq(Up), send_zero_state : 0 .. 2]
      BY <3>1
    <3>4. \E b \in BOOLEAN, z \in 0 .. 2 :
            ep_output' = [busy |-> b, data |-> <<>>, send_zero_state |-> z]
      <4>1. CASE ep_output' = [busy |-> TRUE, data |-> <<>>, send_zero_state |-> 2]
        <5>1. 2 \in 0 .. 2 /\ TRUE \in BOOLEAN
          OBVIOUS
        <5> QED BY <4>1, <5>1
      <4>2. CASE ep_output' = [ep_output EXCEPT !.busy = FALSE, !.data = <<>>]
        <5>1. ep_output.send_zero_state \in 0 .. 2
          BY <3>2
        <5>2. ep_output' = [busy |-> FALSE, data |-> <<>>,
                            send_zero_state |-> ep_output.send_zero_state]
          BY <3>2, <4>2
        <5> QED BY <5>1, <5>2
      <4> QED BY <3>2, <4>1, <4>2
    <3> QED BY <3>1, <3>3, <3>4
  <2>6. open' \in BOOLEAN /\ ready_to_send' \in BOOLEAN
    BY <1>7 DEF InEvent, UpOK
  <2> QED BY <1>1, <1>2, <1>7, <2>4, <2>5, <2>6 DEF InEvent, UpOK
<1> QED BY <1>3, <1>4, <1>5, <1>6, <1>7

\* The steps that only move Run on.
LEMMA PlaceType ==
  ASSUME TypeOK, RunBegin \/ CopyEnd \/ SendTest \/ FlushTest
  PROVE  TypeOK'
<1>1. UNCHANGED <<upvars, downvars>>
  BY DEF RunBegin, CopyEnd, SendTest, FlushTest
<1>2. PlaceOK'
  BY DEF TypeOK, RunBegin, CopyEnd, SendTest, FlushTest, PlaceOK, UpOK, Place, upvars, downvars
<1>3. UpOK' /\ DownOK'
  BY <1>1 DEF TypeOK, UpOK, DownOK, upvars, downvars
<1> QED BY <1>2, <1>3 DEF TypeOK

\* The steps of the way down.
LEMMA DownType ==
  ASSUME TypeOK, Move \/ FlushFill \/ FlushGo \/ FlushFlip \/ TxDma
  PROVE  TypeOK'
<1> USE DEF TypeOK
<1>1. UpOK'
  <2>1. UNCHANGED upvars
    BY DEF Move, FlushFill, FlushGo, FlushFlip, TxDma
  <2> QED BY <2>1 DEF upvars, UpOK
<1>2. PlaceOK'
  BY DEF Move, FlushFill, FlushGo, FlushFlip, TxDma, PlaceOK, Place
<1>3. CASE Move
  <2>1. Filled(usb_rx) \in [Half -> [1 .. SerialTxSize -> Down]]
    BY FilledType DEF DownOK
  <2>2. Fits(usb_rx) => serial_txlen + Len(usb_rx) \in 0 .. SerialTxSize
    BY DEF Fits, DownOK
  <2>3. <<>> \in Seq(Down) /\ Len(<<>>) <= MaxLen
    OBVIOUS
  <2>4. /\ serial_txbuf' \in [Half -> [1 .. SerialTxSize -> Down]]
        /\ serial_txlen' \in 0 .. SerialTxSize
        /\ usb_rx' \in Seq(Down) /\ Len(usb_rx') <= MaxLen /\ ep_input' \in BOOLEAN
    BY <1>3, <2>1, <2>2, <2>3 DEF Move, DownOK
  <2> QED BY <1>1, <1>2, <1>3, <2>4 DEF Move, DownOK
<1>4. CASE FlushFill
  <2>1. dmaxfer_tx' \in [src : Half, count : 0 .. SerialTxSize]
    BY <1>4 DEF FlushFill, DownOK
  <2> QED BY <1>1, <1>2, <1>4, <2>1 DEF FlushFill, DownOK
<1>5. CASE FlushGo
  <2>1. txdma' \in Transfer /\ txdma'.at + txdma'.left <= SerialTxSize + 1
    BY <1>5 DEF FlushGo, Started, DownOK, Transfer
  <2> QED BY <1>1, <1>2, <1>5, <2>1 DEF FlushGo, DownOK
<1>6. CASE FlushFlip
  <2>1. serial_txbufidx' \in Half /\ serial_txlen' \in 0 .. SerialTxSize
    BY <1>6 DEF FlushFlip, OtherHalf, DownOK, Half
  <2> QED BY <1>1, <1>2, <1>6, <2>1 DEF FlushFlip, DownOK
<1>7. CASE TxDma
  <2>1. serial_txbuf[txdma.src][txdma.at] \in Down
    <3>1. txdma.at \in 1 .. SerialTxSize /\ txdma.src \in Half
      BY <1>7 DEF TxDma, Active, DownOK, Transfer
    <3> QED BY <3>1 DEF DownOK
  <2>2. down \in Pipe(Down) /\ down.given \in Seq(Down)
    BY PipeFields DEF DownOK
  <2>3. Append(down.given, serial_txbuf[txdma.src][txdma.at]) \in Seq(Down)
    BY <2>1, <2>2
  <2>4. down' = [down EXCEPT !.given = Append(down.given, serial_txbuf[txdma.src][txdma.at])]
    BY <1>7, <2>2 DEF TxDma, Pipe
  <2>5. down' \in Pipe(Down)
    BY <2>2, <2>3, <2>4, PipeFields
  <2>6. txdma' \in Transfer /\ txdma'.at + txdma'.left <= SerialTxSize + 1
    <3>1. /\ txdma \in Transfer /\ txdma.at + txdma.left <= SerialTxSize + 1
          /\ txdma.left > 0 /\ txdma' = [txdma EXCEPT !.at = @ + 1, !.left = @ - 1]
      BY <1>7 DEF TxDma, Active, DownOK
    <3>2. /\ txdma.src \in Half /\ txdma.at \in 1 .. SerialTxSize + 1
          /\ txdma.left \in 1 .. SerialTxSize
      BY <3>1 DEF Transfer
    <3>3. txdma' = [src |-> txdma.src, at |-> txdma.at + 1, left |-> txdma.left - 1]
      BY <3>1 DEF Transfer
    <3>4. txdma.at + 1 \in 1 .. SerialTxSize + 1 /\ txdma.left - 1 \in 0 .. SerialTxSize
      BY <3>1, <3>2
    <3> QED BY <3>1, <3>2, <3>3, <3>4 DEF Transfer
  <2> QED BY <1>1, <1>2, <1>7, <2>5, <2>6 DEF TxDma, DownOK
<1> QED BY <1>3, <1>4, <1>5, <1>6, <1>7

LEMMA OutType ==
  ASSUME TypeOK, NEW n \in 0 .. MaxLen, OutEvent(n)
  PROVE  TypeOK'
<1> DEFINE data   == [k \in 1 .. n |-> down.taken + k]
           stored == data # <<>> /\ Fits(data)
           len    == IF stored THEN serial_txlen + n ELSE serial_txlen
           xfer   == [src |-> serial_txbufidx, count |-> len]
<1> USE DEF TypeOK
<1>1. data \in Seq(Down) /\ Len(data) = n /\ down.taken + n \in Down
  BY PacketType DEF OutEvent
<1>2. Filled(data) \in [Half -> [1 .. SerialTxSize -> Down]]
  BY <1>1, FilledType
<1>3. len \in 0 .. SerialTxSize
  BY <1>1 DEF Fits, DownOK
<1>4. /\ down' = [down EXCEPT !.taken = @ + n]
      /\ usb_rx' = IF stored THEN <<>> ELSE data
      /\ ep_input' = stored
      /\ serial_txbuf' = IF stored THEN Filled(data) ELSE serial_txbuf
      /\ IF MayFlush(len)
         THEN /\ dmaxfer_tx' = xfer /\ txdma' = Started(xfer)
              /\ serial_txbufidx' = OtherHalf /\ serial_txlen' = 0
         ELSE /\ serial_txlen' = len
              /\ UNCHANGED <<dmaxfer_tx, txdma, serial_txbufidx>>
      /\ race' \in {"out_event", "empty_packet", race}
      /\ UNCHANGED <<pc, dma_write_idx, uart_running, upvars, restarts>>
  BY DEF OutEvent, Reopened
<1>5. stored \in BOOLEAN
  OBVIOUS
<1> HIDE DEF data, stored, len
<1>6. down' \in Pipe(Down)
  <2>1. down \in Pipe(Down)
    BY DEF DownOK
  <2>2. down' = [down EXCEPT !.taken = down.taken + n]
    BY <1>4, <2>1 DEF Pipe
  <2> QED BY <1>1, <2>1, <2>2, PipeFields
<1>7. /\ dmaxfer_tx' \in [src : Half, count : 0 .. SerialTxSize]
      /\ txdma' \in Transfer /\ txdma'.at + txdma'.left <= SerialTxSize + 1
      /\ serial_txbufidx' \in Half /\ serial_txlen' \in 0 .. SerialTxSize
  <2>1. xfer \in [src : Half, count : 0 .. SerialTxSize] /\ OtherHalf \in Half
    BY <1>3 DEF DownOK, OtherHalf, Half
  <2>2. Started(xfer) \in Transfer /\ Started(xfer).at + Started(xfer).left <= SerialTxSize + 1
    BY <2>1 DEF Started, Transfer
  <2> HIDE DEF xfer
  <2> QED BY <1>3, <1>4, <2>1, <2>2 DEF DownOK
<1>8. usb_rx' \in Seq(Down) /\ Len(usb_rx') <= MaxLen
  <2>1. <<>> \in Seq(Down) /\ Len(<<>>) <= MaxLen
    OBVIOUS
  <2> QED BY <1>1, <1>4, <2>1
<1>9. ep_input' \in BOOLEAN /\ serial_txbuf' \in [Half -> [1 .. SerialTxSize -> Down]]
  BY <1>2, <1>4, <1>5 DEF DownOK
<1>10. PlaceOK'
  BY <1>4 DEF PlaceOK, Race
<1>11. UpOK'
  BY <1>4 DEF upvars, UpOK
<1> QED BY <1>6, <1>7, <1>8, <1>9, <1>10, <1>11 DEF DownOK

LEMMA StartType ==
  ASSUME TypeOK, Configure \/ SetLineCoding
  PROVE  TypeOK'
<1> USE DEF TypeOK
<1>1. Restart /\ ep_input' \in BOOLEAN
      /\ UNCHANGED <<serial_rxbuf, ep_output, open, usb_rx, serial_txbuf, serial_txbufidx,
                     serial_txlen, dmaxfer_tx>>
  BY DEF Configure, SetLineCoding, DownOK
<1>2. UpOK' /\ DownOK' /\ uart_running' \in BOOLEAN
  BY <1>1, RestartType
<1>3. PlaceOK'
  BY <1>2 DEF Configure, SetLineCoding, PlaceOK, Race
<1> QED BY <1>2, <1>3

LEMMA TypeInit == Init => TypeOK
<1> SUFFICES ASSUME Init PROVE TypeOK
  OBVIOUS
<1>1. /\ <<>> \in Seq(Up) /\ <<>> \in Seq(Down) /\ Len(<<>>) = 0
      /\ 0 \in Up /\ 0 \in Down
  BY DEF Up, Down
<1>2. up \in Pipe(Up) /\ down \in Pipe(Down)
  <2>1. Empty \in Pipe(Up) /\ Empty \in Pipe(Down)
    BY <1>1 DEF Empty, Pipe
  <2> QED BY <2>1 DEF Init
<1>3. PlaceOK
  <2>1. pc = "idle" /\ dma_write_idx = 0 /\ restarts = 0 /\ race = "none"
    BY DEF Init
  <2>2. uart_running \in BOOLEAN
    BY Zenon DEF Init
  <2> QED BY <2>1, <2>2 DEF PlaceOK, Place, Race
<1>4. UpOK
  <2>1. ep_output = [busy |-> FALSE, data |-> <<>>, send_zero_state |-> 0]
    BY DEF Init
  <2>2. ep_output \in [busy : BOOLEAN, data : Seq(Up), send_zero_state : 0 .. 2]
        /\ Len(ep_output.data) <= MaxLen
    BY <1>1, <2>1
  <2>3. serial_rxbuf \in [0 .. RxSize - 1 -> Up]
    BY <1>1 DEF Init
  <2>4. /\ serial_rxidx = 0 /\ rxdma = 0 /\ usb_tx = <<>>
        /\ ready_to_send = TRUE /\ open = FALSE
    BY DEF Init
  <2> QED BY <1>1, <1>2, <2>2, <2>3, <2>4 DEF UpOK
<1>5. DownOK
  <2>1. serial_txbuf \in [Half -> [1 .. SerialTxSize -> Down]]
    BY <1>1 DEF Init
  <2>2. dmaxfer_tx = [src |-> 0, count |-> 0] /\ txdma = [src |-> 0, at |-> 1, left |-> 0]
    BY DEF Init
  <2>3. /\ dmaxfer_tx \in [src : Half, count : 0 .. SerialTxSize]
        /\ txdma \in Transfer /\ txdma.at + txdma.left <= SerialTxSize + 1
    BY <2>2 DEF Transfer, Half
  <2>4. usb_rx = <<>> /\ serial_txbufidx = 0 /\ serial_txlen = 0
    BY DEF Init
  <2>5. ep_input \in BOOLEAN
    BY Zenon DEF Init
  <2> QED BY <1>1, <1>2, <2>1, <2>3, <2>4, <2>5 DEF DownOK, Half
<1> QED BY <1>3, <1>4, <1>5 DEF TypeOK

LEMMA TypeNext == TypeOK /\ [Next]_vars => TypeOK'
<1> SUFFICES ASSUME TypeOK, [Next]_vars PROVE TypeOK'
  OBVIOUS
<1>1. CASE UNCHANGED vars
  BY <1>1 DEF TypeOK, PlaceOK, UpOK, DownOK, vars, upvars, downvars
<1>2. CASE Step
  BY <1>2, UpType, PlaceType, DownType, OutType, StartType DEF Step, Run
<1> QED BY <1>1, <1>2 DEF Next

\* The type invariant of the module, for buffers and packets of any size.
THEOREM TypeCorrect == Spec => []TypeOK
<1>1. TypeOK /\ [Next]_vars => TypeOK'
  BY TypeNext
<1> QED BY <1>1, TypeInit, PTL DEF Spec

-----------------------------------------------------------------------------
(* The double buffer.  Between the test of the DMA and the flip Run relies   *)
(* on what it has seen: the DMA is idle until it is started, and then reads  *)
(* the half that the flip takes away.  An event in between is a race.        *)

FlushInv ==
  /\ pc \in {"fill", "go"} => ~Active
  /\ pc = "go" => dmaxfer_tx.src = serial_txbufidx
  /\ pc = "flip" => txdma.src = serial_txbufidx
  /\ Active /\ pc # "flip" => txdma.src # serial_txbufidx

HalfInv == Calm => FlushInv

LEMMA HalfInit == Init => HalfInv
BY DEF Init, HalfInv, FlushInv, Active

LEMMA HalfNext == TypeOK /\ HalfInv /\ [Next]_vars => HalfInv'
<1> SUFFICES ASSUME TypeOK, HalfInv, [Next]_vars, Calm'
             PROVE  FlushInv'
  BY DEF HalfInv
<1>1. /\ serial_txbufidx \in {0, 1} /\ txdma.src \in {0, 1} /\ dmaxfer_tx.src \in {0, 1}
      /\ txdma.left \in Nat
  BY DEF TypeOK, DownOK, Transfer, Half
<1>2. CASE UNCHANGED vars
  BY <1>2 DEF HalfInv, Calm, FlushInv, Active, vars, downvars
<1>3. CASE ~UNCHANGED vars
  <2>1. Calm /\ FlushInv /\ Step
    BY <1>3 DEF Next, HalfInv
  <2>2. CASE UartByte \/ CopyByte \/ InEvent
    <3>1. UNCHANGED <<pc, downvars>>
      BY <2>2 DEF UartByte, CopyByte, InEvent
    <3> QED BY <2>1, <3>1 DEF FlushInv, Active, downvars
  <2>3. CASE RunBegin \/ CopyEnd \/ SendTest \/ SendStart \/ SendEnd
    <3>1. UNCHANGED downvars /\ pc \notin {"fill", "go", "flip"} /\ pc' \notin {"fill", "go", "flip"}
      BY <2>3 DEF RunBegin, CopyEnd, SendTest, SendStart, SendEnd
    <3> QED BY <2>1, <3>1 DEF FlushInv, Active, downvars
  <2>4. CASE Move
    <3>1. UNCHANGED <<txdma, serial_txbufidx>> /\ pc = "move" /\ pc' = "flush"
      BY <2>4 DEF Move
    <3> QED BY <2>1, <3>1 DEF FlushInv, Active
  <2>5. CASE FlushTest
    <3>1. UNCHANGED <<txdma, serial_txbufidx>> /\ pc = "flush" /\ pc' \in {"fill", "idle"}
      BY <2>5 DEF FlushTest, downvars
    <3>2. pc' = "fill" => ~Active
      BY <2>5 DEF FlushTest, MayFlush
    <3> QED BY <2>1, <3>1, <3>2 DEF FlushInv, Active
  <2>6. CASE FlushFill
    <3>1. /\ UNCHANGED <<txdma, serial_txbufidx>> /\ pc = "fill" /\ pc' = "go"
          /\ dmaxfer_tx'.src = serial_txbufidx
      BY <2>6 DEF FlushFill
    <3> QED BY <2>1, <3>1 DEF FlushInv, Active
  <2>7. CASE FlushGo
    <3>1. /\ serial_txbufidx' = serial_txbufidx /\ pc = "go" /\ pc' = "flip"
          /\ txdma'.src = dmaxfer_tx.src
      BY <2>7 DEF FlushGo, Started
    <3> QED BY <2>1, <3>1 DEF FlushInv, Active
  <2>8. CASE FlushFlip
    <3>1. /\ serial_txbufidx' = 1 - serial_txbufidx /\ txdma' = txdma
          /\ pc = "flip" /\ pc' = "idle"
      BY <2>8 DEF FlushFlip, OtherHalf
    <3> QED BY <1>1, <2>1, <3>1 DEF FlushInv, Active
  <2>9. CASE TxDma
    <3>1. /\ UNCHANGED <<pc, serial_txbufidx, dmaxfer_tx>> /\ txdma'.src = txdma.src
          /\ Active
      BY <2>9 DEF TxDma, TypeOK, DownOK, Transfer
    <3> QED BY <2>1, <3>1 DEF FlushInv
  <2>10. ASSUME NEW n \in 0 .. MaxLen, OutEvent(n) PROVE FlushInv'
    <3>1. pc \notin {"fill", "go", "flip"} /\ pc' = pc
      BY <2>10 DEF OutEvent, Calm
    <3>2. \/ UNCHANGED <<txdma, serial_txbufidx>>
          \/ serial_txbufidx' = 1 - serial_txbufidx /\ txdma'.src = serial_txbufidx
      BY <2>10 DEF OutEvent, Started, OtherHalf
    <3> QED BY <1>1, <2>1, <3>1, <3>2 DEF FlushInv, Active
  <2>11. CASE Configure \/ SetLineCoding
    <3>1. /\ UNCHANGED <<pc, serial_txbufidx, dmaxfer_tx>>
          /\ txdma'.src = txdma.src /\ txdma'.left = 0
      BY <2>11 DEF Configure, SetLineCoding, Restart, TypeOK, DownOK, Transfer
    <3> QED BY <2>1, <3>1 DEF FlushInv, Active
  <2> QED BY <2>1, <2>2, <2>3, <2>4, <2>5, <2>6, <2>7, <2>8, <2>9, <2>10, <2>11 DEF Step, Run
<1> QED BY <1>2, <1>3

\* What the transmit DMA has yet to read is never in the half that is being filled.
THEOREM HalvesCorrect == Spec => []HalvesApart
<1>1. Init => TypeOK /\ HalfInv
  BY TypeInit, HalfInit
<1>2. TypeOK /\ HalfInv /\ [Next]_vars => TypeOK' /\ HalfInv'
  BY TypeNext, HalfNext
<1>3. HalfInv => HalvesApart
  BY DEF HalfInv, FlushInv, HalvesApart
<1> QED BY <1>1, <1>2, <1>3, PTL DEF Spec

-----------------------------------------------------------------------------
(* The end of a transfer.  While Run may send no packet is on its way; the   *)
(* state of the endpoint says what kind of packet it sends.                  *)

SendInv ==
  /\ pc = "start" => ready_to_send /\ usb_tx # <<>>
  /\ ready_to_send /\ pc # "sent" => ~ep_output.busy
  /\ ep_output.busy => /\ ep_output.send_zero_state = 1 <=> Len(ep_output.data) = MaxLen
                       /\ ep_output.send_zero_state = 2 <=> ep_output.data = <<>>
  /\ open <=> ep_output.busy /\ ep_output.data = <<>>
  /\ pc # "idle" \/ ep_output.busy => uart_running

EndInv == Calm => SendInv

LEMMA EndInit == Init => EndInv
<1> SUFFICES ASSUME Init PROVE SendInv
  BY DEF EndInv
<1>1. ep_output.busy = FALSE /\ open = FALSE /\ pc = "idle"
  BY DEF Init
<1> QED BY <1>1 DEF SendInv

LEMMA EndNext == TypeOK /\ EndInv /\ [Next]_vars => EndInv'
<1> SUFFICES ASSUME TypeOK, EndInv, [Next]_vars, Calm'
             PROVE  SendInv'
  BY DEF EndInv
<1>1. CASE UNCHANGED vars
  BY <1>1 DEF EndInv, Calm, SendInv, vars, upvars
<1>2. CASE ~UNCHANGED vars
  <2>1. Calm /\ SendInv /\ Step
    BY <1>2 DEF Next, EndInv
  <2>2. CASE UartByte \/ TxDma \/ \E n \in 0 .. MaxLen : OutEvent(n)
    <3>1. UNCHANGED <<pc, usb_tx, ready_to_send, ep_output, open, uart_running>>
      BY <2>2 DEF UartByte, TxDma, OutEvent, upvars
    <3> QED BY <2>1, <3>1 DEF SendInv
  <2>3. CASE RunBegin \/ CopyEnd \/ Move \/ FlushTest \/ FlushFill \/ FlushGo \/ FlushFlip
    <3>1. /\ UNCHANGED <<usb_tx, ready_to_send, ep_output, open>>
          /\ pc \notin {"start", "sent"} /\ pc' \notin {"start", "sent"}
          /\ uart_running' = uart_running /\ (pc = "idle" => uart_running)
      BY <2>3 DEF RunBegin, CopyEnd, Move, FlushTest, FlushFill, FlushGo, FlushFlip, upvars
    <3> QED BY <2>1, <3>1 DEF SendInv
  <2>4. CASE CopyByte
    <3>1. UNCHANGED <<pc, ready_to_send, ep_output, open, uart_running>> /\ pc = "copy"
      BY <2>4 DEF CopyByte
    <3> QED BY <2>1, <3>1 DEF SendInv
  <2>5. CASE SendTest
    <3>1. /\ UNCHANGED <<usb_tx, ready_to_send, ep_output, open, uart_running>>
          /\ pc = "send" /\ pc' \in {"start", "move"}
          /\ pc' = "start" => usb_tx # <<>> /\ ready_to_send
      BY <2>5 DEF SendTest, upvars
    <3> QED BY <2>1, <3>1 DEF SendInv
  <2>6. CASE SendStart
    <3> DEFINE n == SendLen(Len(usb_tx))
               d == SubSeq(usb_tx, 1, n)
    <3>1. pc = "start" /\ pc' = "sent" /\ UNCHANGED <<usb_tx, ready_to_send, open, uart_running>>
          /\ ep_output' = [busy |-> TRUE, data |-> d, send_zero_state |-> ZeroState(n)]
      BY <2>6 DEF SendStart
    <3>2. usb_tx # <<>> /\ ~open
      BY <2>1, <3>1 DEF SendInv
    <3>3. usb_tx \in Seq(Up) /\ Len(usb_tx) > 0
      BY <3>2 DEF TypeOK, UpOK
    <3>4. n \in 1 .. Len(usb_tx) /\ n <= MaxLen
      BY <3>3 DEF SendLen
    <3>5. d \in Seq(Up) /\ Len(d) = n
      BY <3>3, <3>4, Parts
    <3> HIDE DEF n, d
    <3>6. d # <<>>
      BY <3>4, <3>5
    <3>7. ZeroState(n) # 2 /\ (ZeroState(n) = 1 <=> n = MaxLen)
      BY DEF ZeroState
    <3>8. /\ ep_output'.busy /\ ep_output'.data = d
          /\ ep_output'.send_zero_state = ZeroState(n)
      BY <3>1
    <3>9. uart_running' /\ ~open'
      <4>1. uart_running
        BY <2>1, <3>1 DEF SendInv
      <4> QED BY <3>1, <3>2, <4>1
    <3> QED BY <3>1, <3>5, <3>6, <3>7, <3>8, <3>9 DEF SendInv
  <2>7. CASE SendEnd
    <3>1. pc = "sent" /\ pc' = "move" /\ ~ready_to_send' /\ UNCHANGED <<ep_output, open, uart_running>>
      BY <2>7 DEF SendEnd
    <3> QED BY <2>1, <3>1 DEF SendInv
  <2>8. CASE InEvent
    <3>1. ep_output.busy /\ UNCHANGED <<pc, usb_tx, uart_running>>
          /\ open' = (Len(ep_output.data) = MaxLen)
      BY <2>8 DEF InEvent
    <3>2. pc # "start" /\ uart_running
      BY <2>1, <3>1 DEF SendInv
    <3>3. pc' # "start" /\ uart_running'
      BY <3>1, <3>2
    <3>4. CASE ep_output.send_zero_state = 1
      <4>1. /\ ep_output' = [busy |-> TRUE, data |-> <<>>, send_zero_state |-> 2]
            /\ ready_to_send' = ready_to_send
        BY <2>8, <3>4 DEF InEvent
      <4>2. /\ ep_output'.busy /\ ep_output'.data = <<>> /\ ep_output'.send_zero_state = 2
        BY <4>1
      <4>3. open'
        BY <2>1, <3>1, <3>4 DEF SendInv
      <4>4. ready_to_send /\ pc # "sent" => FALSE
        BY <2>1, <3>1 DEF SendInv
      <4>5. ready_to_send' /\ pc' # "sent" => FALSE
        BY <3>1, <4>1, <4>4
      <4>6. Len(<<>>) # MaxLen
        OBVIOUS
      <4> QED BY <3>3, <4>2, <4>3, <4>5, <4>6 DEF SendInv
    <3>5. CASE ep_output.send_zero_state # 1
      <4>1. /\ ep_output' = [ep_output EXCEPT !.busy = FALSE, !.data = <<>>]
            /\ pc # "sent"
        BY <2>1, <2>8, <3>5 DEF InEvent, Calm
      <4>2. ~ep_output'.busy
        BY <4>1 DEF TypeOK, UpOK
      <4>3. ~open'
        BY <2>1, <3>1, <3>5 DEF SendInv
      <4> QED BY <3>3, <4>2, <4>3 DEF SendInv
    <3> QED BY <3>4, <3>5
  <2>9. CASE Configure \/ SetLineCoding
    <3>1. /\ UNCHANGED <<pc, ep_output, open>> /\ uart_running'
          /\ ~uart_running \/ (pc = "idle" /\ ~ep_output.busy)
      BY <2>9 DEF Configure, SetLineCoding, Restart, Calm
    <3>2. pc = "idle" /\ ~ep_output.busy
      BY <2>1, <3>1 DEF SendInv
    <3> QED BY <2>1, <3>1, <3>2 DEF SendInv
  <2> QED BY <2>1, <2>2, <2>3, <2>4, <2>5, <2>6, <2>7, <2>8, <2>9 DEF Step, Run
<1> QED BY <1>1, <1>2

\* The host gets an empty packet after a full one, and no other empty packet.
THEOREM TransferEndCorrect == Spec => []TransferEnded
<1>1. Init => TypeOK /\ EndInv
  BY TypeInit, EndInit
<1>2. TypeOK /\ EndInv /\ [Next]_vars => TypeOK' /\ EndInv'
  BY TypeNext, EndNext
<1>3. EndInv => TransferEnded
  BY DEF EndInv, SendInv, TransferEnded
<1> QED BY <1>1, <1>2, <1>3, PTL DEF Spec

-----------------------------------------------------------------------------
(* The bytes, in order: what rises and what it holds. *)

Rising(s) == \A j, k \in 1 .. Len(s) : j < k => s[j] < s[k]

\* s are the bytes up to t that are not lost, in order.
Keeps(t, lost, s) == ToSet(s) = (1 .. t) \ lost /\ Rising(s)

\* The same as a property of the bytes alone.
LEMMA InOrderKeeps ==
  ASSUME NEW p, NEW held
  PROVE  InOrder(p, held) <=> Keeps(p.taken, p.lost, p.given \o held)
BY DEF InOrder, Keeps, Rising

\* The elements of a sequence.
LEMMA SetOf ==
  ASSUME NEW S, NEW s \in Seq(S)
  PROVE  /\ \A x : x \in ToSet(s) <=> \E i \in 1 .. Len(s) : s[i] = x
         /\ \A i \in 1 .. Len(s) : s[i] \in S /\ s[i] \in ToSet(s)
BY DEF ToSet

\* The elements of two sequences together.
LEMMA JoinedSet ==
  ASSUME NEW S, NEW s \in Seq(S), NEW t \in Seq(S)
  PROVE  ToSet(s \o t) = ToSet(s) \cup ToSet(t)
<1>1. /\ Len(s) \in Nat /\ Len(t) \in Nat /\ Len(s \o t) = Len(s) + Len(t)
      /\ \A i \in 1 .. Len(s) + Len(t) : (s \o t)[i] = IF i <= Len(s) THEN s[i] ELSE t[i - Len(s)]
  BY ConcatProperties
<1>2. \A i \in 1 .. Len(s) : (s \o t)[i] = s[i] /\ i \in 1 .. Len(s \o t)
  BY <1>1
<1>3. \A i \in 1 .. Len(t) : (s \o t)[Len(s) + i] = t[i] /\ Len(s) + i \in 1 .. Len(s \o t)
  BY <1>1
<1>4. \A i \in 1 .. Len(s \o t) : i \in 1 .. Len(s) \/ \E k \in 1 .. Len(t) : i = Len(s) + k
  <2> TAKE i \in 1 .. Len(s \o t)
  <2>1. CASE i <= Len(s)
    BY <2>1, <1>1
  <2>2. CASE ~(i <= Len(s))
    <3>1. i - Len(s) \in 1 .. Len(t) /\ i = Len(s) + (i - Len(s))
      BY <2>2, <1>1
    <3> QED BY <3>1
  <2> QED BY <2>1, <2>2
<1>5. ASSUME NEW x PROVE x \in ToSet(s \o t) <=> x \in ToSet(s) \/ x \in ToSet(t)
  <2>1. x \in ToSet(s \o t) <=> \E i \in 1 .. Len(s \o t) : (s \o t)[i] = x
    <3>1. s \o t \in Seq(S)
      OBVIOUS
    <3> QED BY <3>1, SetOf
  <2>2. (x \in ToSet(s) <=> \E i \in 1 .. Len(s) : s[i] = x)
        /\ (x \in ToSet(t) <=> \E i \in 1 .. Len(t) : t[i] = x)
    BY SetOf
  <2> QED BY ONLY <2>1, <2>2, <1>2, <1>3, <1>4, Zenon
<1> QED BY <1>5

\* A part is taken out of the middle.
LEMMA Dropped ==
  ASSUME NEW A \in Seq(Int), NEW B \in Seq(Int), NEW C \in Seq(Int), Rising(A \o (B \o C))
  PROVE  /\ Rising(A \o C)
         /\ ToSet(A \o C) = ToSet(A \o (B \o C)) \ ToSet(B)
<1> DEFINE w == A \o (B \o C)
           a == Len(A)
           b == Len(B)
           c == Len(C)
           f(k) == IF k <= a THEN k ELSE k + b
<1>1. /\ a \in Nat /\ b \in Nat /\ c \in Nat
      /\ B \o C \in Seq(Int) /\ Len(B \o C) = b + c
      /\ \A i \in 1 .. b + c : (B \o C)[i] = IF i <= b THEN B[i] ELSE C[i - b]
  BY ConcatProperties
<1>2. /\ w \in Seq(Int) /\ Len(w) = a + (b + c)
      /\ \A i \in 1 .. a + (b + c) : w[i] = IF i <= a THEN A[i] ELSE (B \o C)[i - a]
  BY <1>1, ConcatProperties
<1>3. /\ A \o C \in Seq(Int) /\ Len(A \o C) = a + c
      /\ \A i \in 1 .. a + c : (A \o C)[i] = IF i <= a THEN A[i] ELSE C[i - a]
  BY <1>1, ConcatProperties
<1>4. \A i \in 1 .. b : w[a + i] = B[i] /\ a + i \in 1 .. Len(w)
  <2> TAKE i \in 1 .. b
  <2>1. a + i \in 1 .. a + (b + c) /\ ~(a + i <= a) /\ a + i - a = i /\ i \in 1 .. b + c /\ i <= b
    BY <1>1
  <2> QED BY <2>1, <1>1, <1>2
<1>5. \A k \in 1 .. a + c : (A \o C)[k] = w[f(k)] /\ f(k) \in 1 .. Len(w)
  <2> TAKE k \in 1 .. a + c
  <2>1. CASE k <= a
    <3>1. f(k) = k /\ k \in 1 .. a + (b + c)
      BY <2>1, <1>1
    <3> QED BY <3>1, <2>1, <1>2, <1>3
  <2>2. CASE ~(k <= a)
    <3>1. /\ f(k) = k + b /\ k + b \in 1 .. a + (b + c) /\ ~(k + b <= a) /\ k + b - a \in 1 .. b + c
          /\ ~(k + b - a <= b) /\ k + b - a - b = k - a
      BY <2>2, <1>1
    <3>2. w[k + b] = C[k - a]
      BY <3>1, <1>1, <1>2
    <3> QED BY <3>1, <3>2, <2>2, <1>2, <1>3
  <2> QED BY <2>1, <2>2
<1>6. Rising(w)
  OBVIOUS
<1> HIDE DEF w
<1>7. Rising(A \o C)
  <2> SUFFICES ASSUME NEW j \in 1 .. a + c, NEW k \in 1 .. a + c, j < k
               PROVE  (A \o C)[j] < (A \o C)[k]
    BY <1>3 DEF Rising
  <2>1. f(j) < f(k)
    BY <1>1
  <2> HIDE DEF f
  <2> QED BY <2>1, <1>5, <1>6 DEF Rising
<1>8. \A i \in 1 .. b, k \in 1 .. a + c : a + i # f(k)
  BY <1>1
<1>9. \A i, k \in 1 .. Len(w) : w[i] = w[k] => i = k
  <2> TAKE i, k \in 1 .. Len(w)
  <2>1. w[i] \in Int /\ w[k] \in Int /\ i \in Int /\ k \in Int
    BY <1>2
  <2>2. (i < k => w[i] < w[k]) /\ (k < i => w[k] < w[i])
    BY <1>6 DEF Rising
  <2> QED BY ONLY <2>1, <2>2
<1>10. ToSet(A \o C) \cap ToSet(B) = {}
  <2> SUFFICES ASSUME NEW k \in 1 .. a + c, NEW i \in 1 .. b PROVE (A \o C)[k] # B[i]
    <3>1. \A x : x \in ToSet(A \o C) <=> \E k \in 1 .. a + c : (A \o C)[k] = x
      <4>1. A \o C \in Seq(Int) /\ Len(A \o C) = a + c
        BY <1>3
      <4>2. \A x : x \in ToSet(A \o C) <=> \E k \in 1 .. Len(A \o C) : (A \o C)[k] = x
        BY <4>1, SetOf, Zenon
      <4> QED BY ONLY <4>1, <4>2, Zenon
    <3>2. \A x : x \in ToSet(B) <=> \E i \in 1 .. b : B[i] = x
      BY SetOf
    <3> QED BY <3>1, <3>2
  <2>1. (A \o C)[k] = w[f(k)] /\ f(k) \in 1 .. Len(w) /\ B[i] = w[a + i] /\ a + i \in 1 .. Len(w)
    BY <1>4, <1>5
  <2>2. a + i # f(k)
    BY <1>8
  <2> QED BY ONLY <2>1, <2>2, <1>9, Zenon
<1>11. ToSet(A \o C) = ToSet(A) \cup ToSet(C) /\ ToSet(w) = ToSet(A) \cup (ToSet(B) \cup ToSet(C))
  <2>1. /\ ToSet(A \o C) = ToSet(A) \cup ToSet(C)
        /\ ToSet(B \o C) = ToSet(B) \cup ToSet(C)
    BY JoinedSet
  <2>2. ToSet(A \o (B \o C)) = ToSet(A) \cup ToSet(B \o C)
    <3>1. B \o C \in Seq(Int) /\ A \in Seq(Int)
      BY <1>1
    <3> DEFINE bc == B \o C
    <3> HIDE DEF bc
    <3>2. bc \in Seq(Int)
      BY <3>1 DEF bc
    <3>3. ToSet(A \o bc) = ToSet(A) \cup ToSet(bc)
      BY <3>1, <3>2, JoinedSet
    <3> QED BY <3>3 DEF bc
  <2> QED BY <2>1, <2>2 DEF w
<1>12. ToSet(A \o C) = ToSet(w) \ ToSet(B)
  BY ONLY <1>10, <1>11
<1> QED BY <1>7, <1>12 DEF w

\* The next n bytes.
Coming(t, n) == [k \in 1 .. n |-> t + k]

\* What comes next is at the end.
LEMMA Pushed ==
  ASSUME NEW t \in Nat, NEW n \in Nat, NEW lost, lost \subseteq 1 .. t, NEW s \in Seq(Int),
         Keeps(t, lost, s)
  PROVE  Coming(t, n) \in Seq(Int) /\ Keeps(t + n, lost, s \o Coming(t, n))
<1> DEFINE data == Coming(t, n)
           w == s \o data
<1>1. data \in Seq(Int) /\ Len(data) = n /\ \A k \in 1 .. n : data[k] = t + k
  BY DEF Coming
<1> HIDE DEF data
<1>2. /\ Len(s) \in Nat /\ Len(w) = Len(s) + n
      /\ \A i \in 1 .. Len(s) + n : w[i] = IF i <= Len(s) THEN s[i] ELSE data[i - Len(s)]
  <2>1. /\ Len(w) = Len(s) + Len(data)
        /\ \A i \in 1 .. Len(s) + Len(data) : w[i] = IF i <= Len(s) THEN s[i] ELSE data[i - Len(s)]
    BY <1>1, ConcatProperties
  <2> HIDE DEF w
  <2> QED BY <2>1, <1>1
<1>3. \A k \in 1 .. Len(s) : s[k] \in 1 .. t
  BY SetOf DEF Keeps
<1>4. \A i \in 1 .. Len(s) : w[i] = s[i]
  BY <1>2
<1>5. \A i \in Len(s) + 1 .. Len(s) + n : w[i] = t + (i - Len(s))
  <2> TAKE i \in Len(s) + 1 .. Len(s) + n
  <2>1. i - Len(s) \in 1 .. n /\ i \in 1 .. Len(s) + n /\ ~(i <= Len(s))
    BY <1>2
  <2> QED BY <2>1, <1>1, <1>2
<1>6. ToSet(data) = t + 1 .. t + n
  <2>1. ToSet(data) = {t + k : k \in 1 .. n}
    <3>1. \A x : x \in ToSet(data) <=> \E k \in 1 .. n : data[k] = x
      BY <1>1, SetOf
    <3> QED BY <3>1, <1>1
  <2>2. \A x \in t + 1 .. t + n : x - t \in 1 .. n /\ t + (x - t) = x
    OBVIOUS
  <2>3. \A k \in 1 .. n : t + k \in t + 1 .. t + n
    OBVIOUS
  <2> QED BY ONLY <2>1, <2>2, <2>3
<1>7. ToSet(w) = ((1 .. t) \ lost) \cup (t + 1 .. t + n)
  BY <1>1, <1>6, JoinedSet DEF Keeps
<1>8. ((1 .. t) \ lost) \cup (t + 1 .. t + n) = (1 .. t + n) \ lost
  OBVIOUS
<1>9. Rising(w)
  <2> SUFFICES ASSUME NEW j \in 1 .. Len(s) + n, NEW k \in 1 .. Len(s) + n, j < k
               PROVE  w[j] < w[k]
    BY <1>2 DEF Rising
  <2> HIDE DEF w
  <2>1. CASE k <= Len(s)
    <3>1. j \in 1 .. Len(s) /\ k \in 1 .. Len(s)
      BY <2>1, <1>2
    <3> QED BY <3>1, <1>4 DEF Keeps, Rising
  <2>2. CASE ~(k <= Len(s)) /\ j <= Len(s)
    <3>1. j \in 1 .. Len(s) /\ k \in Len(s) + 1 .. Len(s) + n
      BY <2>2, <1>2
    <3>2. w[j] \in 1 .. t /\ w[k] = t + (k - Len(s)) /\ k - Len(s) >= 1
      <4>1. w[j] \in 1 .. t
        BY <3>1, <1>3, <1>4
      <4>2. w[k] = t + (k - Len(s))
        BY <3>1, <1>5
      <4> QED BY <4>1, <4>2, <3>1, <1>2
    <3> QED BY ONLY <3>2, t \in Nat, <3>1, <1>2
  <2>3. CASE ~(j <= Len(s))
    <3>1. j \in Len(s) + 1 .. Len(s) + n /\ k \in Len(s) + 1 .. Len(s) + n
      BY <2>3, <1>2
    <3>2. w[j] = t + (j - Len(s)) /\ w[k] = t + (k - Len(s))
      BY <3>1, <1>5
    <3> QED BY ONLY <3>1, <3>2, <1>2, t \in Nat, j < k
  <2> QED BY <2>1, <2>2, <2>3
<1> QED BY <1>1, <1>7, <1>8, <1>9 DEF Keeps, data

-----------------------------------------------------------------------------
(* The circle. *)

\* The k-th index from i on, and how far j is from i.
Around(i, k) == IF i + k - 1 < RxSize THEN i + k - 1 ELSE i + k - 1 - RxSize
Behind(i, j) == IF i <= j THEN j - i ELSE RxSize - i + j

Window(buf, i, j) == [k \in 1 .. Behind(i, j) |-> buf[Around(i, k)]]

\* What Run has yet to copy is the window between its index and that of the DMA.
LEMMA UnreadIs ==
  ASSUME UpOK
  PROVE  Unread = Window(serial_rxbuf, serial_rxidx, rxdma)
<1>1. serial_rxidx \in 0 .. RxSize - 1 /\ rxdma \in 0 .. RxSize - 1
  BY DEF UpOK
<1>2. CASE serial_rxidx <= rxdma
  <2>1. Unread = [k \in 1 .. rxdma - serial_rxidx |-> serial_rxbuf[serial_rxidx + k - 1]]
    BY <1>2 DEF Unread
  <2>2. Behind(serial_rxidx, rxdma) = rxdma - serial_rxidx
    BY <1>2 DEF Behind
  <2>3. \A k \in 1 .. rxdma - serial_rxidx : Around(serial_rxidx, k) = serial_rxidx + k - 1
    BY <1>1 DEF Around
  <2> QED BY ONLY <2>1, <2>2, <2>3 DEF Window
<1>3. CASE ~(serial_rxidx <= rxdma)
  <2>1. Unread = [k \in 1 .. RxSize - serial_rxidx + rxdma |->
                    IF serial_rxidx + k - 1 < RxSize THEN serial_rxbuf[serial_rxidx + k - 1]
                    ELSE serial_rxbuf[serial_rxidx + k - 1 - RxSize]]
    BY <1>3 DEF Unread
  <2>2. Behind(serial_rxidx, rxdma) = RxSize - serial_rxidx + rxdma
    BY <1>3 DEF Behind
  <2>3. \A k \in 1 .. RxSize - serial_rxidx + rxdma :
          serial_rxbuf[Around(serial_rxidx, k)] =
            IF serial_rxidx + k - 1 < RxSize THEN serial_rxbuf[serial_rxidx + k - 1]
            ELSE serial_rxbuf[serial_rxidx + k - 1 - RxSize]
    BY DEF Around
  <2> QED BY ONLY <2>1, <2>2, <2>3 DEF Window
<1> QED BY <1>2, <1>3

\* What the window w holds.
WindowAs(w, S, buf, i, j) ==
  /\ Behind(i, j) \in 0 .. RxSize - 1
  /\ \A k \in 1 .. Behind(i, j) : Around(i, k) \in 0 .. RxSize - 1
  /\ w \in Seq(S) /\ Len(w) = Behind(i, j)
  /\ \A k \in 1 .. Behind(i, j) : w[k] = buf[Around(i, k)]

\* The window is within the circle, and shorter than it.
LEMMA WindowIs ==
  ASSUME NEW S, NEW buf \in [0 .. RxSize - 1 -> S], NEW i \in 0 .. RxSize - 1, NEW j \in 0 .. RxSize - 1
  PROVE  WindowAs(Window(buf, i, j), S, buf, i, j)
<1>1. Behind(i, j) \in 0 .. RxSize - 1
  BY DEF Behind
<1>2. \A k \in 1 .. Behind(i, j) : Around(i, k) \in 0 .. RxSize - 1
  BY DEF Behind, Around
<1>3. \A k \in 1 .. Behind(i, j) : buf[Around(i, k)] \in S
  BY <1>2
<1> QED BY <1>1, <1>2, <1>3 DEF Window, WindowAs

\* A byte comes: the window has one more, if it does not come round.
Grows(S, buf, more, b, i, j) ==
  /\ buf \in [0 .. RxSize - 1 -> S] /\ more \in [0 .. RxSize - 1 -> S] /\ b \in S
  /\ i \in 0 .. RxSize - 1 /\ j \in 0 .. RxSize - 1 /\ NextRxIdx(j) # i
  /\ more[j] = b /\ \A k \in 0 .. RxSize - 1 : k # j => more[k] = buf[k]

LEMMA WindowGrows ==
  ASSUME NEW S, NEW buf, NEW more, NEW b, NEW i, NEW j, Grows(S, buf, more, b, i, j)
  PROVE  /\ Behind(i, NextRxIdx(j)) = Behind(i, j) + 1
         /\ Window(more, i, NextRxIdx(j)) = Append(Window(buf, i, j), b)
<1> DEFINE n == Behind(i, j)
           u == Window(buf, i, j)
           v == Window(more, i, NextRxIdx(j))
<1>0. /\ buf \in [0 .. RxSize - 1 -> S] /\ more \in [0 .. RxSize - 1 -> S] /\ b \in S
      /\ i \in 0 .. RxSize - 1 /\ j \in 0 .. RxSize - 1 /\ NextRxIdx(j) # i
  BY DEF Grows
<1>1. n \in Nat /\ NextRxIdx(j) \in 0 .. RxSize - 1 /\ Behind(i, NextRxIdx(j)) = n + 1
  BY <1>0 DEF Behind, NextRxIdx
<1>2. Around(i, n + 1) = j /\ \A k \in 1 .. n : Around(i, k) # j
  BY <1>0 DEF Behind, Around, NextRxIdx
<1>3. more[j] = b /\ \A k \in 0 .. RxSize - 1 : k # j => more[k] = buf[k]
  BY DEF Grows
<1>4. /\ u \in Seq(S) /\ Len(u) = n /\ \A k \in 1 .. n : Around(i, k) \in 0 .. RxSize - 1
      /\ \A k \in 1 .. n : u[k] = buf[Around(i, k)]
  <2>1. WindowAs(u, S, buf, i, j)
    BY <1>0, WindowIs, Zenon
  <2> HIDE DEF u
  <2> QED BY ONLY <2>1 DEF WindowAs
<1> HIDE DEF u
<1>5. v \in Seq(S) /\ Len(v) = n + 1 /\ \A k \in 1 .. n + 1 : v[k] = more[Around(i, k)]
  <2>1. /\ v \in Seq(S) /\ Len(v) = Behind(i, NextRxIdx(j))
        /\ \A k \in 1 .. Behind(i, NextRxIdx(j)) : v[k] = more[Around(i, k)]
    <3>1. WindowAs(v, S, more, i, NextRxIdx(j))
      BY <1>0, <1>1, WindowIs, Zenon
    <3> HIDE DEF v
    <3> QED BY ONLY <3>1 DEF WindowAs
  <2> QED BY ONLY <1>1, <2>1
<1> HIDE DEF v, n
<1>6. \A k \in 1 .. n : v[k] = u[k]
  BY <1>0, <1>1, <1>2, <1>3, <1>4, <1>5
<1>7. v[n + 1] = b
  BY <1>1, <1>2, <1>3, <1>5
<1>8. Append(u, b) = v
  BY <1>0, <1>1, <1>4, <1>5, <1>6, <1>7
<1> QED BY <1>1, <1>8 DEF u, v, n

\* The first byte is taken.
LEMMA WindowShrinks ==
  ASSUME NEW S, NEW buf \in [0 .. RxSize - 1 -> S],
         NEW i \in 0 .. RxSize - 1, NEW j \in 0 .. RxSize - 1, i # j
  PROVE  /\ Behind(i, j) = Behind(NextRxIdx(i), j) + 1
         /\ Window(buf, i, j) = <<buf[i]>> \o Window(buf, NextRxIdx(i), j)
<1> DEFINE n == Behind(NextRxIdx(i), j)
           u == Window(buf, i, j)
           v == Window(buf, NextRxIdx(i), j)
<1>1. n \in Nat /\ NextRxIdx(i) \in 0 .. RxSize - 1 /\ Behind(i, j) = n + 1
  BY DEF Behind, NextRxIdx
<1>2. Around(i, 1) = i /\ \A k \in 1 .. n : Around(NextRxIdx(i), k) = Around(i, k + 1)
  BY DEF Behind, Around, NextRxIdx
<1>3. u \in Seq(S) /\ Len(u) = n + 1 /\ \A k \in 1 .. n + 1 : u[k] = buf[Around(i, k)]
  <2>1. WindowAs(u, S, buf, i, j)
    BY WindowIs, Zenon
  <2> HIDE DEF u, n
  <2> QED BY ONLY <2>1, <1>1 DEF WindowAs
<1>4. v \in Seq(S) /\ Len(v) = n /\ \A k \in 1 .. n : v[k] = buf[Around(NextRxIdx(i), k)]
  <2>1. WindowAs(v, S, buf, NextRxIdx(i), j)
    BY <1>1, WindowIs, Zenon
  <2> HIDE DEF v
  <2> QED BY ONLY <2>1, <1>1 DEF WindowAs
<1> HIDE DEF u, v, n
<1>5. u[1] = buf[i] /\ \A k \in 1 .. n : u[k + 1] = v[k]
  <2>1. 1 \in 1 .. n + 1 /\ u[1] = buf[i]
    BY <1>1, <1>2, <1>3
  <2>2. \A k \in 1 .. n : k + 1 \in 1 .. n + 1
    BY <1>1
  <2>3. \A k \in 1 .. n : u[k + 1] = buf[Around(i, k + 1)] /\ v[k] = buf[Around(i, k + 1)]
    BY ONLY <1>2, <1>3, <1>4, <2>2
  <2> QED BY ONLY <2>1, <2>3
<1>6. <<buf[i]>> \in Seq(S)
  OBVIOUS
<1>7. <<buf[i]>> \o v = u
  <2> DEFINE w == <<buf[i]>> \o v
  <2>1. w \in Seq(S) /\ Len(w) = n + 1 /\ w[1] = buf[i] /\ \A k \in 2 .. n + 1 : w[k] = v[k - 1]
    BY <1>1, <1>4, <1>6
  <2> HIDE DEF w
  <2>2. \A k \in 1 .. n + 1 : w[k] = u[k]
    <3> TAKE k \in 1 .. n + 1
    <3>1. CASE k = 1
      BY <3>1, <2>1, <1>5
    <3>2. CASE k # 1
      <4>1. k \in 2 .. n + 1 /\ k - 1 \in 1 .. n /\ k - 1 + 1 = k
        BY <3>2, <1>1
      <4> QED BY <4>1, <2>1, <1>5
    <3> QED BY <3>1, <3>2
  <2>3. w = u
    BY <2>1, <2>2, <1>3
  <2> QED BY <2>3 DEF w
<1> QED BY <1>1, <1>7 DEF u, v, n

-----------------------------------------------------------------------------
(* The way up. *)

\* What Run has in its transmit buffer and the endpoint has not.
Pending == IF pc = "sent" THEN <<>> ELSE usb_tx

\* The bytes of a pipe are where they are to be.
Kept(pipe, held) == pipe.lost \subseteq 1 .. pipe.taken /\ InOrder(pipe, held)

UpInv ==
  /\ Kept(up, HeldUp)
  /\ ~ep_output.busy => ep_output.data = <<>>
  /\ pc = "copy" => Behind(serial_rxidx, dma_write_idx) <= Behind(serial_rxidx, rxdma)

\* The bytes on their way up: in the endpoint, in the transmit buffer, in the circle.
LEMMA HeldUpIs == HeldUp = (ep_output.data \o Pending) \o Unread
BY DEF HeldUp, Pending

\* The parts of what is held on the way up are sequences of numbers.
LEMMA UpTyped ==
  ASSUME TypeOK
  PROVE  /\ up.taken \in Nat /\ up.given \in Seq(Int)
         /\ ep_output.data \in Seq(Int) /\ usb_tx \in Seq(Int) /\ Pending \in Seq(Int)
         /\ Unread \in Seq(Int)
         /\ Unread = Window(serial_rxbuf, serial_rxidx, rxdma)
         /\ serial_rxbuf \in [0 .. RxSize - 1 -> Int]
         /\ serial_rxidx \in 0 .. RxSize - 1 /\ rxdma \in 0 .. RxSize - 1
         /\ dma_write_idx \in 0 .. RxSize - 1
<1>1. Up \subseteq Int /\ Up \subseteq Nat
  BY DEF Up
<1>2. Seq(Up) \subseteq Seq(Int)
  BY <1>1, SeqMonotonic
<1>3. /\ serial_rxbuf \in [0 .. RxSize - 1 -> Up]
      /\ serial_rxidx \in 0 .. RxSize - 1 /\ rxdma \in 0 .. RxSize - 1
      /\ dma_write_idx \in 0 .. RxSize - 1
  BY DEF TypeOK, UpOK, PlaceOK
<1>4. serial_rxbuf \in [0 .. RxSize - 1 -> Int]
  BY <1>1, <1>3
<1>5. up \in Pipe(Up) /\ ep_output.data \in Seq(Up) /\ usb_tx \in Seq(Up)
  BY DEF TypeOK, UpOK
<1>6. up.taken \in Up /\ up.given \in Seq(Up)
  BY <1>5, PipeFields
<1>7. Pending \in Seq(Int)
  <2>1. <<>> \in Seq(Int)
    OBVIOUS
  <2> QED BY <1>2, <1>5, <2>1 DEF Pending
<1>8. Unread = Window(serial_rxbuf, serial_rxidx, rxdma)
  BY UnreadIs DEF TypeOK
<1>9. Unread \in Seq(Int)
  <2>1. WindowAs(Window(serial_rxbuf, serial_rxidx, rxdma), Int, serial_rxbuf, serial_rxidx, rxdma)
    BY <1>3, <1>4, WindowIs
  <2> QED BY ONLY <2>1, <1>8 DEF WindowAs
<1> QED BY <1>1, <1>2, <1>3, <1>4, <1>5, <1>6, <1>7, <1>8, <1>9

\* Three sequences of numbers can be joined from either side.
Numbers(a, b, c) == a \in Seq(Int) /\ b \in Seq(Int) /\ c \in Seq(Int)

LEMMA Joins ==
  ASSUME NEW a, NEW b, NEW c, Numbers(a, b, c)
  PROVE  (a \o b) \o c = a \o (b \o c)
BY ConcatAssociative DEF Numbers

\* The empty sequence adds nothing.
LEMMA NoneHeld ==
  ASSUME NEW S, NEW g \in Seq(S)
  PROVE  g \o <<>> = g /\ <<>> \o g = g /\ <<>> \in Seq(S)
BY ConcatEmptySeq

\* Nothing came, nothing is lost and nothing is held.
LEMMA NoneKept ==
  ASSUME NEW p, NEW held, p = Empty, held = <<>>
  PROVE  Kept(p, held)
<1>1. p.taken = 0 /\ p.given = <<>> /\ p.lost = {}
  BY DEF Empty
<1>2. p.given \o held = <<>>
  BY <1>1, NoneHeld
<1>3. ToSet(<<>>) = {} /\ Len(<<>>) = 0
  BY DEF ToSet
<1> QED BY <1>1, <1>2, <1>3 DEF InOrder, Kept

\* A step keeps the bytes where they are, or moves them on.
Moves(p, q, held, hold) ==
  q.taken = p.taken /\ q.lost = p.lost /\ q.given \o hold = p.given \o held

\* Bytes that move on are still in order.
LEMMA MovedKept ==
  ASSUME NEW p, NEW q, NEW held, NEW hold, Moves(p, q, held, hold), Kept(p, held)
  PROVE  Kept(q, hold)
BY InOrderKeeps DEF Kept, Moves

\* A step drops the bytes B from the middle.
Drops(p, q, held, hold, A, B, C) ==
  /\ A \in Seq(Int) /\ B \in Seq(Int) /\ C \in Seq(Int)
  /\ p.given \o held = A \o (B \o C) /\ q.given \o hold = A \o C
  /\ q.taken = p.taken /\ q.lost = p.lost \cup ToSet(B)

\* Without the bytes dropped the others are still in order.
LEMMA DroppedKept ==
  ASSUME NEW p, NEW q, NEW held, NEW hold, NEW A, NEW B, NEW C,
         Drops(p, q, held, hold, A, B, C), Kept(p, held)
  PROVE  Kept(q, hold)
<1> USE DEF Drops
<1>1. ToSet(A \o (B \o C)) = (1 .. p.taken) \ p.lost /\ Rising(A \o (B \o C))
  BY InOrderKeeps DEF Keeps, Kept
<1>2. Rising(A \o C) /\ ToSet(A \o C) = ToSet(A \o (B \o C)) \ ToSet(B)
  BY <1>1, Dropped
<1>3. ToSet(B) \subseteq 1 .. p.taken
  <2>1. B \o C \in Seq(Int)
    OBVIOUS
  <2>2. ToSet(A \o (B \o C)) = ToSet(A) \cup ToSet(B \o C) /\ ToSet(B \o C) = ToSet(B) \cup ToSet(C)
    <3> DEFINE bc == B \o C
    <3>1. A \in Seq(Int) /\ bc \in Seq(Int) /\ ToSet(bc) = ToSet(B) \cup ToSet(C)
      BY <2>1, JoinedSet
    <3> HIDE DEF bc
    <3>2. ToSet(A \o bc) = ToSet(A) \cup ToSet(bc)
      BY ONLY <3>1, JoinedSet
    <3> QED BY <3>1, <3>2 DEF bc
  <2> QED BY <1>1, <2>2
<1>4. Keeps(q.taken, q.lost, A \o C)
  <2>1. q.taken = p.taken /\ q.lost = p.lost \cup ToSet(B)
    OBVIOUS
  <2> QED BY ONLY <1>1, <1>2, <2>1 DEF Keeps
<1>5. InOrder(q, hold)
  BY <1>4, InOrderKeeps
<1> QED BY <1>3, <1>5 DEF Kept

\* A step takes n bytes more.
Takes(p, q, held, hold, n) ==
  /\ n \in Nat /\ p.taken \in Nat /\ p.given \in Seq(Int) /\ held \in Seq(Int)
  /\ q.taken = p.taken + n /\ q.lost = p.lost /\ q.given = p.given
  /\ hold = held \o Coming(p.taken, n)

\* Bytes that come are behind all others.
LEMMA TakenKept ==
  ASSUME NEW p, NEW q, NEW held, NEW hold, NEW n, Takes(p, q, held, hold, n), Kept(p, held)
  PROVE  Kept(q, hold)
<1> DEFINE data == Coming(p.taken, n)
           g == p.given
<1> USE DEF Takes
<1>1. Keeps(p.taken, p.lost, g \o held) /\ g \o held \in Seq(Int)
  BY InOrderKeeps DEF Kept
<1>2. data \in Seq(Int) /\ Keeps(p.taken + n, p.lost, (g \o held) \o data)
  BY <1>1, Pushed DEF Kept
<1>3. (g \o held) \o data = g \o (held \o data)
  <2>1. Numbers(g, held, data)
    BY <1>2 DEF Numbers
  <2> HIDE DEF g, data
  <2> QED BY ONLY <2>1, Joins
<1> HIDE DEF data, g
<1>4. Keeps(q.taken, q.lost, q.given \o hold)
  BY <1>2, <1>3 DEF data, g
<1>5. p.lost \subseteq 1 .. p.taken + n
  BY DEF Kept
<1> QED BY <1>4, <1>5, InOrderKeeps DEF Kept

\* At the start nothing is on its way up.
LEMMA UpInit == Init => UpInv
<1> SUFFICES ASSUME Init PROVE UpInv
  OBVIOUS
<1>1. /\ ep_output = [busy |-> FALSE, data |-> <<>>, send_zero_state |-> 0]
      /\ usb_tx = <<>> /\ serial_rxidx = 0 /\ rxdma = 0 /\ up = Empty /\ pc = "idle"
  BY DEF Init
<1>2. Unread = <<>>
  BY <1>1 DEF Unread
<1>3. HeldUp = <<>>
  BY <1>1, <1>2, NoneHeld DEF HeldUp
<1>4. Kept(up, HeldUp)
  BY <1>1, <1>3, NoneKept
<1>5. ep_output.data = <<>> /\ pc # "copy"
  BY <1>1
<1> QED BY <1>4, <1>5 DEF UpInv

\* A byte of the UART.
LEMMA ByteUp ==
  ASSUME TypeOK, TypeOK', UpInv, UartByte, race' # "overrun"
  PROVE  UpInv'
<1>1. /\ up' = [up EXCEPT !.taken = up.taken + 1]
      /\ serial_rxbuf' = [serial_rxbuf EXCEPT ![rxdma] = up.taken + 1]
      /\ rxdma' = NextRxIdx(rxdma) /\ NextRxIdx(rxdma) # serial_rxidx
      /\ UNCHANGED <<pc, dma_write_idx, serial_rxidx, usb_tx, ep_output>>
  BY DEF UartByte, TypeOK, UpOK, Pipe
<1>2. /\ up'.taken = up.taken + 1 /\ up'.lost = up.lost /\ up'.given = up.given
  BY <1>1 DEF TypeOK, UpOK, Pipe
<1>3. /\ up.taken \in Nat /\ up.given \in Seq(Int)
      /\ ep_output.data \in Seq(Int) /\ Pending \in Seq(Int) /\ Unread \in Seq(Int)
      /\ Unread = Window(serial_rxbuf, serial_rxidx, rxdma)
      /\ serial_rxbuf \in [0 .. RxSize - 1 -> Int]
      /\ serial_rxidx \in 0 .. RxSize - 1 /\ rxdma \in 0 .. RxSize - 1
  BY UpTyped
<1>4. Unread' = Window(serial_rxbuf, serial_rxidx, rxdma)' /\ serial_rxbuf' \in [0 .. RxSize - 1 -> Int]
  <2>1. (TypeOK => /\ Unread = Window(serial_rxbuf, serial_rxidx, rxdma)
                   /\ serial_rxbuf \in [0 .. RxSize - 1 -> Int])'
    BY UpTyped, PTL
  <2> QED BY <2>1
<1>5. /\ Behind(serial_rxidx, rxdma') = Behind(serial_rxidx, rxdma) + 1
      /\ Window(serial_rxbuf', serial_rxidx, rxdma') = Append(Window(serial_rxbuf, serial_rxidx, rxdma), up.taken + 1)
  <2>1. Grows(Int, serial_rxbuf, serial_rxbuf', up.taken + 1, serial_rxidx, rxdma)
    BY <1>1, <1>3, <1>4 DEF Grows
  <2>2. /\ Behind(serial_rxidx, NextRxIdx(rxdma)) = Behind(serial_rxidx, rxdma) + 1
        /\ Window(serial_rxbuf', serial_rxidx, NextRxIdx(rxdma)) = Append(Window(serial_rxbuf, serial_rxidx, rxdma), up.taken + 1)
    BY ONLY <2>1, WindowGrows
  <2> QED BY <2>2, <1>1
<1>6. Unread' = Append(Unread, up.taken + 1)
  BY <1>1, <1>3, <1>4, <1>5
<1>7. HeldUp' = HeldUp \o Coming(up.taken, 1)
  <2> DEFINE d == ep_output.data
             b == Coming(up.taken, 1)
             dp == d \o Pending
             u == Unread
  <2>1. dp \in Seq(Int) /\ u \in Seq(Int) /\ b \in Seq(Int) /\ Len(b) = 1 /\ b[1] = up.taken + 1
    BY <1>3 DEF Coming
  <2>2. Append(u, up.taken + 1) = u \o b
    <3>1. b = <<up.taken + 1>>
      BY <1>3 DEF Coming
    <3> HIDE DEF b, u
    <3> DEFINE e == up.taken + 1
    <3>2. e \in Int
      BY <1>3
    <3> HIDE DEF e
    <3>3. Append(u, e) = u \o <<e>>
      BY ONLY <2>1, <3>2, AppendIsConcat
    <3> QED BY <3>1, <3>3 DEF e
  <2>3. HeldUp = dp \o u
    BY HeldUpIs
  <2>4. HeldUp' = dp \o Append(u, up.taken + 1)
    <3>1. HeldUp' = (ep_output.data' \o Pending') \o Unread'
      BY DEF HeldUp, Pending
    <3>2. Pending' = Pending
      BY <1>1 DEF Pending
    <3> QED BY <3>1, <3>2, <1>1, <1>6
  <2> HIDE DEF dp, u, b
  <2>5. (dp \o u) \o b = dp \o (u \o b)
    <3>1. Numbers(dp, u, b)
      BY <2>1 DEF Numbers
    <3> QED BY ONLY <3>1, Joins
  <2> QED BY <2>2, <2>3, <2>4, <2>5 DEF b
<1>8. HeldUp \in Seq(Int)
  BY <1>3, HeldUpIs
<1>9. Kept(up', HeldUp')
  <2>1. Takes(up, up', HeldUp, HeldUp', 1)
    BY <1>2, <1>3, <1>7, <1>8 DEF Takes
  <2>2. Kept(up, HeldUp)
    BY DEF UpInv
  <2> QED BY ONLY <2>1, <2>2, TakenKept, Zenon
<1>10. pc' = "copy" => Behind(serial_rxidx', dma_write_idx') <= Behind(serial_rxidx', rxdma')
  <2>1. /\ Behind(serial_rxidx, rxdma) \in Int /\ Behind(serial_rxidx, dma_write_idx) \in Int
    <3>1. serial_rxidx \in Int /\ rxdma \in Int /\ dma_write_idx \in Int /\ RxSize \in Int
      BY UpTyped
    <3> QED BY ONLY <3>1 DEF Behind
  <2> QED BY <2>1, <1>1, <1>5 DEF UpInv
<1> QED BY <1>1, <1>9, <1>10 DEF UpInv

\* The parts of what is held, before and after a step.
LEMMA UpTypedNext ==
  ASSUME TypeOK'
  PROVE  /\ up.given' \in Seq(Int)
         /\ ep_output.data' \in Seq(Int) /\ usb_tx' \in Seq(Int) /\ Pending' \in Seq(Int)
         /\ Unread' \in Seq(Int)
         /\ Unread' = Window(serial_rxbuf', serial_rxidx', rxdma')
         /\ HeldUp' = (ep_output.data' \o Pending') \o Unread'
<1>1. (TypeOK => /\ up.given \in Seq(Int)
                 /\ ep_output.data \in Seq(Int) /\ usb_tx \in Seq(Int) /\ Pending \in Seq(Int)
                 /\ Unread \in Seq(Int)
                 /\ Unread = Window(serial_rxbuf, serial_rxidx, rxdma))'
  BY UpTyped, PTL
<1>2. HeldUp' = (ep_output.data' \o Pending') \o Unread'
  BY DEF HeldUp, Pending
<1> QED BY <1>1, <1>2

\* Run copies a byte.
LEMMA CopyUp ==
  ASSUME TypeOK, TypeOK', UpInv, CopyByte
  PROVE  UpInv'
<1>1. /\ pc = "copy" /\ pc' = "copy" /\ dma_write_idx # serial_rxidx
      /\ usb_tx' = Append(usb_tx, serial_rxbuf[serial_rxidx])
      /\ serial_rxidx' = NextRxIdx(serial_rxidx)
      /\ UNCHANGED <<dma_write_idx, serial_rxbuf, rxdma, ep_output, up>>
  BY DEF CopyByte
<1>2. /\ up.given \in Seq(Int) /\ ep_output.data \in Seq(Int) /\ usb_tx \in Seq(Int)
      /\ serial_rxbuf \in [0 .. RxSize - 1 -> Int]
      /\ serial_rxidx \in 0 .. RxSize - 1 /\ rxdma \in 0 .. RxSize - 1
      /\ dma_write_idx \in 0 .. RxSize - 1
      /\ Unread = Window(serial_rxbuf, serial_rxidx, rxdma)
  BY UpTyped
<1>3. /\ Behind(serial_rxidx, dma_write_idx) <= Behind(serial_rxidx, rxdma)
  BY <1>1 DEF UpInv
<1>4. serial_rxidx # rxdma
  <2>1. CASE serial_rxidx = rxdma
    <3>1. Behind(serial_rxidx, rxdma) = 0
      BY <2>1, <1>2 DEF Behind
    <3>2. Behind(serial_rxidx, dma_write_idx) > 0
      BY <1>1, <1>2 DEF Behind
    <3>3. Behind(serial_rxidx, dma_write_idx) \in Int
      <4>1. serial_rxidx \in Int /\ dma_write_idx \in Int /\ RxSize \in Int
        BY <1>2
      <4> QED BY ONLY <4>1 DEF Behind
    <3> QED BY ONLY <3>1, <3>2, <3>3, <1>3
  <2> QED BY <2>1
<1>5. /\ Behind(serial_rxidx, rxdma) = Behind(NextRxIdx(serial_rxidx), rxdma) + 1
      /\ Window(serial_rxbuf, serial_rxidx, rxdma)
           = <<serial_rxbuf[serial_rxidx]>> \o Window(serial_rxbuf, NextRxIdx(serial_rxidx), rxdma)
  BY <1>2, <1>4, WindowShrinks
<1>6. Behind(serial_rxidx, dma_write_idx) = Behind(NextRxIdx(serial_rxidx), dma_write_idx) + 1
  BY <1>1, <1>2 DEF Behind, NextRxIdx
<1>7. /\ Unread' \in Seq(Int) /\ Unread' = Window(serial_rxbuf, NextRxIdx(serial_rxidx), rxdma)
      /\ HeldUp' = (ep_output.data \o Pending') \o Unread'
  BY <1>1, UpTypedNext
<1>8. Pending = usb_tx /\ Pending' = Append(usb_tx, serial_rxbuf[serial_rxidx])
  BY <1>1 DEF Pending
<1>9. HeldUp' = HeldUp
  <2> DEFINE d == ep_output.data
             t == usb_tx
             b == serial_rxbuf[serial_rxidx]
             u == Unread'
  <2>1. d \in Seq(Int) /\ t \in Seq(Int) /\ b \in Int /\ u \in Seq(Int) /\ <<b>> \in Seq(Int)
        /\ d \o t \in Seq(Int)
    BY <1>2, <1>7
  <2>2. HeldUp = (d \o t) \o (<<b>> \o u) /\ HeldUp' = (d \o Append(t, b)) \o u
    BY <1>2, <1>5, <1>7, <1>8, HeldUpIs
  <2> HIDE DEF d, t, b, u
  <2>3. Append(t, b) = t \o <<b>>
    BY ONLY <2>1, AppendIsConcat
  <2>4. (d \o t) \o <<b>> = d \o (t \o <<b>>)
    <3>1. Numbers(d, t, <<b>>)
      BY <2>1 DEF Numbers
    <3> QED BY ONLY <3>1, Joins
  <2>5. ((d \o t) \o <<b>>) \o u = (d \o t) \o (<<b>> \o u)
    <3>1. Numbers(d \o t, <<b>>, u)
      BY <2>1 DEF Numbers
    <3> QED BY ONLY <3>1, Joins
  <2> QED BY <2>2, <2>3, <2>4, <2>5
<1>10. Behind(serial_rxidx', dma_write_idx') <= Behind(serial_rxidx', rxdma')
  <2>1. Behind(NextRxIdx(serial_rxidx), dma_write_idx) \in Int
        /\ Behind(NextRxIdx(serial_rxidx), rxdma) \in Int
    <3>1. NextRxIdx(serial_rxidx) \in Int /\ dma_write_idx \in Int /\ rxdma \in Int /\ RxSize \in Int
      BY <1>2, NextRxIdxType
    <3> QED BY ONLY <3>1 DEF Behind
  <2> QED BY <2>1, <1>1, <1>3, <1>5, <1>6
<1> QED BY <1>1, <1>9, <1>10 DEF UpInv

\* A sequence is what comes before a place and what comes after.
LEMMA SplitAt ==
  ASSUME NEW S, NEW s \in Seq(S), NEW n \in 0 .. Len(s)
  PROVE  SubSeq(s, 1, n) \o SubSeq(s, n + 1, Len(s)) = s
<1> DEFINE a == SubSeq(s, 1, n)
           b == SubSeq(s, n + 1, Len(s))
           m == Len(s)
<1>1. m \in Nat /\ n \in Nat /\ n <= m
  OBVIOUS
<1>2. a \in Seq(S) /\ Len(a) = n /\ \A i \in 1 .. n : a[i] = s[i]
  <2>1. \A i \in 1 .. n : s[i] \in S
    OBVIOUS
  <2> QED BY <2>1, SubSeqProperties
<1>3. b \in Seq(S) /\ Len(b) = m - n /\ \A i \in 1 .. m - n : b[i] = s[n + i]
  <2>1. \A i \in n + 1 .. m : s[i] \in S
    OBVIOUS
  <2>2. /\ SubSeq(s, n + 1, m) \in Seq(S)
        /\ Len(SubSeq(s, n + 1, m)) = IF n + 1 <= m THEN m - (n + 1) + 1 ELSE 0
        /\ \A i \in 1 .. m - (n + 1) + 1 : SubSeq(s, n + 1, m)[i] = s[n + 1 + i - 1]
    <3>1. n + 1 \in Int /\ m \in Int
      BY <1>1
    <3> HIDE DEF m
    <3> QED BY ONLY <3>1, <2>1, s \in Seq(S), SubSeqProperties
  <2>3. /\ m - (n + 1) + 1 = m - n /\ (~(n + 1 <= m) => m - n = 0)
        /\ \A i \in 1 .. m - n : n + 1 + i - 1 = n + i
    BY <1>1
  <2> DEFINE sub == SubSeq(s, n + 1, m)
  <2>4. sub \in Seq(S) /\ Len(sub) = m - n /\ \A i \in 1 .. m - n : sub[i] = s[n + 1 + i - 1]
    BY <2>2, <2>3, <1>1
  <2>5. \A i \in 1 .. m - n : sub[i] = s[n + i]
    <3> HIDE DEF sub
    <3> QED BY ONLY <2>3, <2>4
  <2> QED BY <2>4, <2>5
<1> HIDE DEF a, b
<1>4. /\ a \o b \in Seq(S) /\ Len(a \o b) = m
      /\ \A i \in 1 .. m : (a \o b)[i] = IF i <= n THEN a[i] ELSE b[i - n]
  BY <1>1, <1>2, <1>3, ConcatProperties
<1>5. \A i \in 1 .. m : (a \o b)[i] = s[i]
  <2> TAKE i \in 1 .. m
  <2>1. CASE i <= n
    BY <2>1, <1>2, <1>4
  <2>2. CASE ~(i <= n)
    <3>1. i - n \in 1 .. m - n /\ n + (i - n) = i
      BY <2>2, <1>1
    <3> QED BY <2>2, <3>1, <1>3, <1>4
  <2> QED BY <2>1, <2>2
<1>6. a \o b = s
  <2> DEFINE w == a \o b
  <2>1. w \in Seq(S) /\ s \in Seq(S) /\ Len(w) = Len(s) /\ \A i \in 1 .. Len(s) : w[i] = s[i]
    BY <1>4, <1>5
  <2> HIDE DEF w
  <2>2. w = s
    BY ONLY <2>1, SeqEqual
  <2> QED BY <2>2 DEF w
<1> QED BY <1>6 DEF a, b

\* The endpoint copies the packet; what does not fit into it is lost.
LEMMA StartUp ==
  ASSUME TypeOK, TypeOK', UpInv, SendInv, SendStart
  PROVE  UpInv'
<1> DEFINE n == SendLen(Len(usb_tx))
           D == SubSeq(usb_tx, 1, n)
           R == SubSeq(usb_tx, n + 1, Len(usb_tx))
<1>1. /\ pc = "start" /\ pc' = "sent"
      /\ ep_output' = [busy |-> TRUE, data |-> D, send_zero_state |-> ZeroState(n)]
      /\ up' = [up EXCEPT !.lost = up.lost \cup ToSet(R)]
      /\ UNCHANGED <<serial_rxbuf, serial_rxidx, rxdma>>
  BY DEF SendStart, TypeOK, UpOK, Pipe
<1>2. /\ up.given \in Seq(Int) /\ usb_tx \in Seq(Int) /\ Unread \in Seq(Int)
      /\ Unread = Window(serial_rxbuf, serial_rxidx, rxdma)
  BY UpTyped
<1>3. ep_output.data = <<>>
  BY <1>1 DEF SendInv, UpInv
<1>4. n \in 0 .. Len(usb_tx) /\ Len(usb_tx) \in Nat
  BY <1>2 DEF SendLen
<1> HIDE DEF n
<1>5. D \in Seq(Int) /\ R \in Seq(Int) /\ D \o R = usb_tx
  <2>1. D \o R = usb_tx
    BY <1>2, <1>4, SplitAt
  <2>2. D \in Seq(Int)
    BY <1>2, <1>4, Parts
  <2>3. R \in Seq(Int)
    <3>1. \A i \in n + 1 .. Len(usb_tx) : usb_tx[i] \in Int
      BY <1>2, <1>4
    <3> QED BY <1>2, <1>4, <3>1, SubSeqProperties
  <2> QED BY <2>1, <2>2, <2>3
<1> HIDE DEF D, R
<1>6. Unread' = Unread /\ HeldUp' = (D \o <<>>) \o Unread
  BY <1>1, <1>2, UpTypedNext DEF Pending
<1>7. HeldUp = (<<>> \o usb_tx) \o Unread
  BY <1>1, <1>3, HeldUpIs DEF Pending
<1>8. /\ up'.taken = up.taken /\ up'.given = up.given /\ up'.lost = up.lost \cup ToSet(R)
  BY <1>1 DEF TypeOK, UpOK, Pipe
<1>9. Drops(up, up', HeldUp, HeldUp', up.given \o D, R, Unread)
  <2> DEFINE g == up.given
             u == Unread
  <2>1. g \in Seq(Int) /\ u \in Seq(Int) /\ g \o D \in Seq(Int)
    BY <1>2, <1>5
  <2>2. HeldUp = (D \o R) \o u /\ HeldUp' = D \o u
    BY <1>2, <1>5, <1>6, <1>7, NoneHeld
  <2>3. g \o ((D \o R) \o u) = (g \o D) \o (R \o u) /\ g \o (D \o u) = (g \o D) \o u
    <3> HIDE DEF g, u
    <3>0. g \in Seq(Int) /\ D \in Seq(Int) /\ R \in Seq(Int) /\ u \in Seq(Int)
      BY <2>1, <1>5
    <3>1. g \o ((D \o R) \o u) = (g \o D) \o (R \o u)
      <4>1. Numbers(D, R, u) /\ Numbers(g, D, R \o u)
        BY <3>0 DEF Numbers
      <4>2. (D \o R) \o u = D \o (R \o u)
        BY ONLY <4>1, Joins
      <4>3. (g \o D) \o (R \o u) = g \o (D \o (R \o u))
        BY ONLY <4>1, Joins
      <4> QED BY ONLY <4>2, <4>3
    <3>2. (g \o D) \o u = g \o (D \o u)
      <4>1. Numbers(g, D, u)
        BY <3>0 DEF Numbers
      <4> QED BY ONLY <4>1, Joins
    <3> QED BY <3>1, <3>2
  <2> QED BY <2>1, <2>2, <2>3, <1>5, <1>8 DEF Drops
<1>10. Kept(up', HeldUp')
  <2>1. Kept(up, HeldUp)
    BY DEF UpInv
  <2> QED BY ONLY <2>1, <1>9, DroppedKept
<1>11. ep_output'.busy /\ pc' # "copy"
  BY <1>1
<1> QED BY <1>10, <1>11 DEF UpInv

\* What is held stays where it is.
LEMMA SameUp ==
  ASSUME UpInv, HeldUp' = HeldUp, UNCHANGED <<up, ep_output>>,
         pc' = "copy" => Behind(serial_rxidx', dma_write_idx') <= Behind(serial_rxidx', rxdma')
  PROVE  UpInv'
BY DEF UpInv

\* A step that leaves the way up alone.
LEMMA RestUp ==
  ASSUME TypeOK, UpInv, UNCHANGED upvars,
         \/ UNCHANGED <<pc, dma_write_idx>>
         \/ pc # "sent" /\ pc' # "sent" /\ (pc' = "copy" => dma_write_idx' = rxdma)
  PROVE  UpInv'
<1>1. UNCHANGED <<serial_rxbuf, serial_rxidx, rxdma, usb_tx, ep_output, up>>
  BY DEF upvars
<1>2. Unread' = Unread
  BY <1>1 DEF Unread
<1>3. Pending' = Pending
  BY <1>1 DEF Pending
<1>4. HeldUp' = HeldUp
  <2>1. HeldUp' = (ep_output.data' \o Pending') \o Unread'
    BY DEF HeldUp, Pending
  <2> QED BY <2>1, <1>1, <1>2, <1>3, HeldUpIs
<1>5. pc' = "copy" => Behind(serial_rxidx', dma_write_idx') <= Behind(serial_rxidx', rxdma')
  <2>1. CASE UNCHANGED <<pc, dma_write_idx>>
    BY <2>1, <1>1 DEF UpInv
  <2>2. CASE pc' = "copy" => dma_write_idx' = rxdma
    <3>1. Behind(serial_rxidx, rxdma) \in Int
      <4>1. serial_rxidx \in Int /\ rxdma \in Int /\ RxSize \in Int
        BY UpTyped
      <4> QED BY ONLY <4>1 DEF Behind
    <3> QED BY <3>1, <2>2, <1>1
  <2> QED BY <2>1, <2>2
<1> QED BY <1>1, <1>4, <1>5, SameUp

\* Run knows that the packet is on its way.
LEMMA EndUp ==
  ASSUME TypeOK, UpInv, SendEnd
  PROVE  UpInv'
<1>1. /\ pc = "sent" /\ pc' = "move"
      /\ UNCHANGED <<serial_rxbuf, serial_rxidx, rxdma, ep_output, up>>
      /\ usb_tx' = <<>>
  BY DEF SendEnd
<1>2. Unread' = Unread
  BY <1>1 DEF Unread
<1>3. Pending = <<>> /\ Pending' = <<>>
  BY <1>1 DEF Pending
<1>4. HeldUp' = HeldUp
  <2>1. HeldUp' = (ep_output.data' \o Pending') \o Unread'
    BY DEF HeldUp, Pending
  <2> QED BY <2>1, <1>1, <1>2, <1>3, HeldUpIs
<1> QED BY <1>1, <1>4, SameUp

\* The host takes the packet.
LEMMA InUp ==
  ASSUME TypeOK, UpInv, InEvent
  PROVE  UpInv'
<1>1. /\ up' = [up EXCEPT !.given = up.given \o ep_output.data]
      /\ ep_output'.data = <<>>
      /\ UNCHANGED <<pc, dma_write_idx, serial_rxbuf, serial_rxidx, rxdma, usb_tx>>
  <2>1. /\ up' = [up EXCEPT !.given = up.given \o ep_output.data]
        /\ UNCHANGED <<pc, dma_write_idx, serial_rxbuf, serial_rxidx, rxdma, usb_tx>>
    BY DEF InEvent, TypeOK, UpOK, Pipe
  <2>2. CASE ep_output.send_zero_state = 1
    BY <2>1, <2>2 DEF InEvent
  <2>3. CASE ~(ep_output.send_zero_state = 1)
    <3>1. ep_output' = [ep_output EXCEPT !.busy = FALSE, !.data = <<>>]
      BY <2>3 DEF InEvent
    <3>2. ep_output \in [busy : BOOLEAN, data : Seq(Up), send_zero_state : 0 .. 2]
      BY DEF TypeOK, UpOK
    <3>3. ep_output' = [busy |-> FALSE, data |-> <<>>,
                        send_zero_state |-> ep_output.send_zero_state]
      BY <3>1, <3>2
    <3> QED BY <2>1, <3>3
  <2> QED BY <2>1, <2>2, <2>3
<1>2. up'.taken = up.taken /\ up'.lost = up.lost /\ up'.given = up.given \o ep_output.data
  BY <1>1 DEF TypeOK, UpOK, Pipe
<1>3. /\ up.given \in Seq(Int) /\ ep_output.data \in Seq(Int) /\ Pending \in Seq(Int)
      /\ Unread \in Seq(Int)
  BY UpTyped
<1>4. Unread' = Unread /\ Pending' = Pending
  BY <1>1 DEF Unread, Pending
<1>5. HeldUp' = Pending \o Unread
  <2>1. HeldUp' = (ep_output'.data \o Pending') \o Unread'
    BY DEF HeldUp, Pending
  <2> QED BY <2>1, <1>1, <1>3, <1>4, NoneHeld
<1>6. Moves(up, up', HeldUp, HeldUp')
  <2> DEFINE g == up.given
             d == ep_output.data
             t == Pending
             u == Unread
  <2>1. g \in Seq(Int) /\ d \in Seq(Int) /\ t \in Seq(Int) /\ u \in Seq(Int)
    BY <1>3
  <2>2. HeldUp = (d \o t) \o u /\ HeldUp' = t \o u /\ up'.given = g \o d
    BY <1>2, <1>5, HeldUpIs
  <2> HIDE DEF g, d, t, u
  <2>3. Numbers(d, t, u) /\ Numbers(g, d, t \o u)
    BY <2>1 DEF Numbers
  <2>4. (d \o t) \o u = d \o (t \o u)
    BY ONLY <2>3, Joins
  <2>5. (g \o d) \o (t \o u) = g \o (d \o (t \o u))
    BY ONLY <2>3, Joins
  <2>6. up'.given \o HeldUp' = up.given \o HeldUp
    BY ONLY <2>2, <2>4, <2>5 DEF g
  <2> QED BY <2>6, <1>2 DEF Moves
<1>7. Kept(up', HeldUp')
  <2>1. Kept(up, HeldUp)
    BY DEF UpInv
  <2> QED BY ONLY <2>1, <1>6, MovedKept
<1> QED BY <1>1, <1>7 DEF UpInv

\* The UART starts or starts anew between two calls of Run.
LEMMA RestartUp ==
  ASSUME TypeOK, TypeOK', UpInv, Restart, UNCHANGED <<pc, serial_rxbuf, ep_output>>,
         pc = "idle", ~ep_output.busy
  PROVE  UpInv'
<1>1. /\ usb_tx' = <<>> /\ serial_rxidx' = 0 /\ rxdma' = 0
      /\ up' = [up EXCEPT !.lost = up.lost \cup ToSet(Unread) \cup ToSet(usb_tx)]
  BY DEF Restart, TypeOK, UpOK, Pipe
<1>2. /\ up'.taken = up.taken /\ up'.given = up.given
      /\ up'.lost = up.lost \cup ToSet(Unread) \cup ToSet(usb_tx)
  BY <1>1 DEF TypeOK, UpOK, Pipe
<1>3. ep_output.data = <<>> /\ ep_output'.data = <<>>
  BY DEF UpInv
<1>4. up.given \in Seq(Int) /\ usb_tx \in Seq(Int) /\ Unread \in Seq(Int)
  BY UpTyped
<1>5. Pending = usb_tx /\ Pending' = <<>>
  BY <1>1 DEF Pending
<1>6. Unread' = <<>>
  BY <1>1 DEF Unread
<1>7. HeldUp = usb_tx \o Unread
  BY <1>3, <1>4, <1>5, HeldUpIs, NoneHeld
<1>8. HeldUp' = <<>>
  <2>1. HeldUp' = (ep_output'.data \o Pending') \o Unread'
    BY DEF HeldUp, Pending
  <2>2. <<>> \o <<>> = <<>>
    BY NoneHeld
  <2> QED BY ONLY <2>1, <2>2, <1>3, <1>5, <1>6
<1>9. Drops(up, up', HeldUp, HeldUp', up.given, usb_tx \o Unread, <<>>)
  <2>1. ToSet(usb_tx \o Unread) = ToSet(usb_tx) \cup ToSet(Unread)
    BY <1>4, JoinedSet
  <2>2. usb_tx \o Unread \in Seq(Int)
    BY <1>4
  <2>3. (usb_tx \o Unread) \o <<>> = usb_tx \o Unread /\ <<>> \in Seq(Int)
    BY <2>2, NoneHeld
  <2> QED BY <2>1, <2>2, <2>3, <1>2, <1>4, <1>7, <1>8 DEF Drops
<1>10. Kept(up', HeldUp')
  <2>1. Kept(up, HeldUp)
    BY DEF UpInv
  <2> QED BY ONLY <2>1, <1>9, DroppedKept
<1> QED BY <1>3, <1>10 DEF UpInv

\* No step before the first race disturbs the order on the way up.
LEMMA UpNext ==
  ASSUME TypeOK, TypeOK', SendInv, UpInv, Step, Calm'
  PROVE  UpInv'
<1>1. CASE UartByte
  <2>1. race' # "overrun"
    BY DEF Calm
  <2> QED BY <1>1, <2>1, ByteUp
<1>2. CASE CopyByte
  BY <1>2, CopyUp
<1>3. CASE SendStart
  BY <1>3, StartUp
<1>4. CASE SendEnd
  BY <1>4, EndUp
<1>5. CASE InEvent
  BY <1>5, InUp
<1>6. CASE RunBegin \/ CopyEnd \/ SendTest \/ Move \/ FlushTest \/ FlushFill \/ FlushGo \/ FlushFlip
  <2>1. UNCHANGED upvars
    BY <1>6 DEF RunBegin, CopyEnd, SendTest, Move, FlushTest, FlushFill, FlushGo, FlushFlip
  <2>2. pc # "sent" /\ pc' # "sent" /\ (pc' = "copy" => dma_write_idx' = rxdma)
    BY <1>6 DEF RunBegin, CopyEnd, SendTest, Move, FlushTest, FlushFill, FlushGo, FlushFlip
  <2> QED BY <2>1, <2>2, RestUp
<1>7. CASE TxDma \/ \E n \in 0 .. MaxLen : OutEvent(n)
  <2>1. UNCHANGED upvars /\ UNCHANGED <<pc, dma_write_idx>>
    BY <1>7 DEF TxDma, OutEvent
  <2> QED BY <2>1, RestUp
<1>8. CASE Configure \/ SetLineCoding
  <2>1. Restart /\ UNCHANGED <<pc, serial_rxbuf, ep_output>>
    BY <1>8 DEF Configure, SetLineCoding
  <2>2. pc = "idle" /\ ~ep_output.busy
    <3>1. CASE Configure
      BY <3>1 DEF Configure, SendInv
    <3>2. CASE SetLineCoding
      BY <3>2 DEF SetLineCoding, Calm
    <3> QED BY <1>8, <3>1, <3>2
  <2> QED BY <2>1, <2>2, RestartUp
<1> QED BY <1>1, <1>2, <1>3, <1>4, <1>5, <1>6, <1>7, <1>8 DEF Step, Run

-----------------------------------------------------------------------------
(* The way down. *)

\* What the transmit DMA has yet to read of a transfer, and what a half holds.
Rest(buf, dma) == [k \in 1 .. dma.left |-> buf[dma.src][dma.at + k - 1]]
InHalf(buf, h, n) == SubSeq(buf[h], 1, n)

\* What waits in the half that is filled: none of it once the DMA has been started.
Filling == IF pc = "flip" THEN <<>> ELSE InHalf(serial_txbuf, serial_txbufidx, serial_txlen)

DownInv ==
  /\ Kept(down, HeldDown)
  /\ ep_input \/ ~uart_running => usb_rx = <<>>
  /\ ep_input => uart_running
  /\ pc = "go" => dmaxfer_tx.count = serial_txlen

\* The bytes on their way down: what the DMA reads, what is filled, what waits.
LEMMA HeldDownIs == HeldDown = (Rest(serial_txbuf, txdma) \o Filling) \o usb_rx
BY DEF HeldDown, Rest, Filling, InHalf

Buffers == [Half -> [1 .. SerialTxSize -> Down]]

\* The bytes that go down are numbers.
LEMMA DownInts == Down \subseteq Int /\ Seq(Down) \subseteq Seq(Int)
<1>1. Down \subseteq Int
  BY DEF Down
<1> QED BY <1>1, SeqMonotonic

\* What the rest of a transfer holds.
RestAs(w, buf, dma) ==
  /\ w \in Seq(Int) /\ Len(w) = dma.left
  /\ \A k \in 1 .. dma.left : w[k] = buf[dma.src][dma.at + k - 1]

\* What is left of a transfer lies within its half.
LEMMA RestIs ==
  ASSUME NEW buf \in Buffers, NEW dma \in Transfer, dma.at + dma.left <= SerialTxSize + 1
  PROVE  RestAs(Rest(buf, dma), buf, dma)
<1>1. dma.src \in Half /\ dma.at \in 1 .. SerialTxSize + 1 /\ dma.left \in 0 .. SerialTxSize
  BY DEF Transfer
<1>2. \A k \in 1 .. dma.left : dma.at + k - 1 \in 1 .. SerialTxSize
  BY <1>1
<1>3. \A k \in 1 .. dma.left : buf[dma.src][dma.at + k - 1] \in Int
  <2> TAKE k \in 1 .. dma.left
  <2>1. dma.at + k - 1 \in 1 .. SerialTxSize /\ buf[dma.src] \in [1 .. SerialTxSize -> Down]
    BY <1>1, <1>2 DEF Buffers
  <2>2. buf[dma.src][dma.at + k - 1] \in Down
    BY <2>1
  <2> QED BY <2>2, DownInts
<1> DEFINE w == [k \in 1 .. dma.left |-> buf[dma.src][dma.at + k - 1]]
<1>4. w \in Seq(Int) /\ Len(w) = dma.left
  <2> DEFINE n == dma.left
             f(k) == buf[dma.src][dma.at + k - 1]
  <2>1. n \in Nat /\ \A k \in 1 .. n : f(k) \in Int
    BY <1>1, <1>3
  <2> HIDE DEF n, f
  <2>2. [k \in 1 .. n |-> f(k)] \in Seq(Int) /\ Len([k \in 1 .. n |-> f(k)]) = n
    BY ONLY <2>1
  <2> QED BY <2>2 DEF n, f
<1>5. \A k \in 1 .. dma.left : w[k] = buf[dma.src][dma.at + k - 1]
  OBVIOUS
<1> QED BY <1>4, <1>5 DEF Rest, RestAs

\* What the front of a half holds.
InHalfAs(w, buf, h, n) ==
  /\ w \in Seq(Int) /\ Len(w) = n
  /\ \A k \in 1 .. n : w[k] = buf[h][k]

\* The front lies within its half.
LEMMA InHalfIs ==
  ASSUME NEW buf \in Buffers, NEW h \in Half, NEW n \in 0 .. SerialTxSize
  PROVE  InHalfAs(InHalf(buf, h, n), buf, h, n)
<1>1. buf[h] \in [1 .. SerialTxSize -> Down]
  BY DEF Buffers
<1>2. \A k \in 1 .. n : buf[h][k] \in Int
  <2> TAKE k \in 1 .. n
  <2>1. k \in 1 .. SerialTxSize
    OBVIOUS
  <2>2. buf[h][k] \in Down
    BY <1>1, <2>1
  <2> QED BY <2>2, DownInts
<1> DEFINE s == buf[h]
<1>3. \A k \in 1 .. n : s[k] \in Int
  BY <1>2
<1> HIDE DEF s
<1>4. /\ SubSeq(s, 1, n) \in Seq(Int)
      /\ Len(SubSeq(s, 1, n)) = IF 1 <= n THEN n - 1 + 1 ELSE 0
      /\ \A k \in 1 .. n - 1 + 1 : SubSeq(s, 1, n)[k] = s[1 + k - 1]
  <2>1. 1 \in Int /\ n \in Int
    OBVIOUS
  <2> QED BY ONLY <2>1, <1>3, SubSeqProperties
<1> DEFINE w == SubSeq(s, 1, n)
<1> HIDE DEF w
<1>5. w \in Seq(Int) /\ Len(w) = n /\ \A k \in 1 .. n : w[k] = s[k]
  <2>1. \A k \in 1 .. n : k \in 1 .. n - 1 + 1 /\ 1 + k - 1 = k
    OBVIOUS
  <2>2. w \in Seq(Int) /\ Len(w) = n
    BY <1>4 DEF w
  <2>3. \A k \in 1 .. n - 1 + 1 : w[k] = s[1 + k - 1]
    BY <1>4 DEF w
  <2> QED BY <2>1, <2>2, <2>3
<1> QED BY <1>5 DEF w, s, InHalf, InHalfAs

\* A transfer of a whole front reads just that.
LEMMA StartedRest ==
  ASSUME NEW buf \in Buffers, NEW h \in Half, NEW n \in 0 .. SerialTxSize
  PROVE  Rest(buf, [src |-> h, at |-> 1, left |-> n]) = InHalf(buf, h, n)
<1> DEFINE w == InHalf(buf, h, n)
<1>1. w \in Seq(Int) /\ Len(w) = n /\ \A k \in 1 .. n : w[k] = buf[h][k]
  BY InHalfIs DEF InHalfAs
<1> HIDE DEF w
<1>2. Rest(buf, [src |-> h, at |-> 1, left |-> n]) = [k \in 1 .. n |-> buf[h][k]]
  <2>1. \A k \in 1 .. n : 1 + k - 1 = k
    OBVIOUS
  <2> QED BY <2>1 DEF Rest
<1>3. w = [k \in 1 .. n |-> w[k]]
  BY <1>1
<1>4. w = [k \in 1 .. n |-> buf[h][k]]
  BY <1>1, <1>3
<1> QED BY <1>2, <1>4 DEF w

\* Where nothing is left or filled, nothing is on its way.
LEMMA NothingLeft ==
  /\ \A buf, dma : dma.left = 0 => Rest(buf, dma) = <<>>
  /\ \A buf, h : InHalf(buf, h, 0) = <<>>
BY DEF Rest, InHalf

\* The first byte of a transfer is read.
LEMMA RestShrinks ==
  ASSUME NEW buf \in Buffers, NEW dma \in Transfer, NEW less \in Transfer,
         dma.at + dma.left <= SerialTxSize + 1, dma.left > 0,
         less.src = dma.src, less.at = dma.at + 1, less.left = dma.left - 1
  PROVE  /\ buf[dma.src][dma.at] \in Int
         /\ Rest(buf, dma) = <<buf[dma.src][dma.at]>> \o Rest(buf, less)
<1> DEFINE u == Rest(buf, dma)
           v == Rest(buf, less)
           b == buf[dma.src][dma.at]
           n == less.left
<1>1. dma.at \in Nat /\ n \in Nat /\ dma.left = n + 1 /\ less.at = dma.at + 1
  BY DEF Transfer
<1>2. u \in Seq(Int) /\ Len(u) = n + 1 /\ \A k \in 1 .. n + 1 : u[k] = buf[dma.src][dma.at + k - 1]
  <2>1. RestAs(u, buf, dma)
    BY RestIs
  <2> HIDE DEF u, n
  <2> QED BY ONLY <2>1, <1>1 DEF RestAs
<1>3. v \in Seq(Int) /\ Len(v) = n /\ \A k \in 1 .. n : v[k] = buf[dma.src][dma.at + 1 + k - 1]
  <2>1. RestAs(v, buf, less)
    <3>1. less.at + less.left <= SerialTxSize + 1
      BY DEF Transfer
    <3> QED BY <3>1, RestIs
  <2> HIDE DEF v
  <2> QED BY ONLY <2>1, <1>1, less.src = dma.src DEF RestAs
<1> HIDE DEF u, v, n
<1>4. u[1] = b /\ \A k \in 1 .. n : u[k + 1] = v[k]
  <2>1. 1 \in 1 .. n + 1 /\ dma.at + 1 - 1 = dma.at
    BY <1>1
  <2>2. \A k \in 1 .. n : k + 1 \in 1 .. n + 1 /\ dma.at + (k + 1) - 1 = dma.at + 1 + k - 1
    BY <1>1
  <2>3. u[1] = b
    BY <2>1, <1>2
  <2>4. \A k \in 1 .. n : u[k + 1] = v[k]
    BY ONLY <2>2, <1>2, <1>3
  <2> QED BY <2>3, <2>4
<1>5. b \in Int
  <2>1. 1 \in 1 .. Len(u)
    BY <1>1, <1>2
  <2> QED BY <2>1, <1>2, <1>4
<1> HIDE DEF b
<1>6. <<b>> \o v = u
  <2> DEFINE w == <<b>> \o v
  <2>1. w \in Seq(Int) /\ Len(w) = n + 1 /\ w[1] = b /\ \A k \in 2 .. n + 1 : w[k] = v[k - 1]
    BY <1>1, <1>3, <1>5
  <2> HIDE DEF w
  <2>2. \A k \in 1 .. n + 1 : w[k] = u[k]
    <3> TAKE k \in 1 .. n + 1
    <3>1. CASE k = 1
      BY <3>1, <2>1, <1>4
    <3>2. CASE k # 1
      <4>1. k \in 2 .. n + 1 /\ k - 1 \in 1 .. n /\ k - 1 + 1 = k
        BY <3>2, <1>1
      <4> QED BY <4>1, <2>1, <1>4
    <3> QED BY <3>1, <3>2
  <2>3. w = u
    BY <2>1, <2>2, <1>2
  <2> QED BY <2>3 DEF w
<1> QED BY <1>5, <1>6 DEF u, v, b

\* Bytes are put behind those a half holds; the other half is left alone.
LEMMA FilledIs ==
  ASSUME DownOK, NEW b \in Seq(Down), Fits(b)
  PROVE  /\ Filled(b) \in Buffers
         /\ \A h \in Half : h # serial_txbufidx => Filled(b)[h] = serial_txbuf[h]
         /\ serial_txlen + Len(b) \in 0 .. SerialTxSize
         /\ InHalf(Filled(b), serial_txbufidx, serial_txlen + Len(b))
              = InHalf(serial_txbuf, serial_txbufidx, serial_txlen) \o b
<1> DEFINE i == serial_txbufidx
           n == serial_txlen
           l == Len(b)
           new == Filled(b)
           f == InHalf(serial_txbuf, i, n)
           w == InHalf(new, i, n + l)
<1>1. /\ serial_txbuf \in Buffers /\ i \in Half /\ n \in 0 .. SerialTxSize
      /\ l \in Nat /\ n + l <= SerialTxSize
  BY DEF DownOK, Fits, Buffers
<1>2. new \in Buffers
  BY FilledType DEF Buffers
<1>3. /\ \A h \in Half : h # i => new[h] = serial_txbuf[h]
      /\ \A k \in 1 .. SerialTxSize :
           new[i][k] = IF k - n \in 1 .. l THEN b[k - n] ELSE serial_txbuf[i][k]
  BY <1>1 DEF Filled, Buffers
<1>4. n + l \in 0 .. SerialTxSize
  BY <1>1
<1>5. f \in Seq(Int) /\ Len(f) = n /\ \A k \in 1 .. n : f[k] = serial_txbuf[i][k]
  BY <1>1, InHalfIs DEF InHalfAs
<1>6. w \in Seq(Int) /\ Len(w) = n + l /\ \A k \in 1 .. n + l : w[k] = new[i][k]
  <2>1. InHalfAs(w, new, i, n + l)
    BY <1>1, <1>2, <1>4, InHalfIs
  <2> HIDE DEF w, new, i, n, l
  <2> QED BY ONLY <2>1 DEF InHalfAs
<1>7. b \in Seq(Int)
  BY DownInts
<1> HIDE DEF new, f, w, i, n
<1>8. /\ f \o b \in Seq(Int) /\ Len(f \o b) = n + l
      /\ \A k \in 1 .. n + l : (f \o b)[k] = IF k <= n THEN f[k] ELSE b[k - n]
  <2>1. /\ f \o b \in Seq(Int) /\ Len(f \o b) = Len(f) + Len(b)
        /\ \A k \in 1 .. Len(f) + Len(b) : (f \o b)[k] = IF k <= Len(f) THEN f[k] ELSE b[k - Len(f)]
    BY ONLY <1>5, <1>7, ConcatProperties
  <2> QED BY <2>1, <1>5
<1>9. \A k \in 1 .. n + l : w[k] = (f \o b)[k]
  <2> TAKE k \in 1 .. n + l
  <2>1. k \in 1 .. SerialTxSize
    BY <1>1
  <2>2. CASE k <= n
    <3>1. k \in 1 .. n /\ k - n \notin 1 .. l
      BY <2>2, <1>1
    <3> QED BY <3>1, <2>1, <2>2, <1>3, <1>5, <1>6, <1>8
  <2>3. CASE ~(k <= n)
    <3>1. k - n \in 1 .. l
      BY <2>3, <1>1
    <3> QED BY <3>1, <2>1, <2>3, <1>3, <1>6, <1>8
  <2> QED BY <2>2, <2>3
<1>10. w = f \o b
  <2> DEFINE z == f \o b
  <2>1. z \in Seq(Int) /\ w \in Seq(Int) /\ Len(z) = Len(w) /\ \A k \in 1 .. Len(w) : w[k] = z[k]
    BY <1>6, <1>8, <1>9
  <2> HIDE DEF z
  <2>2. w = z
    BY ONLY <2>1, SeqEqual
  <2> QED BY <2>2 DEF z
<1> QED BY <1>2, <1>3, <1>4, <1>10 DEF new, f, w, i, n

Reading == Rest(serial_txbuf, txdma)

\* The parts of what is held on the way down are sequences of numbers.
LEMMA DownTyped ==
  ASSUME TypeOK
  PROVE  /\ down.taken \in Nat /\ down.given \in Seq(Int)
         /\ Reading \in Seq(Int) /\ Filling \in Seq(Int) /\ usb_rx \in Seq(Int)
         /\ serial_txbuf \in Buffers /\ txdma \in Transfer
         /\ txdma.at + txdma.left <= SerialTxSize + 1
         /\ serial_txbufidx \in Half /\ serial_txlen \in 0 .. SerialTxSize
         /\ InHalf(serial_txbuf, serial_txbufidx, serial_txlen) \in Seq(Int)
<1>1. /\ serial_txbuf \in Buffers /\ txdma \in Transfer /\ txdma.at + txdma.left <= SerialTxSize + 1
      /\ serial_txbufidx \in Half /\ serial_txlen \in 0 .. SerialTxSize
      /\ usb_rx \in Seq(Down) /\ down \in Pipe(Down)
  BY DEF TypeOK, DownOK, Buffers
<1>2. down.taken \in Down /\ down.given \in Seq(Down)
  BY <1>1, PipeFields
<1>3. down.taken \in Nat
  BY <1>2 DEF Down
<1>4. Reading \in Seq(Int)
  BY <1>1, RestIs DEF RestAs, Reading
<1>5. InHalf(serial_txbuf, serial_txbufidx, serial_txlen) \in Seq(Int)
  BY <1>1, InHalfIs DEF InHalfAs
<1>6. Filling \in Seq(Int)
  <2>1. <<>> \in Seq(Int)
    OBVIOUS
  <2> QED BY <1>5, <2>1 DEF Filling
<1> QED BY <1>1, <1>2, <1>3, <1>4, <1>5, <1>6, DownInts

\* A part passes from the front of what is held to the end of what was given.
Passing(g, b, a, t, u) == Numbers(g, b, a) /\ Numbers(a, t, u)

LEMMA PassedOn ==
  ASSUME NEW g, NEW b, NEW a, NEW t, NEW u, Passing(g, b, a, t, u)
  PROVE  g \o (((b \o a) \o t) \o u) = (g \o b) \o ((a \o t) \o u)
<1> DEFINE v == a \o t
           w == v \o u
<1>1. g \in Seq(Int) /\ b \in Seq(Int) /\ a \in Seq(Int) /\ t \in Seq(Int) /\ u \in Seq(Int)
  BY DEF Passing, Numbers
<1>2. v \in Seq(Int) /\ w \in Seq(Int)
  BY <1>1
<1>3. (b \o a) \o t = b \o v
  <2>1. Numbers(b, a, t)
    BY <1>1 DEF Numbers
  <2> QED BY ONLY <2>1, Joins
<1> HIDE DEF v
<1>4. (b \o v) \o u = b \o w
  <2>1. Numbers(b, v, u)
    BY <1>1, <1>2 DEF Numbers
  <2> QED BY ONLY <2>1, Joins
<1> HIDE DEF w
<1>5. (g \o b) \o w = g \o (b \o w)
  <2>1. Numbers(g, b, w)
    BY <1>1, <1>2 DEF Numbers
  <2> QED BY ONLY <2>1, Joins
<1> QED BY ONLY <1>3, <1>4, <1>5 DEF v, w

\* What is held stays where it is.
LEMMA SameDown ==
  ASSUME DownInv, HeldDown' = HeldDown, UNCHANGED down,
         ep_input' \/ ~uart_running' => usb_rx' = <<>>,
         ep_input' => uart_running',
         pc' = "go" => dmaxfer_tx'.count = serial_txlen'
  PROVE  DownInv'
BY DEF DownInv

\* A step that leaves the way down alone.
LEMMA RestDown ==
  ASSUME TypeOK, DownInv, UNCHANGED downvars, UNCHANGED uart_running,
         pc' = pc \/ {pc, pc'} \cap {"go", "flip"} = {}
  PROVE  DownInv'
<1>1. UNCHANGED <<ep_input, usb_rx, serial_txbuf, serial_txbufidx, serial_txlen, dmaxfer_tx, txdma, down>>
  BY DEF downvars
<1>2. Filling' = Filling
  BY <1>1 DEF Filling
<1>3. HeldDown' = HeldDown
  <2>1. HeldDown' = (Rest(serial_txbuf, txdma)' \o Filling') \o usb_rx'
    BY DEF HeldDown, Rest, Filling, InHalf
  <2> QED BY <2>1, <1>1, <1>2, HeldDownIs
<1>4. pc' = "go" => pc = "go"
  OBVIOUS
<1> QED BY <1>1, <1>3, <1>4, SameDown DEF DownInv

\* At the start nothing is on its way down.
LEMMA DownInit == Init => DownInv
<1> SUFFICES ASSUME Init PROVE DownInv
  OBVIOUS
<1>1. /\ ep_input = FALSE /\ usb_rx = <<>> /\ serial_txlen = 0 /\ txdma.left = 0 /\ down = Empty
      /\ pc = "idle"
  BY DEF Init
<1>2. Rest(serial_txbuf, txdma) = <<>> /\ Filling = <<>>
  BY <1>1, NothingLeft DEF Filling
<1>3. HeldDown = <<>>
  BY <1>1, <1>2, NoneHeld, HeldDownIs
<1>4. Kept(down, HeldDown)
  BY <1>1, <1>3, NoneKept
<1> QED BY <1>1, <1>4 DEF DownInv

\* The DMA reads a byte.
LEMMA ReadDown ==
  ASSUME TypeOK, TypeOK', DownInv, TxDma
  PROVE  DownInv'
<1> DEFINE b == serial_txbuf[txdma.src][txdma.at]
           X == Reading
           Y == Rest(serial_txbuf, txdma')
           H == Filling
           R == usb_rx
           g == down.given
<1>1. /\ txdma.left > 0
      /\ down' = [down EXCEPT !.given = Append(g, b)]
      /\ txdma' = [txdma EXCEPT !.at = txdma.at + 1, !.left = txdma.left - 1]
      /\ UNCHANGED <<pc, uart_running, ep_input, usb_rx, serial_txbuf, serial_txbufidx,
                     serial_txlen, dmaxfer_tx>>
  BY DEF TxDma, Active, TypeOK, DownOK, Pipe, Transfer
<1>2. /\ g \in Seq(Int) /\ X \in Seq(Int) /\ H \in Seq(Int) /\ R \in Seq(Int)
      /\ serial_txbuf \in Buffers /\ txdma \in Transfer /\ txdma.at + txdma.left <= SerialTxSize + 1
  BY DownTyped
<1>3. txdma'.src = txdma.src /\ txdma'.at = txdma.at + 1 /\ txdma'.left = txdma.left - 1
  BY <1>1, <1>2 DEF Transfer
<1>4. txdma' \in Transfer /\ Y \in Seq(Int)
  <2>1. (TypeOK => txdma \in Transfer /\ Reading \in Seq(Int))'
    BY DownTyped, PTL
  <2> QED BY <2>1, <1>1 DEF Reading
<1>5. b \in Int /\ X = <<b>> \o Y
  BY <1>1, <1>2, <1>3, <1>4, RestShrinks DEF Reading
<1>6. down'.taken = down.taken /\ down'.lost = down.lost /\ down'.given = Append(g, b)
  BY <1>1 DEF TypeOK, DownOK, Pipe
<1>7. HeldDown = (X \o H) \o R /\ HeldDown' = (Y \o H) \o R
  <2>1. Filling' = Filling
    BY <1>1 DEF Filling
  <2>2. HeldDown' = (Rest(serial_txbuf, txdma)' \o Filling') \o usb_rx'
    BY DEF HeldDown, Rest, Filling, InHalf
  <2> QED BY <2>1, <2>2, <1>1, HeldDownIs DEF Reading
<1> HIDE DEF b, X, Y, H, R, g
<1>8. Moves(down, down', HeldDown, HeldDown')
  <2>1. Append(g, b) = g \o <<b>>
    BY ONLY <1>2, <1>5, AppendIsConcat
  <2>2. Passing(g, <<b>>, Y, H, R)
    BY ONLY <1>2, <1>4, <1>5 DEF Passing, Numbers
  <2>3. g \o (((<<b>> \o Y) \o H) \o R) = (g \o <<b>>) \o ((Y \o H) \o R)
    BY ONLY <2>2, PassedOn
  <2>4. down'.given \o HeldDown' = down.given \o HeldDown
    BY <2>1, <2>3, <1>5, <1>6, <1>7 DEF g
  <2> QED BY <2>4, <1>6 DEF Moves
<1>9. Kept(down', HeldDown')
  <2>1. Kept(down, HeldDown)
    BY DEF DownInv
  <2> QED BY ONLY <2>1, <1>8, MovedKept
<1> QED BY <1>1, <1>9 DEF DownInv

\* Run moves a packet that has waited.
LEMMA MoveDown ==
  ASSUME TypeOK, FlushInv, SendInv, DownInv, Move
  PROVE  DownInv'
<1>1. /\ pc = "move" /\ pc' = "flush" /\ uart_running
      /\ UNCHANGED <<uart_running, serial_txbufidx, dmaxfer_tx, txdma, down>>
  BY DEF Move, SendInv
<1>2. HeldDown' = (Rest(serial_txbuf', txdma) \o InHalf(serial_txbuf', serial_txbufidx, serial_txlen')) \o usb_rx'
  BY <1>1 DEF HeldDown, Rest, InHalf
<1>3. CASE UNCHANGED <<serial_txbuf, serial_txlen, usb_rx, ep_input>>
  <2>1. UNCHANGED downvars
    BY <1>1, <1>3 DEF downvars
  <2> QED BY <2>1, <1>1, RestDown
<1>4. CASE ~UNCHANGED <<serial_txbuf, serial_txlen, usb_rx, ep_input>>
  <2>1. /\ Fits(usb_rx) /\ serial_txbuf' = Filled(usb_rx) /\ serial_txlen' = serial_txlen + Len(usb_rx)
        /\ usb_rx' = <<>> /\ ep_input'
    BY <1>4 DEF Move
  <2> DEFINE X == Reading
             H == InHalf(serial_txbuf, serial_txbufidx, serial_txlen)
             R == usb_rx
  <2>2. X \in Seq(Int) /\ H \in Seq(Int) /\ R \in Seq(Int)
    BY DownTyped
  <2>3. HeldDown = (X \o H) \o R
    BY <1>1, HeldDownIs DEF Filling, Reading
  <2>4. /\ \A h \in Half : h # serial_txbufidx => serial_txbuf'[h] = serial_txbuf[h]
        /\ InHalf(serial_txbuf', serial_txbufidx, serial_txlen') = H \o R
    <3>1. DownOK /\ usb_rx \in Seq(Down)
      BY DEF TypeOK, DownOK
    <3> QED BY <2>1, <3>1, FilledIs
  <2>5. Rest(serial_txbuf', txdma) = X
    <3>1. CASE txdma.left = 0
      BY <3>1, NothingLeft DEF Reading
    <3>2. CASE txdma.left # 0
      <4>1. txdma.src \in Half /\ txdma.left > 0
        BY <3>2, DownTyped DEF Transfer
      <4>2. serial_txbuf'[txdma.src] = serial_txbuf[txdma.src]
        BY <4>1, <2>4, <1>1 DEF FlushInv, Active
      <4> QED BY <4>2 DEF Reading, Rest
    <3> QED BY <3>1, <3>2
  <2> HIDE DEF X, H, R
  <2>6. HeldDown' = HeldDown
    <3>1. (X \o H) \o R = X \o (H \o R)
      <4>1. Numbers(X, H, R)
        BY <2>2 DEF Numbers
      <4> QED BY ONLY <4>1, Joins
    <3> DEFINE v == H \o R
    <3>2. v \in Seq(Int) /\ X \o v \in Seq(Int)
      BY <2>2
    <3>3. HeldDown' = (X \o v) \o <<>>
      BY <1>2, <2>1, <2>4, <2>5
    <3> HIDE DEF v
    <3>4. HeldDown' = X \o v
      BY ONLY <3>2, <3>3, NoneHeld
    <3> QED BY <3>1, <3>4, <2>3 DEF v
  <2> QED BY <1>1, <2>1, <2>6, SameDown
<1> QED BY <1>3, <1>4

\* Run sends what the half holds, in three steps.
LEMMA FlushDown ==
  ASSUME TypeOK, FlushInv, DownInv, FlushFill \/ FlushGo \/ FlushFlip
  PROVE  DownInv'
<1>1. UNCHANGED <<uart_running, ep_input, usb_rx, serial_txbuf, down>>
  BY DEF FlushFill, FlushGo, FlushFlip
<1>2. HeldDown' = (Rest(serial_txbuf, txdma') \o Filling') \o usb_rx
  BY <1>1 DEF HeldDown, Rest, Filling, InHalf
<1> DEFINE X == Reading
           H == InHalf(serial_txbuf, serial_txbufidx, serial_txlen)
<1>3. X \in Seq(Int) /\ H \in Seq(Int)
  BY DownTyped
<1>4. CASE FlushFill
  <2>1. /\ pc = "fill" /\ pc' = "go" /\ dmaxfer_tx' = [src |-> serial_txbufidx, count |-> serial_txlen]
        /\ UNCHANGED <<serial_txbufidx, serial_txlen, txdma>>
    BY <1>4 DEF FlushFill
  <2>2. Filling' = Filling
    BY <1>1, <2>1 DEF Filling
  <2>3. HeldDown' = HeldDown
    BY <1>2, <2>1, <2>2, HeldDownIs
  <2> QED BY <1>1, <2>1, <2>3, SameDown DEF DownInv
<1>5. CASE FlushGo
  <2>1. /\ pc = "go" /\ pc' = "flip" /\ txdma' = [src |-> dmaxfer_tx.src, at |-> 1, left |-> dmaxfer_tx.count]
        /\ UNCHANGED <<serial_txbufidx, serial_txlen, dmaxfer_tx>>
    BY <1>5 DEF FlushGo, Started
  <2>2. dmaxfer_tx.src = serial_txbufidx /\ dmaxfer_tx.count = serial_txlen /\ txdma.left = 0
    <3>1. txdma.left \in Nat /\ ~(txdma.left > 0)
      BY <2>1, DownTyped DEF FlushInv, Active, Transfer
    <3> QED BY <3>1, <2>1 DEF FlushInv, DownInv
  <2>3. X = <<>>
    BY <2>2, NothingLeft DEF Reading
  <2>4. Rest(serial_txbuf, txdma') = H
    BY <2>1, <2>2, DownTyped, StartedRest
  <2>5. Filling = H /\ Filling' = <<>>
    BY <2>1 DEF Filling
  <2> HIDE DEF X, H
  <2>6. <<>> \o H = H /\ H \o <<>> = H
    BY <1>3, NoneHeld
  <2>7. HeldDown' = HeldDown
    BY <1>2, <2>3, <2>4, <2>5, <2>6, HeldDownIs DEF X, Reading
  <2> QED BY <1>1, <2>1, <2>7, SameDown DEF DownInv
<1>6. CASE FlushFlip
  <2>1. pc = "flip" /\ pc' = "idle" /\ serial_txlen' = 0 /\ UNCHANGED txdma
    BY <1>6 DEF FlushFlip
  <2>2. Filling = <<>> /\ Filling' = <<>>
    BY <2>1, NothingLeft DEF Filling
  <2>3. HeldDown' = HeldDown
    BY <1>2, <2>1, <2>2, HeldDownIs
  <2> QED BY <1>1, <2>1, <2>3, SameDown DEF DownInv
<1> QED BY <1>4, <1>5, <1>6

\* The host sends a packet: it goes into the half, or waits; and the half goes out if the DMA
\* is idle.
LEMMA OutDown ==
  ASSUME TypeOK, FlushInv, DownInv, NEW n \in 0 .. MaxLen, OutEvent(n), Calm'
  PROVE  DownInv'
<1> DEFINE data   == Coming(down.taken, n)
           stored == data # <<>> /\ Fits(data)
           len    == IF stored THEN serial_txlen + n ELSE serial_txlen
           X == Reading
           H == InHalf(serial_txbuf, serial_txbufidx, serial_txlen)
           G == InHalf(serial_txbuf', serial_txbufidx, len)
<1>1. /\ ep_input /\ down.taken + n <= MaxDown
      /\ down' = [down EXCEPT !.taken = down.taken + n]
      /\ usb_rx' = IF stored THEN <<>> ELSE data
      /\ ep_input' = stored
      /\ serial_txbuf' = IF stored THEN Filled(data) ELSE serial_txbuf
      /\ UNCHANGED <<pc, uart_running>>
  BY DEF OutEvent, Coming, Reopened, TypeOK, DownOK, Pipe
<1>2. \/ /\ MayFlush(len) /\ txdma' = [src |-> serial_txbufidx, at |-> 1, left |-> len]
         /\ serial_txlen' = 0
      \/ serial_txlen' = len /\ UNCHANGED <<dmaxfer_tx, txdma, serial_txbufidx>>
  BY DEF OutEvent, Coming, Started
<1>3. pc \notin {"fill", "go", "flip"} /\ n # 0
  BY DEF OutEvent, Calm
<1>4. usb_rx = <<>> /\ uart_running
  BY <1>1 DEF DownInv
<1>5. data \in Seq(Down) /\ Len(data) = n /\ n \in Nat
  <2>1. DownOK
    BY DEF TypeOK
  <2> QED BY <2>1, <1>1, PacketType DEF Coming
<1>6. /\ X \in Seq(Int) /\ H \in Seq(Int) /\ data \in Seq(Int) /\ down.taken \in Nat
      /\ down.given \in Seq(Int) /\ serial_txbuf \in Buffers /\ txdma \in Transfer
      /\ serial_txbufidx \in Half /\ serial_txlen \in 0 .. SerialTxSize
  BY <1>5, DownInts, DownTyped
<1> HIDE DEF data, X, H
<1>7. /\ serial_txbuf' \in Buffers /\ len \in 0 .. SerialTxSize
      /\ \A h \in Half : h # serial_txbufidx => serial_txbuf'[h] = serial_txbuf[h]
      /\ G = IF stored THEN H \o data ELSE H
  <2>1. CASE stored
    <3>1. DownOK /\ Fits(data)
      BY <2>1 DEF TypeOK
    <3> QED BY <3>1, <2>1, <1>1, <1>5, FilledIs DEF H
  <2>2. CASE ~stored
    BY <2>2, <1>1, <1>6 DEF H
  <2> QED BY <2>1, <2>2
<1>8. HeldDown = (X \o H) \o <<>>
  BY <1>3, <1>4, HeldDownIs DEF Filling, X, H, Reading
<1>9. Rest(serial_txbuf', txdma) = X
  <2>1. CASE txdma.left = 0
    BY <2>1, NothingLeft DEF X, Reading
  <2>2. CASE txdma.left # 0
    <3>1. txdma.src \in Half /\ txdma.left > 0
      BY <2>2, <1>6 DEF Transfer
    <3>2. serial_txbuf'[txdma.src] = serial_txbuf[txdma.src]
      BY <3>1, <1>3, <1>7 DEF FlushInv, Active
    <3> QED BY <3>2 DEF X, Reading, Rest
  <2> QED BY <2>1, <2>2
<1>10. HeldDown' = (X \o G) \o usb_rx'
  <2>1. HeldDown' = (Rest(serial_txbuf', txdma') \o InHalf(serial_txbuf', serial_txbufidx', serial_txlen')) \o usb_rx'
    BY <1>1, <1>3 DEF HeldDown, Rest, InHalf
  <2>2. CASE /\ MayFlush(len) /\ txdma' = [src |-> serial_txbufidx, at |-> 1, left |-> len]
             /\ serial_txlen' = 0
    <3>1. txdma.left = 0
      BY <2>2, <1>6 DEF MayFlush, Active, Transfer
    <3>2. X = <<>>
      BY <3>1, NothingLeft DEF X, Reading
    <3>3. Rest(serial_txbuf', txdma') = G
      <4> HIDE DEF len
      <4> QED BY <2>2, <1>6, <1>7, StartedRest
    <3>4. InHalf(serial_txbuf', serial_txbufidx', serial_txlen') = <<>>
      BY <2>2, NothingLeft
    <3>5. G \in Seq(Int)
      <4>1. H \o data \in Seq(Int)
        BY <1>6
      <4>2. G = H \o data \/ G = H
        BY <1>7
      <4> QED BY ONLY <4>1, <4>2, <1>6
    <3> HIDE DEF G
    <3>6. <<>> \o G = G /\ G \o <<>> = G
      BY <3>5, NoneHeld
    <3> QED BY ONLY <2>1, <3>2, <3>3, <3>4, <3>6
  <2>3. CASE serial_txlen' = len /\ UNCHANGED <<dmaxfer_tx, txdma, serial_txbufidx>>
    BY <2>1, <2>3, <1>9
  <2> QED BY <2>2, <2>3, <1>2
<1>11. HeldDown' = HeldDown \o data
  <2>1. X \o H \in Seq(Int) /\ (X \o H) \o data = X \o (H \o data)
    <3>1. (X \o H) \o data = X \o (H \o data)
      <4>1. Numbers(X, H, data)
        BY <1>6 DEF Numbers
      <4> QED BY ONLY <4>1, Joins
    <3> QED BY <3>1, <1>6
  <2> DEFINE w == X \o H
             v == X \o (H \o data)
  <2>2. HeldDown = w
    BY <1>8, <2>1, NoneHeld
  <2>3. CASE stored
    <3>1. v \in Seq(Int) /\ w \o data = v
      BY <2>1, <1>6
    <3>2. HeldDown' = v \o <<>>
      BY <2>3, <1>1, <1>7, <1>10
    <3> HIDE DEF v, w
    <3>3. HeldDown' = v
      BY <3>1, <3>2, NoneHeld
    <3> QED BY <3>1, <3>3, <2>2
  <2>4. CASE ~stored
    BY <2>4, <2>2, <1>1, <1>7, <1>10
  <2> QED BY <2>3, <2>4
<1>12. /\ down'.taken = down.taken + n /\ down'.lost = down.lost /\ down'.given = down.given
  BY <1>1 DEF TypeOK, DownOK, Pipe
<1>13. Kept(down', HeldDown')
  <2>1. HeldDown \in Seq(Int)
    <3> DEFINE w == X \o H
    <3>1. w \in Seq(Int) /\ HeldDown = w \o <<>>
      BY <1>6, <1>8
    <3> HIDE DEF w
    <3> QED BY <3>1, NoneHeld
  <2>2. Takes(down, down', HeldDown, HeldDown', n)
    BY <2>1, <1>5, <1>6, <1>11, <1>12 DEF Takes, data
  <2>3. Kept(down, HeldDown)
    BY DEF DownInv
  <2> QED BY ONLY <2>2, <2>3, TakenKept, Zenon
<1>14. ep_input' \/ ~uart_running' => usb_rx' = <<>>
  BY <1>1, <1>4
<1>15. pc' # "go" /\ uart_running'
  BY <1>1, <1>3, <1>4
<1> QED BY <1>13, <1>14, <1>15 DEF DownInv

\* The UART starts or starts anew between two calls of Run.
LEMMA RestartDown ==
  ASSUME TypeOK, DownInv, Restart, pc = "idle",
         UNCHANGED <<pc, usb_rx, serial_txbuf, serial_txbufidx, serial_txlen>>,
         ep_input' => ep_input \/ ~uart_running
  PROVE  DownInv'
<1> DEFINE X == Reading
           H == InHalf(serial_txbuf, serial_txbufidx, serial_txlen)
           R == usb_rx
           g == down.given
           old == {serial_txbuf[txdma.src][k] : k \in txdma.at .. txdma.at + txdma.left - 1}
<1>1. /\ uart_running' /\ txdma' = [txdma EXCEPT !.left = 0]
      /\ down' = [down EXCEPT !.lost = down.lost \cup old]
  BY DEF Restart, TypeOK, DownOK, Pipe
<1>2. /\ down'.taken = down.taken /\ down'.given = g /\ down'.lost = down.lost \cup old
  BY <1>1 DEF TypeOK, DownOK, Pipe
<1>3. /\ g \in Seq(Int) /\ X \in Seq(Int) /\ H \in Seq(Int) /\ R \in Seq(Int)
      /\ serial_txbuf \in Buffers /\ txdma \in Transfer /\ txdma.at + txdma.left <= SerialTxSize + 1
  BY DownTyped
<1>4. old = ToSet(X)
  <2>1. /\ Len(X) = txdma.left
        /\ \A k \in 1 .. txdma.left : X[k] = serial_txbuf[txdma.src][txdma.at + k - 1]
    BY <1>3, RestIs DEF RestAs, Reading
  <2>2. txdma.at \in Nat /\ txdma.left \in Nat
    BY <1>3 DEF Transfer
  <2>3. \A x : x \in ToSet(X) <=> \E k \in 1 .. txdma.left : X[k] = x
    <3> HIDE DEF X
    <3>1. \A x : x \in ToSet(X) <=> \E k \in 1 .. Len(X) : X[k] = x
      BY <1>3, SetOf
    <3> QED BY <3>1, <2>1
  <2> HIDE DEF X
  <2>4. \A k \in txdma.at .. txdma.at + txdma.left - 1 :
          k - txdma.at + 1 \in 1 .. txdma.left /\ txdma.at + (k - txdma.at + 1) - 1 = k
    BY <2>2
  <2>5. \A k \in 1 .. txdma.left :
          txdma.at + k - 1 \in txdma.at .. txdma.at + txdma.left - 1
    BY <2>2
  <2>6. ASSUME NEW x PROVE x \in old <=> x \in ToSet(X)
    <3>1. ASSUME x \in old PROVE x \in ToSet(X)
      <4>1. PICK k \in txdma.at .. txdma.at + txdma.left - 1 : x = serial_txbuf[txdma.src][k]
        BY <3>1
      <4>2. X[k - txdma.at + 1] = x /\ k - txdma.at + 1 \in 1 .. txdma.left
        BY <4>1, <2>1, <2>4
      <4> QED BY ONLY <4>2, <2>3
    <3>2. ASSUME x \in ToSet(X) PROVE x \in old
      <4>1. PICK k \in 1 .. txdma.left : X[k] = x
        BY <3>2, <2>3
      <4> QED BY <4>1, <2>1, <2>5
    <3> QED BY <3>1, <3>2
  <2> QED BY <2>6
<1>5. HeldDown = (X \o H) \o R
  BY HeldDownIs DEF Filling, Reading
<1>6. HeldDown' = H \o R
  <2>1. HeldDown' = (Rest(serial_txbuf, txdma') \o H) \o R
    BY DEF HeldDown, Rest, InHalf
  <2>2. Rest(serial_txbuf, txdma') = <<>>
    <3>1. txdma'.left = 0
      BY <1>1, <1>3 DEF Transfer
    <3> QED BY <3>1, NothingLeft
  <2> HIDE DEF H, R
  <2> QED BY <2>1, <2>2, <1>3, NoneHeld
<1> HIDE DEF X, H, R, g, old
<1>7. Drops(down, down', HeldDown, HeldDown', g, X, H \o R)
  <2>1. (X \o H) \o R = X \o (H \o R)
    <3>1. Numbers(X, H, R)
      BY <1>3 DEF Numbers
    <3> QED BY ONLY <3>1, Joins
  <2>2. H \o R \in Seq(Int)
    BY <1>3
  <2> QED BY <2>1, <2>2, <1>2, <1>3, <1>4, <1>5, <1>6 DEF Drops, g
<1>8. Kept(down', HeldDown')
  <2>1. Kept(down, HeldDown)
    BY DEF DownInv
  <2> QED BY ONLY <2>1, <1>7, DroppedKept
<1>9. (ep_input' \/ ~uart_running') => usb_rx' = <<>>
  BY <1>1 DEF DownInv
<1> QED BY <1>1, <1>8, <1>9 DEF DownInv

\* No step before the first race disturbs the order on the way down.
LEMMA DownNext ==
  ASSUME TypeOK, TypeOK', FlushInv, SendInv, DownInv, Step, Calm'
  PROVE  DownInv'
<1>1. CASE \E n \in 0 .. MaxLen : OutEvent(n)
  BY <1>1, OutDown
<1>2. CASE TxDma
  BY <1>2, ReadDown
<1>3. CASE Move
  BY <1>3, MoveDown
<1>4. CASE FlushFill \/ FlushGo \/ FlushFlip
  BY <1>4, FlushDown
<1>5. CASE Configure \/ SetLineCoding
  <2>1. /\ Restart /\ UNCHANGED <<pc, usb_rx, serial_txbuf, serial_txbufidx, serial_txlen>>
        /\ ep_input' => ep_input \/ ~uart_running
    BY <1>5 DEF Configure, SetLineCoding
  <2>2. pc = "idle"
    <3>1. CASE Configure
      BY <3>1 DEF Configure, SendInv
    <3>2. CASE SetLineCoding
      BY <3>2 DEF SetLineCoding, Calm
    <3> QED BY <1>5, <3>1, <3>2
  <2> QED BY <2>1, <2>2, RestartDown
<1>6. CASE RunBegin \/ CopyEnd \/ SendTest \/ SendStart \/ SendEnd \/ FlushTest
  <2>1. UNCHANGED downvars /\ UNCHANGED uart_running
    BY <1>6 DEF RunBegin, CopyEnd, SendTest, SendStart, SendEnd, FlushTest
  <2>2. {pc, pc'} \cap {"go", "flip"} = {}
    BY <1>6 DEF RunBegin, CopyEnd, SendTest, SendStart, SendEnd, FlushTest
  <2> QED BY <2>1, <2>2, RestDown
<1>7. CASE CopyByte \/ UartByte \/ InEvent
  <2>1. UNCHANGED downvars /\ UNCHANGED <<uart_running, pc>>
    BY <1>7 DEF CopyByte, UartByte, InEvent
  <2> QED BY <2>1, RestDown
<1> QED BY <1>1, <1>2, <1>3, <1>4, <1>5, <1>6, <1>7 DEF Step, Run

-----------------------------------------------------------------------------
(* Both ways. *)

OrderInv == Calm => UpInv /\ DownInv

\* The inductive step of the order of the bytes, both ways.
LEMMA OrderNext ==
  TypeOK /\ TypeOK' /\ HalfInv /\ EndInv /\ OrderInv /\ [Next]_vars => OrderInv'
<1> SUFFICES ASSUME TypeOK, TypeOK', HalfInv, EndInv, OrderInv, [Next]_vars, Calm'
             PROVE  UpInv' /\ DownInv'
  BY DEF OrderInv
<1>1. CASE UNCHANGED vars
  <2>1. UpInv /\ DownInv
    BY <1>1 DEF OrderInv, Calm, vars
  <2>2. UNCHANGED <<upvars, downvars>> /\ UNCHANGED <<pc, dma_write_idx, uart_running>>
    BY <1>1 DEF vars
  <2> QED BY <2>1, <2>2, RestUp, RestDown
<1>2. CASE ~UNCHANGED vars
  <2>1. Calm /\ Step
    BY <1>2 DEF Next
  <2>2. UpInv /\ DownInv /\ FlushInv /\ SendInv
    BY <2>1 DEF OrderInv, HalfInv, EndInv
  <2> QED BY <2>1, <2>2, UpNext, DownNext
<1> QED BY <1>1, <1>2

\* Both ways no byte is lost, doubled or overtaken but for those the code is known to drop,
\* for buffers and packets of any size, any number of bytes and of changes of the line coding.
THEOREM OrderCorrect == Spec => []BytesInOrder
<1>1. Init => TypeOK /\ HalfInv /\ EndInv /\ OrderInv
  BY TypeInit, HalfInit, EndInit, UpInit, DownInit DEF OrderInv
<1>2. TypeOK /\ HalfInv /\ EndInv /\ OrderInv /\ [Next]_vars
        => TypeOK' /\ HalfInv' /\ EndInv' /\ OrderInv'
  BY TypeNext, HalfNext, EndNext, OrderNext
<1>3. OrderInv => BytesInOrder
  BY DEF OrderInv, UpInv, DownInv, Kept, BytesInOrder
<1> QED BY <1>1, <1>2, <1>3, PTL DEF Spec
=============================================================================
