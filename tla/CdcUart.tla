------------------------------- MODULE CdcUart -------------------------------
(***************************************************************************)
(* The USB to UART bridge (src/usbdev/usbfunc_cdc_uart.cpp) with the       *)
(* sending of its IN endpoint (hwusbctrl.cpp, usbdevice.cpp).              *)
(*                                                                         *)
(* Bytes go two ways.  Up: the receive DMA of the UART writes them into a  *)
(* circle, Run copies them into a transmit buffer and sends that to the    *)
(* host as one packet.  Down: the USB interrupt takes a packet and puts it *)
(* into one half of a double buffer, the other half of which the transmit  *)
(* DMA reads; when it does not fit the packet waits for Run and the host   *)
(* for the endpoint.                                                       *)
(*                                                                         *)
(* Run is the main loop, in steps of one access to what it shares with the *)
(* interrupt and the DMA.  The handlers of the USB interrupt may come      *)
(* between any two of them and are never interrupted by Run.               *)
(***************************************************************************)
EXTENDS Integers, Sequences, SequencesExt

CONSTANTS
  RxSize,      \* bytes of serial_rxbuf: 128
  UsbTxSize,   \* bytes of one half of usb_txbuf: 128
  SerialTxSize,\* bytes of one half of serial_txbuf: 64
  MaxLen,      \* bytes of a packet: 64
  MaxUp,       \* bound: bytes the UART receives
  MaxDown,     \* bound: bytes the host sends
  MaxRestarts  \* bound: times the host sets the line coding

ASSUME SizeAssumption ==
  /\ {RxSize, UsbTxSize, SerialTxSize, MaxLen} \subseteq Nat \ {0, 1}
  /\ MaxLen <= SerialTxSize
  /\ {MaxUp, MaxDown, MaxRestarts} \subseteq Nat

VARIABLES
  pc,            \* where Run is
  dma_write_idx, \* local variable of Run
  uart_running,
  serial_rxbuf, serial_rxidx,
  rxdma,         \* the index the receive DMA writes next
  usb_tx,        \* the first usb_txlen bytes of the half of usb_txbuf in use
  ready_to_send,
  ep_output,     \* the IN endpoint: packet to send, send_zero_state
  ep_input,      \* the OUT endpoint: it takes a packet
  usb_rx,        \* the first usb_rxlen bytes of usb_rxbuf
  serial_txbuf, serial_txbufidx, serial_txlen,
  dmaxfer_tx,    \* the descriptor of a transmit transfer
  txdma,         \* the transmit DMA: what it reads and how much is left
  up, down,      \* history: the bytes that came, went on and are known to be lost
  open,          \* history: the host waits for the rest of a transfer
  restarts,      \* bounds the changes of the line coding
  race           \* history: what has happened that ends every promise

upvars == <<serial_rxbuf, serial_rxidx, rxdma, usb_tx, ready_to_send, ep_output, up, open>>
downvars == <<ep_input, usb_rx, serial_txbuf, serial_txbufidx, serial_txlen,
              dmaxfer_tx, txdma, down>>
vars == <<pc, dma_write_idx, uart_running, upvars, downvars, restarts, race>>

Place == {"idle", "copy", "send", "start", "sent", "move", "flush", "fill", "go", "flip"}
Race  == {"none", "overrun", "in_event", "out_event", "restart", "empty_packet"}
Half  == 0 .. 1
Up    == 0 .. MaxUp    \* the bytes are numbered; 0 is none
Down  == 0 .. MaxDown

Empty == [taken |-> 0, given |-> <<>>, lost |-> {}]

Init ==
  /\ pc = "idle" /\ dma_write_idx = 0 /\ uart_running = FALSE
  /\ serial_rxbuf = [k \in 0 .. RxSize - 1 |-> 0] /\ serial_rxidx = 0 /\ rxdma = 0
  /\ usb_tx = <<>> /\ ready_to_send = TRUE
  /\ ep_output = [busy |-> FALSE, data |-> <<>>, send_zero_state |-> 0]
  /\ ep_input = FALSE /\ usb_rx = <<>>
  /\ serial_txbuf = [h \in Half |-> [k \in 1 .. SerialTxSize |-> 0]]
  /\ serial_txbufidx = 0 /\ serial_txlen = 0
  /\ dmaxfer_tx = [src |-> 0, count |-> 0]
  /\ txdma = [src |-> 0, at |-> 1, left |-> 0]
  /\ up = Empty /\ down = Empty /\ open = FALSE
  /\ restarts = 0 /\ race = "none"

-----------------------------------------------------------------------------
(* Up. *)

NextRxIdx(i) == IF i + 1 >= RxSize THEN 0 ELSE i + 1

\* What is in the circle from serial_rxidx on.
Unread ==
  IF serial_rxidx <= rxdma
  THEN [k \in 1 .. rxdma - serial_rxidx |-> serial_rxbuf[serial_rxidx + k - 1]]
  ELSE [k \in 1 .. RxSize - serial_rxidx + rxdma |->
          IF serial_rxidx + k - 1 < RxSize THEN serial_rxbuf[serial_rxidx + k - 1]
                                           ELSE serial_rxbuf[serial_rxidx + k - 1 - RxSize]]

\* The UART receives a byte.  When the index comes round to serial_rxidx Run takes the
\* circle for empty.
UartByte ==
  /\ uart_running /\ up.taken < MaxUp
  /\ serial_rxbuf' = [serial_rxbuf EXCEPT ![rxdma] = up.taken + 1]
  /\ rxdma' = NextRxIdx(rxdma)
  /\ up' = [up EXCEPT !.taken = @ + 1]
  /\ race' = IF rxdma' = serial_rxidx THEN "overrun" ELSE race
  /\ UNCHANGED <<pc, dma_write_idx, uart_running, serial_rxidx, usb_tx, ready_to_send,
                 ep_output, open, downvars, restarts>>

RunBegin ==
  /\ pc = "idle" /\ uart_running
  /\ pc' = "copy" /\ dma_write_idx' = rxdma
  /\ UNCHANGED <<uart_running, upvars, downvars, restarts, race>>

\* AddTxByte has room for another byte.
TxRoom == Len(usb_tx) < UsbTxSize

CopyByte ==
  /\ pc = "copy" /\ dma_write_idx # serial_rxidx /\ TxRoom
  /\ usb_tx' = Append(usb_tx, serial_rxbuf[serial_rxidx])
  /\ serial_rxidx' = NextRxIdx(serial_rxidx)
  /\ UNCHANGED <<pc, dma_write_idx, uart_running, serial_rxbuf, rxdma, ready_to_send,
                 ep_output, up, open, downvars, restarts, race>>

CopyEnd ==
  /\ pc = "copy" /\ (dma_write_idx = serial_rxidx \/ ~TxRoom)
  /\ pc' = "send" /\ dma_write_idx' = 0
  /\ UNCHANGED <<uart_running, upvars, downvars, restarts, race>>

\* SendTxBytes
SendTest ==
  /\ pc = "send"
  /\ pc' = IF usb_tx # <<>> /\ ready_to_send THEN "start" ELSE "move"
  /\ UNCHANGED <<dma_write_idx, uart_running, upvars, downvars, restarts, race>>

\* Mutant: one byte less counts as a full packet.
ZeroStateEarly(sendlen) == IF sendlen >= MaxLen - 1 THEN 1 ELSE 0

\* CheckZeroPacketSending: a full packet is to be followed by an empty one.
ZeroState(sendlen) == IF sendlen = MaxLen THEN 1 ELSE 0

SendLen(len) == IF len > MaxLen THEN MaxLen ELSE len

\* The endpoint's StartSendData copies at most one packet, the caller does not look at
\* how much: the rest is lost.
SendStart ==
  LET sendlen == SendLen(Len(usb_tx)) IN
  /\ pc = "start" /\ pc' = "sent"
  /\ ep_output' = [busy |-> TRUE, data |-> SubSeq(usb_tx, 1, sendlen),
                   send_zero_state |-> ZeroState(sendlen)]
  /\ up' = [up EXCEPT !.lost = @ \cup ToSet(SubSeq(usb_tx, sendlen + 1, Len(usb_tx)))]
  /\ UNCHANGED <<dma_write_idx, uart_running, serial_rxbuf, serial_rxidx, rxdma, usb_tx,
                 ready_to_send, open, downvars, restarts, race>>

SendEnd ==
  /\ pc = "sent" /\ pc' = "move"
  /\ ready_to_send' = FALSE /\ usb_tx' = <<>>
  /\ UNCHANGED <<dma_write_idx, uart_running, serial_rxbuf, serial_rxidx, rxdma, ep_output,
                 up, open, downvars, restarts, race>>

\* The host takes the packet and the interrupt comes: HandleEpTransferEvent sends the
\* empty packet that is owed, or HandleTransferEvent lets Run send again.  If SendEnd
\* comes after that, nothing will ever set ready_to_send.
InEvent ==
  /\ ep_output.busy
  /\ up' = [up EXCEPT !.given = @ \o ep_output.data]
  /\ open' = (Len(ep_output.data) = MaxLen)
  /\ IF ep_output.send_zero_state = 1
     THEN /\ ep_output' = [busy |-> TRUE, data |-> <<>>, send_zero_state |-> 2]
          /\ UNCHANGED <<ready_to_send, race>>
     ELSE /\ ep_output' = [ep_output EXCEPT !.busy = FALSE, !.data = <<>>]
          /\ ready_to_send' = TRUE
          /\ race' = IF pc = "sent" THEN "in_event" ELSE race
  /\ UNCHANGED <<pc, dma_write_idx, uart_running, serial_rxbuf, serial_rxidx, rxdma, usb_tx,
                 downvars, restarts>>

-----------------------------------------------------------------------------
(* Down. *)

Active == txdma.left > 0

\* Mutant: the bytes that are there already are forgotten.
FitsEmpty(bytes) == Len(bytes) <= SerialTxSize

\* SerialAddBytes
Fits(bytes) == Len(bytes) <= SerialTxSize - serial_txlen
Filled(bytes) ==
  [serial_txbuf EXCEPT ![serial_txbufidx] =
     [k \in 1 .. SerialTxSize |-> IF k - serial_txlen \in 1 .. Len(bytes)
                                  THEN bytes[k - serial_txlen] ELSE @[k]]]

\* TrySendUsbDataToSerial in Run, up to SerialSendBytes.  The endpoint is closed as long
\* as usb_rx holds a packet, so the interrupt leaves these variables alone.
Move ==
  /\ pc = "move" /\ pc' = "flush"
  /\ IF usb_rx # <<>> /\ Fits(usb_rx)
     THEN /\ serial_txbuf' = Filled(usb_rx) /\ serial_txlen' = serial_txlen + Len(usb_rx)
          /\ usb_rx' = <<>> /\ ep_input' = TRUE
     ELSE UNCHANGED <<serial_txbuf, serial_txlen, usb_rx, ep_input>>
  /\ UNCHANGED <<dma_write_idx, uart_running, upvars, serial_txbufidx, dmaxfer_tx, txdma,
                 down, restarts, race>>

\* Mutant: the transfer under way is not looked at.
MayFlushAnyway(len) == len > 0

\* SerialSendBytes in Run
MayFlush(len) == len > 0 /\ ~Active

\* Mutant: Run leaves the sending to the events.
FlushTestNot ==
  /\ pc = "flush" /\ pc' = "idle"
  /\ UNCHANGED <<dma_write_idx, uart_running, upvars, downvars, restarts, race>>

FlushTest ==
  /\ pc = "flush"
  /\ pc' = IF MayFlush(serial_txlen) THEN "fill" ELSE "idle"
  /\ UNCHANGED <<dma_write_idx, uart_running, upvars, downvars, restarts, race>>

FlushFill ==
  /\ pc = "fill" /\ pc' = "go"
  /\ dmaxfer_tx' = [src |-> serial_txbufidx, count |-> serial_txlen]
  /\ UNCHANGED <<dma_write_idx, uart_running, upvars, ep_input, usb_rx, serial_txbuf,
                 serial_txbufidx, serial_txlen, txdma, down, restarts, race>>

\* THwUart's DmaStartSend: a transfer that is under way is replaced.
Started(xfer) == [src |-> xfer.src, at |-> 1, left |-> xfer.count]

FlushGo ==
  /\ pc = "go" /\ pc' = "flip"
  /\ txdma' = Started(dmaxfer_tx)
  /\ UNCHANGED <<dma_write_idx, uart_running, upvars, ep_input, usb_rx, serial_txbuf,
                 serial_txbufidx, serial_txlen, dmaxfer_tx, down, restarts, race>>

\* Mutant: the buffer is not flipped.
SameHalf == serial_txbufidx

OtherHalf == 1 - serial_txbufidx

FlushFlip ==
  /\ pc = "flip" /\ pc' = "idle"
  /\ serial_txbufidx' = OtherHalf /\ serial_txlen' = 0
  /\ UNCHANGED <<dma_write_idx, uart_running, upvars, ep_input, usb_rx, serial_txbuf,
                 dmaxfer_tx, txdma, down, restarts, race>>

\* The transmit DMA takes a byte.
TxDma ==
  /\ Active
  /\ down' = [down EXCEPT !.given = Append(@, serial_txbuf[txdma.src][txdma.at])]
  /\ txdma' = [txdma EXCEPT !.at = @ + 1, !.left = @ - 1]
  /\ UNCHANGED <<pc, dma_write_idx, uart_running, upvars, ep_input, usb_rx, serial_txbuf,
                 serial_txbufidx, serial_txlen, dmaxfer_tx, restarts, race>>

\* Mutant: the endpoint stays closed.
ReopenedNever(stored) == FALSE

\* The endpoint is opened again when the packet was put into the buffer.
Reopened(stored) == stored

\* The host sends a packet and the interrupt comes: HandleTransferEvent with
\* TrySendUsbDataToSerial and SerialSendBytes.
OutEvent(n) ==
  LET data   == [k \in 1 .. n |-> down.taken + k]
      stored == data # <<>> /\ Fits(data)
      len    == IF stored THEN serial_txlen + n ELSE serial_txlen
      xfer   == [src |-> serial_txbufidx, count |-> len] IN
  /\ ep_input /\ down.taken + n <= MaxDown
  /\ down' = [down EXCEPT !.taken = @ + n]
  /\ usb_rx' = IF stored THEN <<>> ELSE data
  /\ ep_input' = Reopened(stored)
  /\ serial_txbuf' = IF stored THEN Filled(data) ELSE serial_txbuf
  /\ IF MayFlush(len)
     THEN /\ dmaxfer_tx' = xfer /\ txdma' = Started(xfer)
          /\ serial_txbufidx' = OtherHalf /\ serial_txlen' = 0
     ELSE /\ serial_txlen' = len
          /\ UNCHANGED <<dmaxfer_tx, txdma, serial_txbufidx>>
  /\ race' = CASE pc \in {"fill", "go", "flip"} -> "out_event"
             [] n = 0 -> "empty_packet"
             [] OTHER -> race
  /\ UNCHANGED <<pc, dma_write_idx, uart_running, upvars, restarts>>

-----------------------------------------------------------------------------
(* Start and restart. *)

\* StopUart, StartUart and Reset of the data interface.  What the circle, usb_tx and the
\* transmit DMA hold is lost; serial_txbuf and usb_rx keep what they hold.
Restart ==
  /\ uart_running' = TRUE
  /\ serial_rxidx' = 0 /\ rxdma' = 0
  /\ usb_tx' = <<>> /\ ready_to_send' = TRUE
  /\ txdma' = [txdma EXCEPT !.left = 0]
  /\ up' = [up EXCEPT !.lost = @ \cup ToSet(Unread) \cup ToSet(usb_tx)]
  /\ down' = [down EXCEPT !.lost = @ \cup {serial_txbuf[txdma.src][k] :
                                             k \in txdma.at .. txdma.at + txdma.left - 1}]

\* OnConfigured of both interfaces
Configure ==
  /\ ~uart_running
  /\ Restart
  /\ ep_input' = TRUE
  /\ UNCHANGED <<pc, dma_write_idx, serial_rxbuf, ep_output, open, usb_rx, serial_txbuf,
                 serial_txbufidx, serial_txlen, dmaxfer_tx, restarts, race>>

\* HandleSetupData.  In the middle of Run its indices change under it; and a packet that
\* is being sent does not keep the next one from being started.
SetLineCoding ==
  /\ uart_running /\ restarts < MaxRestarts
  /\ restarts' = restarts + 1
  /\ Restart
  /\ race' = IF pc # "idle" \/ ep_output.busy THEN "restart" ELSE race
  /\ UNCHANGED <<pc, dma_write_idx, serial_rxbuf, ep_output, open, ep_input, usb_rx,
                 serial_txbuf, serial_txbufidx, serial_txlen, dmaxfer_tx>>

-----------------------------------------------------------------------------
Run ==
  \/ RunBegin \/ CopyByte \/ CopyEnd
  \/ SendTest \/ SendStart \/ SendEnd
  \/ Move
  \/ FlushTest \/ FlushFill \/ FlushGo \/ FlushFlip

Step ==
  \/ Run
  \/ UartByte
  \/ InEvent
  \/ \E n \in 0 .. MaxLen : OutEvent(n)
  \/ TxDma
  \/ Configure
  \/ SetLineCoding

\* Bound: a behaviour is followed up to the first race.
Calm == race = "none"

Next ==
  \/ Calm /\ Step
  \/ ~Calm /\ UNCHANGED vars

\* The main loop goes on, the host asks for what is ready and the UART sends.
Fairness == WF_vars(Calm /\ Run) /\ WF_vars(Calm /\ InEvent) /\ WF_vars(Calm /\ TxDma)

Spec == Init /\ [][Next]_vars /\ Fairness

-----------------------------------------------------------------------------
(* Properties. *)

Pipe(S) == [taken : S, given : Seq(S), lost : SUBSET S]

PlaceOK ==
  /\ pc \in Place /\ uart_running \in BOOLEAN
  /\ dma_write_idx \in 0 .. RxSize - 1
  /\ restarts \in 0 .. MaxRestarts /\ race \in Race

UpOK ==
  /\ serial_rxbuf \in [0 .. RxSize - 1 -> Up]
  /\ serial_rxidx \in 0 .. RxSize - 1 /\ rxdma \in 0 .. RxSize - 1
  /\ usb_tx \in Seq(Up) /\ Len(usb_tx) <= UsbTxSize
  /\ ready_to_send \in BOOLEAN /\ open \in BOOLEAN
  /\ ep_output \in [busy : BOOLEAN, data : Seq(Up), send_zero_state : 0 .. 2]
  /\ Len(ep_output.data) <= MaxLen
  /\ up \in Pipe(Up)

Transfer == [src : Half, at : 1 .. SerialTxSize + 1, left : 0 .. SerialTxSize]

DownOK ==
  /\ ep_input \in BOOLEAN
  /\ usb_rx \in Seq(Down) /\ Len(usb_rx) <= MaxLen
  /\ serial_txbuf \in [Half -> [1 .. SerialTxSize -> Down]]
  /\ serial_txbufidx \in Half /\ serial_txlen \in 0 .. SerialTxSize
  /\ dmaxfer_tx \in [src : Half, count : 0 .. SerialTxSize]
  /\ txdma \in Transfer /\ txdma.at + txdma.left <= SerialTxSize + 1
  /\ down \in Pipe(Down)

\* Every index stays within its buffer and no length exceeds one.  The code tests lengths
\* where bytes are added, and flips and clears elsewhere (usbfunc_cdc_uart.cpp:213, 371).
TypeOK == PlaceOK /\ UpOK /\ DownOK

\* The two halves of serial_txbuf have one owner each: what the transmit DMA has yet to
\* read lies in the half that neither the interrupt nor Run fills, except between the
\* start of the DMA and the flip (usbfunc_cdc_uart.cpp:228-245).
HalvesApart == Calm /\ Active /\ pc # "flip" => txdma.src # serial_txbufidx

\* The bytes on their way, oldest first.
HeldUp == ep_output.data \o (IF pc = "sent" THEN <<>> ELSE usb_tx) \o Unread
HeldDown ==
  [k \in 1 .. txdma.left |-> serial_txbuf[txdma.src][txdma.at + k - 1]]
    \o (IF pc = "flip" THEN <<>> ELSE SubSeq(serial_txbuf[serial_txbufidx], 1, serial_txlen))
    \o usb_rx

\* The bytes are numbered as they come.
InOrder(pipe, held) ==
  LET all == pipe.given \o held
  IN /\ ToSet(all) = (1 .. pipe.taken) \ pipe.lost
     /\ \A j, k \in 1 .. Len(all) : j < k => all[j] < all[k]

\* Both ways the bytes that came are those that went on, in their order, and those on
\* their way, but for the bytes the code is known to drop: those beyond one packet
\* (usbfunc_cdc_uart.cpp:401) and those a change of the line coding finds on their way
\* (:188).  The buffers change hands between Run, the interrupt and two DMA channels
\* without a byte lost, doubled or overwritten.
BytesInOrder == Calm => InOrder(up, HeldUp) /\ InOrder(down, HeldDown)

\* The host sees the end of each transfer: what follows a full packet is an empty one, and
\* there is no other empty packet (hwusbctrl.cpp:32, usbdevice.cpp:783).
TransferEnded == Calm /\ ep_output.busy => (ep_output.data = <<>> <=> open)

\* Every byte gets to the other side: of the events that set ready_to_send and the calls of
\* Run that look at it, and of the packets that wait for room and the calls of Run that
\* make it, none is missed (usbfunc_cdc_uart.cpp:297-302, 346-422).  As the bytes that come
\* are bounded, this says that the bridge runs empty.
BytesArrive == []<>(~Calm \/ HeldUp \o HeldDown = <<>>)

\* The host may send again in the end: the endpoint that is closed while a packet waits for
\* room is opened again (usbfunc_cdc_uart.cpp:419).
HostMaySend == uart_running ~> ep_input \/ ~Calm
=============================================================================
