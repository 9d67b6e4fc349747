------------------------------- MODULE HwCanTx -------------------------------
(***************************************************************************)
(* The transmit path of THwCan: the software ring of THwCan_pre            *)
(* (core/src/hwcan.cpp), HandleTx of the drivers and the transmit FIFO of  *)
(* the CAN controller.                                                     *)
(*                                                                         *)
(* Two contexts use it: the main loop ("idle") and an interrupt handler    *)
(* ("irq") that preempts the main loop between any two of its steps, unless *)
(* interrupts are disabled (PRIMASK), and runs to its end.  A step is one  *)
(* access to state the contexts share.                                     *)
(*                                                                         *)
(* Masked tells the two forms of HandleTx apart.  TRUE: the drivers that   *)
(* disable interrupts around a loop (hwcan_stm32_fd, hwcan_atsam_v2,       *)
(* hwcan_msp).  FALSE: hwcan_atsam, one message and no masking.            *)
(***************************************************************************)
EXTENDS Integers, Sequences, FiniteSets

CONSTANTS
  Masked,     \* which HandleTx
  TxCount,    \* txmb_count: slots of the software ring
  FifoSize,   \* HWCAN_TX_FIFO_SIZE: slots of the hardware FIFO
  MaxMsgs     \* bound: no message is started once this many were added

ASSUME ConfigAssumption ==
  /\ Masked \in BOOLEAN
  /\ TxCount \in Nat \ {0}
  /\ FifoSize \in Nat \ {0}
  /\ MaxMsgs \in Nat

Context == {"idle", "irq"}
Ring    == 0 .. (TxCount - 1)
Slot    == 0 .. (FifoSize - 1)
NoMsg   == 0

VARIABLES
  txmsgbuf, txmb_idx_rd, txmb_idx_wr,  \* the software ring
  lost_tx_msg_cnt,
  txfifo,    \* the message RAM of the hardware FIFO
  put, get,  \* its put index and get index
  request,   \* the slots with a transmission request
  primask,   \* interrupts are disabled
  pc,        \* where each context is
  saved,     \* the interrupt states each context has saved, innermost last
  msg,       \* HandleTx: the message taken from the ring
  tpi,       \* HandleTx: the put index read
  added,     \* history: number of messages added to the ring
  wire       \* history: the messages sent, in order

ring == <<txmsgbuf, txmb_idx_rd, txmb_idx_wr, lost_tx_msg_cnt, added>>
fifo == <<txfifo, put, get, request, wire>>
cpu  == <<primask, saved>>
vars == <<ring, fifo, cpu, pc, msg, tpi>>

-----------------------------------------------------------------------------
(* The processor. *)

\* An interrupt handler runs to its end before the main loop goes on.
Step(c, from, to) ==
  /\ pc[c] = from
  /\ c = "idle" => pc["irq"] = "rest"
  /\ pc' = [pc EXCEPT ![c] = to]

\* A call by the main loop, or the interrupt that makes the call.
Enter(c, to) ==
  /\ c = "irq" => ~primask
  /\ Step(c, "rest", to)

\* Mutant: the level is read, but not raised (as on a CPU whose port of the
\* function is empty, arma/core/arma_cpu.h).
SaveOnly(c) ==
  /\ saved' = [saved EXCEPT ![c] = Append(@, primask)]
  /\ UNCHANGED primask

\* Mutant: interrupts are enabled, whatever they were before.
Enable(c) ==
  /\ primask' = FALSE
  /\ saved' = [saved EXCEPT ![c] = SubSeq(@, 1, Len(@) - 1)]

\* mcu_interrupts_save_and_disable, mcu_interrupts_restore.
SaveAndDisable(c) ==
  /\ saved' = [saved EXCEPT ![c] = Append(@, primask)]
  /\ primask' = TRUE

Restore(c) ==
  LET n == Len(saved[c])
  IN /\ primask' = saved[c][n]
     /\ saved' = [saved EXCEPT ![c] = SubSeq(@, 1, n - 1)]

\* Mutant: if (i > txmb_count) i = 0.
FollowingLate(i) == IF i + 1 > TxCount THEN 0 ELSE i + 1

\* ++i; if (i >= txmb_count) i = 0;
Following(i) == IF i + 1 >= TxCount THEN 0 ELSE i + 1

\* Mutant: forgets that the write index wraps before the read index does.
HasTxMessageUnwrapped == txmb_idx_rd < txmb_idx_wr

HasTxMessage == txmb_idx_rd # txmb_idx_wr

-----------------------------------------------------------------------------
(* AddTxMessage.  The messages are numbered as they enter the ring. *)

HandleTxEntry == IF Masked THEN "tx_mask" ELSE "tx_test"

\* StartSendMessage: AddTxMessage, then HandleTx.
StartSendMessage(c) ==
  /\ added < MaxMsgs
  /\ Enter(c, "add_mask")
  /\ UNCHANGED <<ring, fifo, cpu, msg, tpi>>

AddMask(c) ==
  /\ Step(c, "add_mask", "add_store")
  /\ SaveAndDisable(c)
  /\ UNCHANGED <<ring, fifo, msg, tpi>>

AddStore(c) ==
  /\ Step(c, "add_store", "add_advance")
  /\ added' = added + 1
  /\ txmsgbuf' = [txmsgbuf EXCEPT ![txmb_idx_wr] = added']
  /\ UNCHANGED <<txmb_idx_rd, txmb_idx_wr, lost_tx_msg_cnt, fifo, cpu, msg, tpi>>

AddAdvance(c) ==
  /\ Step(c, "add_advance", "add_full")
  /\ txmb_idx_wr' = Following(txmb_idx_wr)
  /\ UNCHANGED <<txmsgbuf, txmb_idx_rd, lost_tx_msg_cnt, added, fifo, cpu, msg, tpi>>

\* Mutant: counts the loss and leaves the read index where it is.
AddFullStays(c) ==
  /\ Step(c, "add_full", "add_unmask")
  /\ lost_tx_msg_cnt' = lost_tx_msg_cnt + IF txmb_idx_wr = txmb_idx_rd THEN 1 ELSE 0
  /\ UNCHANGED <<txmsgbuf, txmb_idx_rd, txmb_idx_wr, added, fifo, cpu, msg, tpi>>

\* A full buffer loses its oldest message.
AddFull(c) ==
  /\ Step(c, "add_full", "add_unmask")
  /\ IF txmb_idx_wr = txmb_idx_rd
       THEN /\ lost_tx_msg_cnt' = lost_tx_msg_cnt + 1
            /\ txmb_idx_rd' = Following(txmb_idx_rd)
       ELSE UNCHANGED <<txmb_idx_rd, lost_tx_msg_cnt>>
  /\ UNCHANGED <<txmsgbuf, txmb_idx_wr, added, fifo, cpu, msg, tpi>>

AddUnmask(c) ==
  /\ Step(c, "add_unmask", HandleTxEntry)
  /\ Restore(c)
  /\ UNCHANGED <<ring, fifo, msg, tpi>>

-----------------------------------------------------------------------------
(* HandleTx, with TryGetTxMessage inside it. *)

HandleTx(c) ==
  /\ Enter(c, HandleTxEntry)
  /\ UNCHANGED <<ring, fifo, cpu, msg, tpi>>

TxMask(c) ==
  /\ Step(c, "tx_mask", "tx_test")
  /\ SaveAndDisable(c)
  /\ UNCHANGED <<ring, fifo, msg, tpi>>

\* Mutant: return where the code has break.
HandleTxReturn == "rest"

HandleTxExit == IF Masked THEN "tx_unmask" ELSE "rest"

TxTest(c) ==
  /\ Step(c, "tx_test", IF HasTxMessage THEN "tx_status" ELSE HandleTxExit)
  /\ UNCHANGED <<ring, fifo, cpu, msg, tpi>>

FifoFull == Cardinality(request) = FifoSize

\* TXFQS is read once: full flag and put index.
TxStatus(c) ==
  /\ Step(c, "tx_status", IF FifoFull THEN HandleTxExit ELSE "get_mask")
  /\ tpi' = [tpi EXCEPT ![c] = put]
  /\ UNCHANGED <<ring, fifo, cpu, msg>>

GetMask(c) ==
  /\ Step(c, "get_mask", "get_copy")
  /\ SaveAndDisable(c)
  /\ UNCHANGED <<ring, fifo, msg, tpi>>

GetCopy(c) ==
  /\ Step(c, "get_copy", IF HasTxMessage THEN "get_advance" ELSE "get_unmask")
  /\ msg' = [msg EXCEPT ![c] = IF HasTxMessage THEN txmsgbuf[txmb_idx_rd]
                                               ELSE NoMsg]
  /\ UNCHANGED <<ring, fifo, cpu, tpi>>

GetAdvance(c) ==
  /\ Step(c, "get_advance", "get_unmask")
  /\ txmb_idx_rd' = Following(txmb_idx_rd)
  /\ UNCHANGED <<txmsgbuf, txmb_idx_wr, lost_tx_msg_cnt, added, fifo, cpu, msg, tpi>>

GetUnmask(c) ==
  /\ Step(c, "get_unmask", IF msg[c] = NoMsg THEN HandleTxExit ELSE "tx_store")
  /\ Restore(c)
  /\ UNCHANGED <<ring, fifo, msg, tpi>>

TxStore(c) ==
  /\ Step(c, "tx_store", "tx_request")
  /\ txfifo' = [txfifo EXCEPT ![tpi[c]] = msg[c]]
  /\ UNCHANGED <<ring, put, get, request, wire, cpu, msg, tpi>>

\* TXBAR: the controller adds the request and moves its put index on; a
\* request that is already there stays as it is.
TxRequest(c) ==
  /\ Step(c, "tx_request", IF Masked THEN "tx_test" ELSE "rest")
  /\ request' = request \cup {tpi[c]}
  /\ put' = IF tpi[c] \in request THEN put ELSE (put + 1) % FifoSize
  /\ msg' = [msg EXCEPT ![c] = NoMsg]
  /\ UNCHANGED <<ring, txfifo, get, wire, cpu, tpi>>

TxUnmask(c) ==
  /\ Step(c, "tx_unmask", "rest")
  /\ Restore(c)
  /\ UNCHANGED <<ring, fifo, msg, tpi>>

\* The controller sends the message at its get index.
Transmit ==
  /\ get \in request
  /\ wire' = Append(wire, txfifo[get])
  /\ request' = request \ {get}
  /\ get' = (get + 1) % FifoSize
  /\ UNCHANGED <<ring, txfifo, put, cpu, pc, msg, tpi>>

-----------------------------------------------------------------------------
Init ==
  /\ txmsgbuf = [i \in Ring |-> NoMsg]
  /\ txmb_idx_rd = 0 /\ txmb_idx_wr = 0
  /\ lost_tx_msg_cnt = 0
  /\ txfifo = [i \in Slot |-> NoMsg]
  /\ put = 0 /\ get = 0
  /\ request = {}
  /\ primask = FALSE
  /\ pc = [c \in Context |-> "rest"]
  /\ saved = [c \in Context |-> <<>>]
  /\ msg = [c \in Context |-> NoMsg]
  /\ tpi = [c \in Context |-> 0]
  /\ added = 0
  /\ wire = <<>>

\* The next step of a call under way.
Continue(c) ==
  \/ AddMask(c)
  \/ AddStore(c)
  \/ AddAdvance(c)
  \/ AddFull(c)
  \/ AddUnmask(c)
  \/ TxMask(c)
  \/ TxTest(c)
  \/ TxStatus(c)
  \/ GetMask(c)
  \/ GetCopy(c)
  \/ GetAdvance(c)
  \/ GetUnmask(c)
  \/ TxStore(c)
  \/ TxRequest(c)
  \/ TxUnmask(c)

Next ==
  \/ \E c \in Context : StartSendMessage(c) \/ HandleTx(c) \/ Continue(c)
  \/ Transmit

\* The processor runs, the main loop keeps calling HandleTx, the bus works;
\* interrupts need not come.
Fairness ==
  /\ \A c \in Context : WF_vars(Continue(c))
  /\ WF_vars(HandleTx("idle"))
  /\ WF_vars(Transmit)

Spec == Init /\ [][Next]_vars /\ Fairness
-----------------------------------------------------------------------------
(* Properties. *)

Msg == 1 .. (MaxMsgs + 1)

\* Every variable keeps its type; a message is stored, copied and sent only
\* where one was put.
TypeOK ==
  /\ txmsgbuf \in [Ring -> Msg \cup {NoMsg}]
  /\ txmb_idx_rd \in Ring
  /\ txmb_idx_wr \in Ring
  /\ lost_tx_msg_cnt \in 0 .. added
  /\ txfifo \in [Slot -> Msg \cup {NoMsg}]
  /\ put \in Slot
  /\ get \in Slot
  /\ request \subseteq Slot
  /\ primask \in BOOLEAN
  /\ pc \in [Context -> {"rest", "add_mask", "add_store", "add_advance",
                         "add_full", "add_unmask", "tx_mask", "tx_test",
                         "tx_status", "get_mask", "get_copy", "get_advance",
                         "get_unmask", "tx_store", "tx_request", "tx_unmask"}]
  /\ saved \in [Context -> Seq(BOOLEAN)]
  /\ msg \in [Context -> Msg \cup {NoMsg}]
  /\ tpi \in [Context -> Slot]
  /\ added \in 0 .. (MaxMsgs + 1)
  /\ wire \in Seq(Msg)

\* The ring slots from the read index to the write index.
Occupied ==
  {i \in Ring : IF txmb_idx_rd <= txmb_idx_wr
                  THEN i >= txmb_idx_rd /\ i < txmb_idx_wr
                  ELSE i >= txmb_idx_rd \/ i < txmb_idx_wr}

Waiting == {txmsgbuf[i] : i \in Occupied}
InHand  == {msg[c] : c \in {d \in Context :
                              pc[d] \in {"get_unmask", "tx_store", "tx_request"}}}
             \ {NoMsg}
Pending == {txfifo[i] : i \in request}
Sent    == {wire[i] : i \in 1 .. Len(wire)}

\* The messages reach the wire in the order they were added, whichever of the
\* two contexts takes them out of the ring, and none of them twice.
WireInOrder ==
  \A i, j \in 1 .. Len(wire) : i < j => wire[i] < wire[j]

\* A message is on the wire, in the FIFO, in the hands of a context, in the
\* ring, or it is one of those lost_tx_msg_cnt counts: none vanishes
\* and none is in two of these places.
LostIsCounted ==
  (\A c \in Context : pc[c] \notin {"add_advance", "add_full"}) =>
     Cardinality(Sent) + Cardinality(Pending) + Cardinality(InHand)
       + Cardinality(Waiting) + lost_tx_msg_cnt = added

\* Nobody writes a slot of the FIFO that the controller has still to send.
PendingUntouched ==
  [][\A i \in request \cap request' : txfifo'[i] = txfifo[i]]_vars

\* Whatever the nesting of the sections that disable interrupts, and by
\* whichever early exit they are left, interrupts are enabled again when no
\* call is under way, and nothing saved is left over.
InterruptsRestored ==
  /\ \A c \in Context : pc[c] = "rest" => saved[c] = <<>>
  /\ (\A c \in Context : pc[c] = "rest") => ~primask

\* A message that was queued does not stay in the sender for ever, though
\* HandleTx gives up when the FIFO is full: with LostIsCounted, it is sent or
\* counted as lost.
NotStuck ==
  \A n \in Msg : n \in Waiting \cup InHand \cup Pending
                   ~> n \notin Waiting \cup InHand \cup Pending
=============================================================================
