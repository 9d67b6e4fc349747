---------------------------- MODULE HwCanTx_proofs ----------------------------
(***************************************************************************)
(* Proofs about the transmit path of CAN, for rings and FIFOs of any size, *)
(* any number of messages, and both forms of HandleTx.  Which sections run *)
(* with interrupts disabled is proved for both; that the order is kept and *)
(* every loss counted, for the form that disables interrupts around its    *)
(* loop, as it is false for the other.                                     *)
(***************************************************************************)
EXTENDS HwCanTx, FiniteSetTheorems, SequenceTheorems, TLAPS

\* The places of AddTxMessage, of TryGetTxMessage and of the rest of HandleTx
\* where interrupts are disabled.
InAdd  == {"add_store", "add_advance", "add_full", "add_unmask"}
InGet  == {"get_copy", "get_advance", "get_unmask"}
InLoop == {"tx_test", "tx_status", "get_mask", "tx_store", "tx_request"}

Section(p) ==
  \/ p \in InAdd \cup InGet
  \/ Masked /\ p \in InLoop \cup {"tx_unmask"}

\* The interrupt states saved there.
SavedAt(p) ==
  IF ~Section(p) THEN <<>>
  ELSE IF Masked /\ p \in InGet THEN <<FALSE, TRUE>>
  ELSE <<FALSE>>

\* One context at a time is in a section, with interrupts disabled.
SectionInv ==
  /\ \A c \in Context : saved[c] = SavedAt(pc[c])
  /\ primask <=> \E c \in Context : Section(pc[c])
  /\ pc["irq"] # "rest" => ~Section(pc["idle"])
  /\ ~Masked => \A c \in Context : pc[c] \notin {"tx_mask", "tx_unmask"}

\* A message is counted as added before it can be counted as lost, and each
\* context may have one on its way in.
Arriving(p) == IF p \in {"add_mask", "add_store"} THEN 1 ELSE 0
Entering(p) == IF p \in {"add_advance", "add_full"} THEN 1 ELSE 0

CountInv ==
  /\ lost_tx_msg_cnt + Entering(pc["idle"]) + Entering(pc["irq"]) <= added
  /\ added + Arriving(pc["idle"]) + Arriving(pc["irq"]) <= MaxMsgs + 1

\* What is requested, or about to be, is a message.
MessageInv ==
  /\ \A i \in request : txfifo[i] \in Msg
  /\ \A c \in Context :
       /\ pc[c] \in {"tx_store", "tx_request"} => msg[c] \in Msg
       /\ pc[c] = "tx_request" => txfifo[tpi[c]] \in Msg

\* The inductive invariant of the types and of the interrupt states.
IInv == TypeOK /\ SectionInv /\ CountInv /\ MessageInv

-----------------------------------------------------------------------------
(* The sections with interrupts disabled. *)

\* What a context has saved in each place.
LEMMA SavedLevels ==
  /\ \A p \in {"rest", "add_mask", "tx_mask"} : SavedAt(p) = <<>>
  /\ \A p \in InAdd : SavedAt(p) = <<FALSE>>
  /\ \A p \in InGet : SavedAt(p) = IF Masked THEN <<FALSE, TRUE>> ELSE <<FALSE>>
  /\ \A p \in InLoop \cup {"tx_unmask"} : SavedAt(p) = IF Masked THEN <<FALSE>> ELSE <<>>
  BY DEF SavedAt, Section, InAdd, InGet, InLoop

\* A section has saved something.
LEMMA SectionSaves ==
  ASSUME NEW p
  PROVE  Section(p) <=> SavedAt(p) # <<>>
<1>1. <<>> # <<FALSE>> /\ <<>> # <<FALSE, TRUE>>
  OBVIOUS
<1> QED BY <1>1 DEF SavedAt

\* The inner place is one section deeper than the outer one.
Deeper(outer, inner) ==
  \/ SavedAt(outer) = <<>> /\ SavedAt(inner) = <<FALSE>>
  \/ SavedAt(outer) = <<FALSE>> /\ SavedAt(inner) = <<FALSE, TRUE>>

LEMMA DeeperSaves ==
  ASSUME NEW outer, NEW inner, Deeper(outer, inner),
         NEW level \in BOOLEAN, level <=> Section(outer)
  PROVE  /\ SavedAt(inner) = Append(SavedAt(outer), level)
         /\ SavedAt(outer) \in Seq(BOOLEAN)
         /\ Section(inner)
<1>1. \A a, b : <<a, b>> = Append(<<a>>, b)
  OBVIOUS
<1>2. /\ <<>> # <<FALSE>> /\ <<>> # <<FALSE, TRUE>>
      /\ <<>> \in Seq(BOOLEAN) /\ <<FALSE>> \in Seq(BOOLEAN)
      /\ <<FALSE>> = Append(<<>>, FALSE)
  OBVIOUS
<1>3. <<FALSE, TRUE>> = Append(<<FALSE>>, TRUE)
  BY <1>1, Zenon
<1>4. CASE SavedAt(outer) = <<>> /\ SavedAt(inner) = <<FALSE>>
  <2>1. level = FALSE
    BY <1>4, SectionSaves
  <2> QED BY <1>2, <1>4, <2>1, SectionSaves
<1>5. CASE SavedAt(outer) = <<FALSE>> /\ SavedAt(inner) = <<FALSE, TRUE>>
  <2>1. level = TRUE
    BY <1>2, <1>5, SectionSaves
  <2> QED BY <1>2, <1>3, <1>5, <2>1, SectionSaves
<1> QED BY <1>4, <1>5 DEF Deeper

\* While a context takes a step, the other one is in no section.
LEMMA OtherOutside ==
  ASSUME TypeOK, SectionInv, NEW c \in Context, NEW from, NEW to, Step(c, from, to),
         c = "irq" /\ from = "rest" => ~primask
  PROVE  /\ \A d \in Context \ {c} : ~Section(pc[d])
         /\ c = "irq" => ~Section(pc["idle"])
         /\ primask <=> Section(from)
         /\ pc' = [pc EXCEPT ![c] = to]
         /\ pc[c] = from
  BY DEF TypeOK, SectionInv, Step, Context, Section, InAdd, InGet, InLoop

\* The context that takes the step decides alone about the mask.
LEMMA OneDecides ==
  ASSUME TypeOK, SectionInv, NEW c \in Context, NEW from, NEW to, Step(c, from, to),
         c = "irq" /\ from = "rest" => ~primask,
         ~Masked => to \notin {"tx_mask", "tx_unmask"},
         saved' = [saved EXCEPT ![c] = SavedAt(to)],
         primask' <=> Section(to)
  PROVE  SectionInv'
<1>1. DOMAIN saved = Context /\ DOMAIN pc = Context
  BY DEF TypeOK
<1>2. /\ saved'[c] = SavedAt(to) /\ pc'[c] = to
      /\ \A d \in Context \ {c} : saved'[d] = saved[d] /\ pc'[d] = pc[d]
  BY <1>1, OtherOutside
<1>3. \A d \in Context : saved'[d] = SavedAt(pc'[d])
  BY <1>2 DEF SectionInv
<1>4. primask' <=> \E d \in Context : Section(pc'[d])
  BY <1>2, OtherOutside
<1>5. pc'["irq"] # "rest" => ~Section(pc'["idle"])
  BY <1>2, OtherOutside DEF SectionInv, Context, Step
<1>6. ~Masked => \A d \in Context : pc'[d] \notin {"tx_mask", "tx_unmask"}
  BY <1>2 DEF SectionInv
<1> QED BY <1>3, <1>4, <1>5, <1>6 DEF SectionInv

\* A step that leaves the interrupt mask alone stays at its level.
LEMMA SameLevel ==
  ASSUME TypeOK, SectionInv, NEW c \in Context, NEW from, NEW to, Step(c, from, to),
         c = "irq" /\ from = "rest" => ~primask,
         SavedAt(from) = SavedAt(to),
         ~Masked => to \notin {"tx_mask", "tx_unmask"},
         UNCHANGED cpu
  PROVE  SectionInv'
<1>1. primask' <=> Section(to)
  <2>1. Section(from) <=> Section(to)
    BY SectionSaves
  <2> QED BY <2>1, OtherOutside DEF cpu, Section
<1>2. saved' = [saved EXCEPT ![c] = SavedAt(to)]
  BY OtherOutside DEF TypeOK, SectionInv, cpu
<1> QED BY <1>1, <1>2, OneDecides

\* A step that saves the mask and disables interrupts goes one level down.
LEMMA LevelDown ==
  ASSUME TypeOK, SectionInv, NEW c \in Context, NEW from, NEW to, Step(c, from, to),
         from # "rest",
         Deeper(from, to), to \notin {"tx_mask", "tx_unmask"},
         SaveAndDisable(c)
  PROVE  SectionInv'
<1>1. primask \in BOOLEAN /\ (primask <=> Section(from))
  BY OtherOutside DEF TypeOK
<1>2. /\ SavedAt(to) = Append(SavedAt(from), primask)
      /\ Section(to)
  BY <1>1, DeeperSaves
<1>3. saved' = [saved EXCEPT ![c] = SavedAt(to)]
  BY <1>2, OtherOutside DEF SectionInv, SaveAndDisable
<1>4. primask' <=> Section(to)
  BY <1>2 DEF SaveAndDisable
<1> QED BY <1>3, <1>4, OneDecides

\* A step that restores the mask comes back up.
LEMMA LevelUp ==
  ASSUME TypeOK, SectionInv, NEW c \in Context, NEW from, NEW to, Step(c, from, to),
         from # "rest",
         Deeper(to, from),
         ~Masked => to \notin {"tx_mask", "tx_unmask"},
         Restore(c)
  PROVE  SectionInv'
<1>1. PICK level \in BOOLEAN : level <=> Section(to)
  OBVIOUS
<1>2. /\ saved[c] = Append(SavedAt(to), level)
      /\ SavedAt(to) \in Seq(BOOLEAN)
  BY <1>1, DeeperSaves, OtherOutside DEF SectionInv
<1>3. /\ Len(saved[c]) = Len(SavedAt(to)) + 1
      /\ Len(SavedAt(to)) \in Nat
  BY <1>2
<1>4. SubSeq(saved[c], 1, Len(saved[c]) - 1) = SavedAt(to)
  BY <1>2, <1>3
<1>5. saved[c][Len(saved[c])] = level
  BY <1>2, <1>3
<1>6. /\ saved' = [saved EXCEPT ![c] = SavedAt(to)]
      /\ primask' = level
  BY <1>4, <1>5 DEF Restore
<1> QED BY <1>1, <1>6, OneDecides

\* A step without a change of the mask.
LEMMA LevelSteps ==
  ASSUME TypeOK, SectionInv, NEW c \in Context,
         \/ StartSendMessage(c) \/ HandleTx(c)
         \/ AddStore(c) \/ AddAdvance(c) \/ AddFull(c)
         \/ TxTest(c) \/ TxStatus(c) \/ GetCopy(c) \/ GetAdvance(c)
         \/ TxStore(c) \/ TxRequest(c)
  PROVE  SectionInv'
<1>1. CASE StartSendMessage(c)
  <2>1. /\ Step(c, "rest", "add_mask")
        /\ c = "irq" => ~primask
        /\ UNCHANGED cpu
    BY <1>1 DEF StartSendMessage, Enter
  <2> QED BY <2>1, SavedLevels, SameLevel
<1>2. CASE HandleTx(c)
  <2>1. /\ Step(c, "rest", HandleTxEntry)
        /\ c = "irq" => ~primask
        /\ UNCHANGED cpu
    BY <1>2 DEF HandleTx, Enter
  <2>2. SavedAt(HandleTxEntry) = SavedAt("rest")
    BY SavedLevels DEF HandleTxEntry, InLoop
  <2> QED BY <2>1, <2>2, SameLevel DEF HandleTxEntry
<1>3. CASE AddStore(c)
  <2>1. Step(c, "add_store", "add_advance") /\ UNCHANGED cpu
    BY <1>3 DEF AddStore
  <2> QED BY <2>1, SavedLevels, SameLevel DEF InAdd
<1>4. CASE AddAdvance(c)
  <2>1. Step(c, "add_advance", "add_full") /\ UNCHANGED cpu
    BY <1>4 DEF AddAdvance
  <2> QED BY <2>1, SavedLevels, SameLevel DEF InAdd
<1>5. CASE AddFull(c)
  <2>1. Step(c, "add_full", "add_unmask") /\ UNCHANGED cpu
    BY <1>5 DEF AddFull
  <2> QED BY <2>1, SavedLevels, SameLevel DEF InAdd
<1>6. SavedAt("tx_test") = SavedAt(HandleTxExit)
  BY SavedLevels, ConfigAssumption DEF HandleTxExit, InLoop
<1>7. CASE TxTest(c)
  <2>1. /\ Step(c, "tx_test", "tx_status") \/ Step(c, "tx_test", HandleTxExit)
        /\ UNCHANGED cpu
    BY <1>7 DEF TxTest
  <2>2. SavedAt("tx_test") = SavedAt("tx_status")
    BY SavedLevels, ConfigAssumption DEF InLoop
  <2> QED BY <1>6, <2>1, <2>2, SameLevel DEF HandleTxExit
<1>8. CASE TxStatus(c)
  <2>1. /\ Step(c, "tx_status", "get_mask") \/ Step(c, "tx_status", HandleTxExit)
        /\ UNCHANGED cpu
    BY <1>8 DEF TxStatus
  <2>2. SavedAt("tx_test") = SavedAt("tx_status") /\ SavedAt("tx_test") = SavedAt("get_mask")
    BY SavedLevels, ConfigAssumption DEF InLoop
  <2> QED BY <1>6, <2>1, <2>2, SameLevel DEF HandleTxExit
<1>9. CASE GetCopy(c)
  <2>1. /\ Step(c, "get_copy", "get_advance") \/ Step(c, "get_copy", "get_unmask")
        /\ UNCHANGED cpu
    BY <1>9 DEF GetCopy
  <2> QED BY <2>1, SavedLevels, ConfigAssumption, SameLevel DEF InGet
<1>10. CASE GetAdvance(c)
  <2>1. Step(c, "get_advance", "get_unmask") /\ UNCHANGED cpu
    BY <1>10 DEF GetAdvance
  <2> QED BY <2>1, SavedLevels, ConfigAssumption, SameLevel DEF InGet
<1>11. CASE TxStore(c)
  <2>1. Step(c, "tx_store", "tx_request") /\ UNCHANGED cpu
    BY <1>11 DEF TxStore
  <2> QED BY <2>1, SavedLevels, ConfigAssumption, SameLevel DEF InLoop
<1>12. CASE TxRequest(c)
  <2>1. Step(c, "tx_request", IF Masked THEN "tx_test" ELSE "rest") /\ UNCHANGED cpu
    BY <1>12 DEF TxRequest
  <2>2. SavedAt("tx_request") = SavedAt(IF Masked THEN "tx_test" ELSE "rest")
    BY SavedLevels, ConfigAssumption DEF InLoop
  <2> QED BY <2>1, <2>2, SameLevel
<1> QED
  BY <1>1, <1>2, <1>3, <1>4, <1>5, <1>7, <1>8, <1>9, <1>10, <1>11, <1>12

\* A step that changes the mask.
LEMMA MaskSteps ==
  ASSUME TypeOK, SectionInv, NEW c \in Context,
         \/ AddMask(c) \/ TxMask(c) \/ GetMask(c)
         \/ AddUnmask(c) \/ GetUnmask(c) \/ TxUnmask(c)
  PROVE  SectionInv'
<1>1. CASE AddMask(c)
  <2>1. Step(c, "add_mask", "add_store") /\ SaveAndDisable(c)
    BY <1>1 DEF AddMask
  <2>2. Deeper("add_mask", "add_store")
    BY SavedLevels DEF Deeper, InAdd
  <2> QED BY <2>1, <2>2, LevelDown
<1>2. CASE TxMask(c)
  <2>1. Step(c, "tx_mask", "tx_test") /\ SaveAndDisable(c)
    BY <1>2 DEF TxMask
  <2>2. Masked
    BY <2>1 DEF SectionInv, Step
  <2>3. Deeper("tx_mask", "tx_test")
    BY <2>2, SavedLevels DEF Deeper, InLoop
  <2> QED BY <2>1, <2>3, LevelDown
<1>3. CASE GetMask(c)
  <2>1. Step(c, "get_mask", "get_copy") /\ SaveAndDisable(c)
    BY <1>3 DEF GetMask
  <2>2. Deeper("get_mask", "get_copy")
    BY SavedLevels, ConfigAssumption DEF Deeper, InGet, InLoop
  <2> QED BY <2>1, <2>2, LevelDown
<1>4. CASE AddUnmask(c)
  <2>1. Step(c, "add_unmask", HandleTxEntry) /\ Restore(c)
    BY <1>4 DEF AddUnmask
  <2>2. /\ Deeper(HandleTxEntry, "add_unmask")
        /\ ~Masked => HandleTxEntry \notin {"tx_mask", "tx_unmask"}
    BY SavedLevels DEF Deeper, InAdd, InLoop, HandleTxEntry
  <2> QED BY <2>1, <2>2, LevelUp
<1>5. CASE GetUnmask(c)
  <2>1. PICK to \in {HandleTxExit, "tx_store"} : Step(c, "get_unmask", to) /\ Restore(c)
    BY <1>5 DEF GetUnmask
  <2>2. /\ Deeper(to, "get_unmask")
        /\ ~Masked => to \notin {"tx_mask", "tx_unmask"}
    BY SavedLevels, ConfigAssumption DEF Deeper, InGet, InLoop, HandleTxExit
  <2> QED BY <2>1, <2>2, LevelUp
<1>6. CASE TxUnmask(c)
  <2>1. Step(c, "tx_unmask", "rest") /\ Restore(c)
    BY <1>6 DEF TxUnmask
  <2>2. Masked
    BY <2>1 DEF SectionInv, Step
  <2>3. Deeper("rest", "tx_unmask")
    BY <2>2, SavedLevels DEF Deeper
  <2> QED BY <2>1, <2>3, LevelUp
<1> QED BY <1>1, <1>2, <1>3, <1>4, <1>5, <1>6

-----------------------------------------------------------------------------
(* Types, counters and messages. *)

\* The index after a place of the ring is a place of the ring.
LEMMA FollowingInRing ==
  ASSUME NEW i \in Ring
  PROVE  Following(i) \in Ring
  BY ConfigAssumption DEF Ring, Following

\* The slot after a slot of the FIFO.
LEMMA NextSlot ==
  ASSUME NEW i \in Slot
  PROVE  /\ (i + 1) % FifoSize \in Slot
         /\ (i + 1) % FifoSize = IF i + 1 = FifoSize THEN 0 ELSE i + 1
<1>1. CASE i + 1 = FifoSize
  <2>1. FifoSize % FifoSize = 0
    BY ConfigAssumption
  <2> QED BY <1>1, <2>1, ConfigAssumption DEF Slot
<1>2. CASE i + 1 < FifoSize
  BY <1>2, ConfigAssumption DEF Slot
<1> QED BY <1>1, <1>2, ConfigAssumption DEF Slot

\* A step of a call.
CallStep(c) == StartSendMessage(c) \/ HandleTx(c) \/ Continue(c)

\* The few steps that change the ring, the FIFO and the message in hand.
LEMMA Frame ==
  ASSUME NEW c \in Context, CallStep(c)
  PROVE  /\ UNCHANGED ring \/ AddStore(c) \/ AddAdvance(c) \/ AddFull(c) \/ GetAdvance(c)
         /\ UNCHANGED fifo \/ TxStore(c) \/ TxRequest(c)
         /\ UNCHANGED msg \/ GetCopy(c) \/ TxRequest(c)
         /\ UNCHANGED tpi \/ TxStatus(c)
  BY DEF CallStep, Continue, StartSendMessage, HandleTx, AddMask, AddStore, AddAdvance,
         AddFull, AddUnmask, TxMask, TxTest, TxStatus, GetMask, GetCopy, GetAdvance,
         GetUnmask, TxStore, TxRequest, TxUnmask

\* The place of the context says which step it is.
LEMMA ActionAt ==
  ASSUME NEW c \in Context, CallStep(c)
  PROVE  /\ pc[c] = "rest" => StartSendMessage(c) \/ HandleTx(c)
         /\ pc[c] = "add_mask" => AddMask(c)
         /\ pc[c] = "add_store" => AddStore(c)
         /\ pc[c] = "add_advance" => AddAdvance(c)
         /\ pc[c] = "add_full" => AddFull(c)
         /\ pc[c] = "add_unmask" => AddUnmask(c)
         /\ pc[c] = "tx_test" => TxTest(c)
         /\ pc[c] = "tx_status" => TxStatus(c)
         /\ pc[c] = "get_mask" => GetMask(c)
         /\ pc[c] = "get_copy" => GetCopy(c)
         /\ pc[c] = "get_advance" => GetAdvance(c)
         /\ pc[c] = "get_unmask" => GetUnmask(c)
         /\ pc[c] = "tx_store" => TxStore(c)
         /\ pc[c] = "tx_request" => TxRequest(c)
  BY DEF CallStep, Continue, Step, Enter, StartSendMessage, HandleTx, AddMask, AddStore,
         AddAdvance, AddFull, AddUnmask, TxMask, TxTest, TxStatus, GetMask, GetCopy,
         GetAdvance, GetUnmask, TxStore, TxRequest, TxUnmask

\* Where a step leads.
Place == {"rest", "add_mask", "add_store", "add_advance", "add_full", "add_unmask",
          "tx_mask", "tx_test", "tx_status", "get_mask", "get_copy", "get_advance",
          "get_unmask", "tx_store", "tx_request", "tx_unmask"}

\* The steps between them.
Moves ==
  {<<"rest", "add_mask">>, <<"add_mask", "add_store">>, <<"add_store", "add_advance">>,
   <<"add_advance", "add_full">>, <<"add_full", "add_unmask">>,
   <<"add_unmask", "tx_mask">>, <<"add_unmask", "tx_test">>,
   <<"rest", "tx_mask">>, <<"rest", "tx_test">>, <<"tx_mask", "tx_test">>,
   <<"tx_test", "tx_status">>, <<"tx_test", "tx_unmask">>, <<"tx_test", "rest">>,
   <<"tx_status", "get_mask">>, <<"tx_status", "tx_unmask">>, <<"tx_status", "rest">>,
   <<"get_mask", "get_copy">>, <<"get_copy", "get_advance">>, <<"get_copy", "get_unmask">>,
   <<"get_advance", "get_unmask">>, <<"get_unmask", "tx_store">>,
   <<"get_unmask", "tx_unmask">>, <<"get_unmask", "rest">>, <<"tx_store", "tx_request">>,
   <<"tx_request", "tx_test">>, <<"tx_request", "rest">>, <<"tx_unmask", "rest">>}

LEMMA StepMoves ==
  ASSUME NEW c \in Context, CallStep(c)
  PROVE  \E m \in Moves : Step(c, m[1], m[2])
<1> USE DEF Moves
<1>1. CASE StartSendMessage(c) \/ HandleTx(c)
  BY <1>1 DEF StartSendMessage, HandleTx, Enter, HandleTxEntry
<1>2. CASE AddMask(c) \/ AddStore(c) \/ AddAdvance(c) \/ AddFull(c) \/ AddUnmask(c)
  BY <1>2 DEF AddMask, AddStore, AddAdvance, AddFull, AddUnmask, HandleTxEntry
<1>3. CASE TxMask(c) \/ TxTest(c) \/ TxStatus(c) \/ TxStore(c) \/ TxRequest(c) \/ TxUnmask(c)
  BY <1>3 DEF TxMask, TxTest, TxStatus, TxStore, TxRequest, TxUnmask, HandleTxExit
<1>4. CASE GetMask(c) \/ GetCopy(c) \/ GetAdvance(c) \/ GetUnmask(c)
  BY <1>4 DEF GetMask, GetCopy, GetAdvance, GetUnmask, HandleTxExit
<1> QED BY <1>1, <1>2, <1>3, <1>4 DEF CallStep, Continue

\* The places that a step of one context leaves and reaches.
LEMMA PcStep ==
  ASSUME TypeOK, NEW c \in Context, CallStep(c)
  PROVE  /\ pc' \in [Context -> Place]
         /\ <<pc[c], pc'[c]>> \in Moves
         /\ \A d \in Context \ {c} : pc'[d] = pc[d]
<1>1. PICK m \in Moves : Step(c, m[1], m[2])
  BY StepMoves
<1>2. m[1] \in Place /\ m[2] \in Place /\ m = <<m[1], m[2]>>
  BY DEF Moves, Place
<1>3. pc \in [Context -> Place] /\ pc[c] = m[1] /\ pc' = [pc EXCEPT ![c] = m[2]]
  BY <1>1 DEF TypeOK, Place, Step
<1> QED BY <1>2, <1>3

\* A step that takes up no message and counts none keeps the counts.
LEMMA CountStep ==
  ASSUME TypeOK, CountInv, NEW c \in Context, CallStep(c)
  PROVE  /\ CountInv'
         /\ added' \in 0 .. (MaxMsgs + 1)
         /\ lost_tx_msg_cnt' \in 0 .. added'
<1> DEFINE other == CHOOSE d \in Context : d # c
<1>1. other \in Context /\ other # c /\ Context = {c, other}
  BY DEF Context
<1>2. /\ added \in Nat /\ lost_tx_msg_cnt \in Nat
      /\ lost_tx_msg_cnt + Entering(pc[c]) + Entering(pc[other]) <= added
      /\ added + Arriving(pc[c]) + Arriving(pc[other]) <= MaxMsgs + 1
  BY <1>1, ConfigAssumption DEF TypeOK, CountInv, Context, Entering, Arriving
<1>3. \A p : Arriving(p) \in {0, 1} /\ Entering(p) \in {0, 1}
  BY DEF Arriving, Entering
<1>4. /\ added' \in Nat /\ lost_tx_msg_cnt' \in Nat
      /\ lost_tx_msg_cnt' + Entering(pc'[c]) + Entering(pc[other]) <= added'
      /\ added' + Arriving(pc'[c]) + Arriving(pc[other]) <= MaxMsgs + 1
  <2>1. CASE StartSendMessage(c)
    <3>1. added < MaxMsgs /\ UNCHANGED <<added, lost_tx_msg_cnt>>
      BY <2>1 DEF StartSendMessage, ring
    <3>2. pc[c] = "rest" /\ pc'[c] = "add_mask"
      BY <2>1 DEF StartSendMessage, Enter, Step, TypeOK
    <3> QED BY <1>2, <1>3, <3>1, <3>2, ConfigAssumption DEF Arriving, Entering
  <2>2. CASE AddStore(c)
    <3>1. added' = added + 1 /\ UNCHANGED lost_tx_msg_cnt
      BY <2>2 DEF AddStore
    <3>2. pc[c] = "add_store" /\ pc'[c] = "add_advance"
      BY <2>2 DEF AddStore, Step, TypeOK
    <3> QED BY <1>2, <1>3, <3>1, <3>2, ConfigAssumption DEF Arriving, Entering
  <2>3. CASE AddFull(c)
    <3>1. lost_tx_msg_cnt' \in {lost_tx_msg_cnt, lost_tx_msg_cnt + 1} /\ UNCHANGED added
      BY <2>3 DEF AddFull
    <3>2. pc[c] = "add_full" /\ pc'[c] = "add_unmask"
      BY <2>3 DEF AddFull, Step, TypeOK
    <3>3. /\ Entering(pc[c]) = 1 /\ Entering(pc'[c]) = 0
          /\ Arriving(pc[c]) = 0 /\ Arriving(pc'[c]) = 0
      BY <3>2 DEF Arriving, Entering
    <3> QED BY <1>2, <1>3, <3>1, <3>3, ConfigAssumption
  <2>4. CASE ~(StartSendMessage(c) \/ AddStore(c) \/ AddFull(c))
    <3>1. UNCHANGED <<added, lost_tx_msg_cnt>>
      BY <2>4, Frame DEF ring, AddAdvance, GetAdvance
    <3>2. <<pc[c], pc'[c]>> \in Moves
      BY PcStep
    <3>3. /\ pc[c] = "rest" => pc'[c] # "add_mask"
          /\ pc[c] # "add_store"
      BY <2>4, ActionAt DEF HandleTx, Enter, Step, HandleTxEntry, TypeOK
    <3>4. Arriving(pc'[c]) <= Arriving(pc[c]) /\ Entering(pc'[c]) <= Entering(pc[c])
      BY <3>2, <3>3 DEF Moves, Arriving, Entering
    <3> QED BY <1>2, <1>3, <3>1, <3>4, ConfigAssumption
  <2> QED BY <2>1, <2>2, <2>3, <2>4
<1>5. pc'[other] = pc[other]
  BY <1>1, PcStep
<1>6. CountInv'
  BY <1>1, <1>3, <1>4, <1>5 DEF CountInv, Context
<1> QED BY <1>3, <1>4, <1>6, ConfigAssumption

\* The ring keeps its type.
LEMMA RingTypes ==
  ASSUME TypeOK, CountInv, NEW c \in Context, CallStep(c)
  PROVE  /\ txmsgbuf' \in [Ring -> Msg \cup {NoMsg}]
         /\ txmb_idx_rd' \in Ring
         /\ txmb_idx_wr' \in Ring
<1> USE DEF TypeOK
<1>1. CASE AddStore(c)
  <2>1. added' \in Msg
    BY <1>1, CountStep, ConfigAssumption DEF AddStore, Msg
  <2> QED BY <1>1, <2>1 DEF AddStore
<1>2. CASE AddAdvance(c) \/ AddFull(c) \/ GetAdvance(c)
  BY <1>2, FollowingInRing DEF AddAdvance, AddFull, GetAdvance
<1>3. CASE UNCHANGED ring
  BY <1>3 DEF ring
<1> QED BY <1>1, <1>2, <1>3, Frame

\* The FIFO keeps its type, and so do the messages in hand.
LEMMA FifoTypes ==
  ASSUME TypeOK, MessageInv, NEW c \in Context, CallStep(c)
  PROVE  /\ txfifo' \in [Slot -> Msg \cup {NoMsg}]
         /\ put' \in Slot /\ get' \in Slot /\ request' \subseteq Slot
         /\ wire' \in Seq(Msg)
         /\ msg' \in [Context -> Msg \cup {NoMsg}]
         /\ tpi' \in [Context -> Slot]
<1> USE DEF TypeOK
<1>1. msg' \in [Context -> Msg \cup {NoMsg}] /\ tpi' \in [Context -> Slot]
  BY Frame DEF GetCopy, TxRequest, TxStatus, HasTxMessage
<1>2. CASE UNCHANGED fifo
  BY <1>1, <1>2 DEF fifo
<1>3. CASE TxStore(c)
  BY <1>1, <1>3 DEF TxStore
<1>4. CASE TxRequest(c)
  BY <1>1, <1>4, NextSlot DEF TxRequest
<1> QED BY <1>2, <1>3, <1>4, Frame

\* What is requested is a message, and stays one.
LEMMA MessageStep ==
  ASSUME TypeOK, MessageInv, NEW c \in Context, CallStep(c)
  PROVE  MessageInv'
<1> DEFINE Ready == {"tx_store", "tx_request"}
<1>1. /\ DOMAIN msg = Context /\ DOMAIN tpi = Context /\ DOMAIN txfifo = Slot
      /\ msg \in [Context -> Msg \cup {NoMsg}] /\ tpi \in [Context -> Slot]
  BY DEF TypeOK
<1>2. /\ pc'[c] \in Ready => \/ pc[c] = "get_unmask" /\ pc'[c] = "tx_store"
                             \/ pc[c] = "tx_store" /\ pc'[c] = "tx_request"
      /\ \A d \in Context \ {c} : pc'[d] = pc[d]
  BY PcStep DEF Moves
<1>3. \A d \in Context \ {c} : msg'[d] = msg[d] /\ tpi'[d] = tpi[d]
  BY <1>1, Frame DEF GetCopy, TxRequest, TxStatus
<1>4. \A i \in Slot : txfifo'[i] # txfifo[i] => txfifo'[i] \in Msg
  BY <1>1, Frame DEF fifo, TxStore, TxRequest, MessageInv, Step
<1>5. \A i \in request' : txfifo'[i] \in Msg
  <2>1. \A i \in request' : i \in request \/ (TxRequest(c) /\ i = tpi[c])
    BY Frame DEF fifo, TxStore, TxRequest
  <2>2. TxRequest(c) => txfifo[tpi[c]] \in Msg
    BY DEF TxRequest, Step, MessageInv
  <2> QED BY <1>1, <1>4, <2>1, <2>2 DEF MessageInv, TypeOK
<1>6. ASSUME NEW d \in Context \ {c}
      PROVE  /\ pc'[d] \in Ready => msg'[d] \in Msg
             /\ pc'[d] = "tx_request" => txfifo'[tpi'[d]] \in Msg
  BY <1>1, <1>2, <1>3, <1>4 DEF MessageInv
<1>7. CASE pc[c] = "get_unmask" /\ pc'[c] = "tx_store"
  <2>1. GetUnmask(c)
    BY <1>7, ActionAt
  <2>2. msg[c] \in Msg /\ UNCHANGED msg
    BY <1>1, <1>7, <2>1 DEF GetUnmask, Step, TypeOK, HandleTxExit
  <2> QED BY <1>5, <1>6, <1>7, <2>2 DEF MessageInv
<1>8. CASE pc[c] = "tx_store" /\ pc'[c] = "tx_request"
  <2>1. TxStore(c)
    BY <1>8, ActionAt
  <2>2. msg[c] \in Msg /\ UNCHANGED <<msg, tpi>> /\ txfifo'[tpi[c]] = msg[c]
    BY <1>1, <1>8, <2>1 DEF TxStore, MessageInv
  <2> QED BY <1>5, <1>6, <1>8, <2>2 DEF MessageInv
<1>9. CASE pc'[c] \notin Ready
  BY <1>5, <1>6, <1>9 DEF MessageInv
<1> QED BY <1>2, <1>7, <1>8, <1>9

-----------------------------------------------------------------------------
(* The invariant. *)

\* A step of a call keeps the invariant.
LEMMA CallInv ==
  ASSUME IInv, NEW c \in Context, CallStep(c)
  PROVE  IInv'
<1>1. TypeOK /\ SectionInv /\ CountInv /\ MessageInv
  BY DEF IInv
<1>2. SectionInv'
  BY <1>1, LevelSteps, MaskSteps DEF CallStep, Continue
<1>3. CountInv' /\ MessageInv'
  BY <1>1, CountStep, MessageStep
<1>4. saved' \in [Context -> Seq(BOOLEAN)] /\ primask' \in BOOLEAN
  <2>1. \A d \in Context : saved'[d] \in Seq(BOOLEAN)
    <3>1. <<>> \in Seq(BOOLEAN) /\ <<FALSE>> \in Seq(BOOLEAN) /\ <<FALSE, TRUE>> \in Seq(BOOLEAN)
      OBVIOUS
    <3> QED BY <1>2, <3>1 DEF SectionInv, SavedAt
  <2>2. saved' = [d \in Context |-> saved'[d]]
    BY <1>1 DEF TypeOK, CallStep, Continue, StartSendMessage, HandleTx, AddMask, AddStore,
                AddAdvance, AddFull, AddUnmask, TxMask, TxTest, TxStatus, GetMask, GetCopy,
                GetAdvance, GetUnmask, TxStore, TxRequest, TxUnmask, SaveAndDisable, Restore, cpu
  <2>3. primask' \in BOOLEAN
    <3>1. CASE AddUnmask(c) \/ GetUnmask(c) \/ TxUnmask(c)
      <4>1. /\ pc[c] \in {"add_unmask", "get_unmask", "tx_unmask"} /\ Restore(c)
            /\ pc[c] = "tx_unmask" => Masked
        BY <1>1, <3>1 DEF AddUnmask, GetUnmask, TxUnmask, Step, SectionInv
      <4>2. saved[c] = <<FALSE>> \/ saved[c] = <<FALSE, TRUE>>
        BY <1>1, <4>1, SavedLevels DEF SectionInv, InAdd, InGet
      <4>3. saved[c] \in Seq(BOOLEAN) /\ Len(saved[c]) \in 1 .. 2
        <5>1. Len(<<FALSE>>) = 1 /\ Len(<<FALSE, TRUE>>) = 2
          OBVIOUS
        <5>2. saved[c] \in Seq(BOOLEAN)
          BY <1>1 DEF TypeOK
        <5>3. Len(saved[c]) = 1 \/ Len(saved[c]) = 2
          BY <4>2, <5>1, Zenon
        <5> QED BY <5>2, <5>3
      <4>4. saved[c][Len(saved[c])] \in BOOLEAN
        <5>1. \A s \in Seq(BOOLEAN) : \A n \in 1 .. Len(s) : s[n] \in BOOLEAN
          BY ElementOfSeq
        <5>2. \A n \in 1 .. 2 : n \in 1 .. n
          OBVIOUS
        <5> QED BY <4>3, <5>1, <5>2, Zenon
      <4>5. primask' = saved[c][Len(saved[c])]
        BY <4>1 DEF Restore
      <4> QED BY <4>4, <4>5, Zenon
    <3>2. CASE AddMask(c) \/ TxMask(c) \/ GetMask(c)
      BY <3>2 DEF AddMask, TxMask, GetMask, SaveAndDisable
    <3>3. CASE UNCHANGED cpu
      BY <1>1, <3>3 DEF cpu, TypeOK
    <3> QED
      BY <3>1, <3>2, <3>3
         DEF CallStep, Continue, StartSendMessage, HandleTx, AddStore, AddAdvance, AddFull,
             TxTest, TxStatus, GetCopy, GetAdvance, TxStore, TxRequest
  <2> QED BY <2>1, <2>2, <2>3
<1>5. TypeOK'
  BY <1>1, <1>4, PcStep, CountStep, RingTypes, FifoTypes DEF TypeOK, Place
<1> QED BY <1>2, <1>3, <1>5 DEF IInv

\* So does the controller when it sends a message.
LEMMA TransmitInv ==
  ASSUME IInv, Transmit
  PROVE  IInv'
<1> USE DEF IInv, Transmit, ring, cpu
<1>1. TypeOK'
  <2>1. txfifo[get] \in Msg
    BY DEF MessageInv
  <2> QED BY <2>1, NextSlot DEF TypeOK
<1>2. SectionInv' /\ CountInv' /\ MessageInv'
  BY DEF SectionInv, CountInv, MessageInv
<1> QED BY <1>1, <1>2

\* It holds at the start.
LEMMA InitInv == Init => IInv
<1> SUFFICES ASSUME Init PROVE IInv
  OBVIOUS
<1> USE DEF Init
<1>1. TypeOK
  <2>1. 0 \in Ring /\ 0 \in Slot /\ 0 \in 0 .. 0 /\ 0 \in 0 .. (MaxMsgs + 1)
    BY ConfigAssumption DEF Ring, Slot
  <2>2. wire \in Seq(Msg) /\ saved \in [Context -> Seq(BOOLEAN)] /\ primask \in BOOLEAN
    <3>1. wire = <<>> /\ saved = [c \in Context |-> <<>>] /\ primask = FALSE
      OBVIOUS
    <3> HIDE DEF Init
    <3>2. wire \in Seq(Msg)
      BY <3>1
    <3>3. saved \in [Context -> Seq(BOOLEAN)]
      BY <3>1
    <3>4. primask \in BOOLEAN
      BY <3>1
    <3> QED BY <3>2, <3>3, <3>4
  <2>3. /\ txmsgbuf \in [Ring -> Msg \cup {NoMsg}]
        /\ txfifo \in [Slot -> Msg \cup {NoMsg}]
        /\ msg \in [Context -> Msg \cup {NoMsg}]
        /\ tpi \in [Context -> Slot]
        /\ pc \in [Context -> Place]
    BY <2>1 DEF Place
  <2>4. /\ txmb_idx_rd \in Ring /\ txmb_idx_wr \in Ring
        /\ put \in Slot /\ get \in Slot /\ request \subseteq Slot
        /\ lost_tx_msg_cnt \in 0 .. added /\ added \in 0 .. (MaxMsgs + 1)
    BY <2>1
  <2> HIDE DEF Init
  <2> QED BY <2>2, <2>3, <2>4 DEF TypeOK, Place
<1>2. SectionInv
  BY SavedLevels DEF SectionInv, Section, InAdd, InGet, InLoop, Context
<1>3. CountInv /\ MessageInv
  BY ConfigAssumption DEF CountInv, MessageInv, Arriving, Entering, Context
<1> QED BY <1>1, <1>2, <1>3 DEF IInv

\* Every step keeps it.
LEMMA NextInv == IInv /\ [Next]_vars => IInv'
<1> SUFFICES ASSUME IInv, [Next]_vars PROVE IInv'
  OBVIOUS
<1>1. CASE \E c \in Context : StartSendMessage(c) \/ HandleTx(c) \/ Continue(c)
  BY <1>1, CallInv DEF CallStep
<1>2. CASE Transmit
  BY <1>2, TransmitInv
<1>3. CASE UNCHANGED vars
  BY <1>3 DEF IInv, TypeOK, SectionInv, CountInv, MessageInv, vars, ring, fifo, cpu
<1> QED BY <1>1, <1>2, <1>3 DEF Next

\* So it always holds.
LEMMA SpecInv == Spec => []IInv
  BY InitInv, NextInv, PTL DEF Spec

\* Every variable keeps its type: the indices stay in the ring and in the FIFO, a
\* context saves at most two interrupt states, a count never exceeds the messages.
THEOREM TypeCorrect == Spec => []TypeOK
<1>1. IInv => TypeOK
  BY DEF IInv
<1> QED BY <1>1, SpecInv, PTL

\* Interrupts are enabled again when no context is in a call: every return path of
\* AddTxMessage, TryGetTxMessage and HandleTx restores what it saved.
THEOREM InterruptsCorrect == Spec => []InterruptsRestored
<1>1. IInv => InterruptsRestored
  BY SavedLevels DEF IInv, SectionInv, InterruptsRestored, Section, InAdd, InGet, InLoop
<1> QED BY <1>1, SpecInv, PTL

-----------------------------------------------------------------------------
(* Circular buffers. *)

\* How far a place of a circular buffer is behind its start.
Behind(i, start, size) == IF i >= start THEN i - start ELSE i - start + size

\* The place after a place.
NextPlace(i, size) == IF i + 1 >= size THEN 0 ELSE i + 1

\* Moving the start on by one.
LEMMA BehindNext ==
  ASSUME NEW n \in Nat \ {0}, NEW a \in 0 .. n - 1, NEW i \in 0 .. n - 1
  PROVE  /\ Behind(i, a, n) \in 0 .. n - 1
         /\ Behind(i, a, n) = 0 <=> i = a
         /\ NextPlace(a, n) \in 0 .. n - 1
         /\ Behind(i, NextPlace(a, n), n) = IF i = a THEN n - 1 ELSE Behind(i, a, n) - 1
  BY DEF Behind, NextPlace

\* No two places are equally far behind.
LEMMA BehindOnce ==
  ASSUME NEW n \in Nat \ {0}, NEW a \in 0 .. n - 1,
         NEW i \in 0 .. n - 1, NEW j \in 0 .. n - 1
  PROVE  Behind(i, a, n) = Behind(j, a, n) <=> i = j
  BY DEF Behind

\* Moving the end on by one.
LEMMA EndNext ==
  ASSUME NEW n \in Nat \ {0}, NEW a \in 0 .. n - 1, NEW b \in 0 .. n - 1
  PROVE  Behind(NextPlace(b, n), a, n) =
           IF NextPlace(b, n) = a THEN 0 ELSE Behind(b, a, n) + 1
  BY DEF Behind, NextPlace

\* The end reaches the start when it is as far behind as it can be.
LEMMA EndMeets ==
  ASSUME NEW n \in Nat \ {0}, NEW a \in 0 .. n - 1, NEW b \in 0 .. n - 1
  PROVE  NextPlace(b, n) = a <=> Behind(b, a, n) = n - 1
  BY DEF Behind, NextPlace

\* The places from the start to the end, and the order of their contents.
Between(a, b, n) == {i \in 0 .. n - 1 : Behind(i, a, n) < Behind(b, a, n)}

\* The end is not between.
LEMMA EndOutside ==
  ASSUME NEW n \in Nat \ {0}, NEW a \in 0 .. n - 1, NEW b \in 0 .. n - 1
  PROVE  b \notin Between(a, b, n)
<1>1. Behind(b, a, n) \in 0 .. n - 1
  BY BehindNext
<1> QED BY <1>1 DEF Between

Sorted(S, f, start, size) ==
  \A i, j \in S : Behind(i, start, size) < Behind(j, start, size) => f[i] < f[j]

\* A place is added at the end.
LEMMA AddLast ==
  ASSUME NEW n \in Nat \ {0}, NEW a \in 0 .. n - 1, NEW b \in 0 .. n - 1
  PROVE  Between(a, b, n) \cup {b} =
           IF NextPlace(b, n) = a THEN 0 .. n - 1 ELSE Between(a, NextPlace(b, n), n)
<1>1. \A i \in 0 .. n - 1 : Behind(i, a, n) \in 0 .. n - 1
  BY BehindNext
<1>2. \A i \in 0 .. n - 1 : Behind(i, a, n) = Behind(b, a, n) => i = b
  BY BehindOnce
<1>3. CASE NextPlace(b, n) = a
  <2>1. Behind(b, a, n) = n - 1
    BY <1>3, EndMeets
  <2> QED BY <1>1, <1>2, <1>3, <2>1 DEF Between
<1>4. CASE NextPlace(b, n) # a
  <2>1. Behind(NextPlace(b, n), a, n) = Behind(b, a, n) + 1
    BY <1>4, EndNext
  <2> QED BY <1>1, <1>2, <1>4, <2>1 DEF Between
<1> QED BY <1>3, <1>4

\* The place at the start is removed.
LEMMA DropFirst ==
  ASSUME NEW n \in Nat \ {0}, NEW a \in 0 .. n - 1, NEW b \in 0 .. n - 1
  PROVE  /\ a # b => Between(NextPlace(a, n), b, n) = Between(a, b, n) \ {a}
         /\ Between(NextPlace(a, n), a, n) = (0 .. n - 1) \ {a}
         /\ Between(a, a, n) = {}
<1> DEFINE c == NextPlace(a, n)
<1>1. /\ \A i \in 0 .. n - 1 : /\ Behind(i, a, n) \in 0 .. n - 1
                               /\ Behind(i, a, n) = 0 <=> i = a
                               /\ Behind(i, c, n) = IF i = a THEN n - 1 ELSE Behind(i, a, n) - 1
  BY BehindNext
<1> HIDE DEF c
<1>2. ASSUME a # b PROVE Between(c, b, n) = Between(a, b, n) \ {a}
  <2>1. /\ Behind(b, c, n) = Behind(b, a, n) - 1 /\ Behind(b, a, n) \in 1 .. n - 1
    BY <1>1, <1>2
  <2>2. \A i \in 0 .. n - 1 : Behind(i, c, n) < Behind(b, c, n)
                               <=> i # a /\ Behind(i, a, n) < Behind(b, a, n)
    BY <1>1, <2>1
  <2> QED BY <2>2 DEF Between
<1>3. Between(c, a, n) = (0 .. n - 1) \ {a}
  <2>1. Behind(a, c, n) = n - 1
    BY <1>1
  <2>2. \A i \in 0 .. n - 1 : Behind(i, c, n) < n - 1 <=> i # a
    BY <1>1
  <2> QED BY <2>1, <2>2 DEF Between
<1>4. Between(a, a, n) = {}
  BY <1>1 DEF Between
<1> QED BY <1>2, <1>3, <1>4 DEF c

\* Removing the oldest message keeps the order of the others.
LEMMA SortedRest ==
  ASSUME NEW n \in Nat \ {0}, NEW a \in 0 .. n - 1, NEW S, NEW f, S \subseteq 0 .. n - 1,
         Sorted(S, f, a, n)
  PROVE  Sorted(S \ {a}, f, NextPlace(a, n), n)
<1> DEFINE c == NextPlace(a, n)
<1>1. ASSUME NEW i \in 0 .. n - 1
      PROVE  /\ Behind(i, a, n) \in 0 .. n - 1
             /\ Behind(i, c, n) = IF i = a THEN n - 1 ELSE Behind(i, a, n) - 1
  BY DEF Behind, NextPlace
<1> HIDE DEF c
<1>2. ASSUME NEW i \in S \ {a}, NEW j \in S \ {a}, Behind(i, c, n) < Behind(j, c, n)
      PROVE  f[i] < f[j]
  <2>1. Behind(i, a, n) < Behind(j, a, n)
    BY <1>1, <1>2
  <2> QED BY <2>1 DEF Sorted
<1> QED BY <1>2 DEF Sorted, c

\* Adding a message newer than the others keeps the order.
LEMMA SortedMore ==
  ASSUME NEW n \in Nat \ {0}, NEW a \in 0 .. n - 1, NEW b \in 0 .. n - 1,
         NEW f, NEW m \in Int, Sorted(Between(a, b, n), f, a, n), f[b] = m,
         \A i \in Between(a, b, n) : f[i] \in Int /\ f[i] < m
  PROVE  Sorted(Between(a, b, n) \cup {b}, f, a, n)
<1>1. /\ \A i \in Between(a, b, n) : /\ Behind(i, a, n) < Behind(b, a, n)
                                     /\ Behind(i, a, n) \in Int
      /\ Behind(b, a, n) \in Int
  <2>1. \A i \in 0 .. n - 1 : Behind(i, a, n) \in 0 .. n - 1
    BY BehindNext
  <2>2. \A i \in 0 .. n - 1 : Behind(i, a, n) \in Int
    BY <2>1
  <2> QED BY <2>2 DEF Between
<1> SUFFICES ASSUME NEW i \in Between(a, b, n) \cup {b}, NEW j \in Between(a, b, n) \cup {b},
                    Behind(i, a, n) < Behind(j, a, n)
             PROVE  f[i] < f[j]
  BY DEF Sorted
<1>2. CASE i \in Between(a, b, n) /\ j \in Between(a, b, n)
  BY <1>2 DEF Sorted
<1>3. CASE i \in Between(a, b, n) /\ j = b
  BY <1>3
<1>4. CASE i = b
  BY <1>1, <1>4
<1> QED BY <1>2, <1>3, <1>4

-----------------------------------------------------------------------------
(* The order of the messages, where HandleTx disables interrupts. *)

\* The requests are the slots from the get index to the put index.
FifoInv ==
  \/ put = get /\ request = Slot
  \/ request = Between(get, put, FifoSize)

\* The slots of the ring with messages.  A ring whose indices meet is empty, or full
\* while the loss has still to be counted.
Live ==
  IF txmb_idx_rd = txmb_idx_wr /\ \E c \in Context : pc[c] = "add_full"
    THEN Ring ELSE Between(txmb_idx_rd, txmb_idx_wr, TxCount)

\* The message is newer than what is sent and than what waits to be sent.
NewerIn(m, sent, slots, content) ==
  /\ \A k \in 1 .. Len(sent) : sent[k] < m
  /\ \A i \in slots : content[i] < m

Newer(m) == NewerIn(m, wire, request, txfifo)
USE DEF Newer

\* From the oldest message to the newest: wire, FIFO, hand, ring.
FifoOrder ==
  /\ \A i \in request : \A k \in 1 .. Len(wire) : wire[k] < txfifo[i]
  /\ Sorted(request, txfifo, get, FifoSize)

RingOrder ==
  /\ \A i \in Live : txmsgbuf[i] \in 1 .. added /\ Newer(txmsgbuf[i])
  /\ Sorted(Live, txmsgbuf, txmb_idx_rd, TxCount)
  /\ Newer(added + 1)

\* The places where a context has a message in its hand, and those where it has
\* found a free slot.
Holding == {"get_advance", "get_unmask", "tx_store", "tx_request"}

HandAt(c) ==
  pc[c] \in Holding /\ msg[c] # NoMsg =>
    /\ msg[c] \in 1 .. added /\ Newer(msg[c])
    /\ \A i \in Live : \/ txmsgbuf[i] > msg[c]
                       \/ pc[c] = "get_advance" /\ i = txmb_idx_rd /\ txmsgbuf[i] = msg[c]

\* What the place of a context in the code says of its message and of the FIFO.
PlaceAt(c) ==
  /\ pc[c] = "add_advance" =>
       /\ txmsgbuf[txmb_idx_wr] = added /\ added > 0
       /\ Newer(added)
       /\ \A i \in Live : txmsgbuf[i] < added
  /\ pc[c] = "get_advance" => HasTxMessage /\ msg[c] # NoMsg
  /\ pc[c] \in Holding \cup {"get_mask", "get_copy"} => tpi[c] = put /\ put \notin request
  /\ pc[c] = "tx_request" => txfifo[tpi[c]] = msg[c]

\* The order of all messages, and that a message is in one place only.
QueueInv ==
  /\ FifoInv
  /\ WireInOrder
  /\ FifoOrder
  /\ RingOrder
  /\ \A c \in Context : HandAt(c) /\ PlaceAt(c)

OrderInv == Masked => QueueInv

\* The indices, and the messages as numbers.
LEMMA Numbers ==
  ASSUME TypeOK
  PROVE  /\ TxCount \in Nat \ {0} /\ FifoSize \in Nat \ {0}
         /\ Ring = 0 .. TxCount - 1 /\ Slot = 0 .. FifoSize - 1
         /\ txmb_idx_rd \in Ring /\ txmb_idx_wr \in Ring
         /\ put \in Slot /\ get \in Slot /\ request \subseteq Slot
         /\ \A i \in Ring : txmsgbuf[i] \in Int
         /\ \A i \in Slot : txfifo[i] \in Int
         /\ \A k \in 1 .. Len(wire) : wire[k] \in Int
         /\ \A c \in Context : msg[c] \in Int /\ tpi[c] \in Slot
         /\ added \in Nat
         /\ Len(wire) \in Nat
<1>1. \A k \in 1 .. Len(wire) : wire[k] \in Msg
  BY ElementOfSeq DEF TypeOK
<1>2. Msg \cup {NoMsg} \subseteq Int /\ Msg \subseteq Int
  BY ConfigAssumption DEF Msg, NoMsg
<1> QED BY <1>1, <1>2, ConfigAssumption DEF TypeOK, Ring, Slot

\* The places after those of the ring and the FIFO.
LEMMA NextPlaces ==
  /\ \A i \in Ring : Following(i) = NextPlace(i, TxCount)
  /\ \A i \in Slot : (i + 1) % FifoSize = NextPlace(i, FifoSize)
<1>1. \A i \in Ring : Following(i) = NextPlace(i, TxCount)
  BY DEF Following, NextPlace
<1>2. ASSUME NEW i \in Slot PROVE (i + 1) % FifoSize = NextPlace(i, FifoSize)
  <2>1. (i + 1) % FifoSize = IF i + 1 = FifoSize THEN 0 ELSE i + 1
    BY NextSlot
  <2> QED BY <2>1, ConfigAssumption DEF NextPlace, Slot
<1> QED BY <1>1, <1>2

\* What is newer than something is newer than what that is newer than.
LEMMA NewerStill ==
  ASSUME TypeOK, NEW m \in Int, NEW n \in Int, m <= n, Newer(m)
  PROVE  Newer(n)
  BY Numbers DEF NewerIn

\* While one context is in HandleTx or in AddTxMessage the other one is not.
Outside == {"rest", "add_mask", "tx_mask"}

LEMMA OthersOut ==
  ASSUME IInv, Masked, NEW c \in Context, CallStep(c)
  PROVE  \A d \in Context \ {c} : pc[d] \in Outside /\ pc'[d] = pc[d]
<1>1. PICK m \in Moves : Step(c, m[1], m[2])
  BY StepMoves
<1>2. c = "irq" /\ m[1] = "rest" => ~primask
  <2>1. c = "irq" /\ m[1] = "rest" => StartSendMessage(c) \/ HandleTx(c)
    BY <1>1, ActionAt DEF Step
  <2> QED BY <2>1 DEF StartSendMessage, HandleTx, Enter
<1>3. \A d \in Context \ {c} : ~Section(pc[d])
  BY <1>1, <1>2, OtherOutside DEF IInv
<1>4. pc \in [Context -> Place]
  BY DEF IInv, TypeOK, Place
<1>5. \A p \in Place : ~Section(p) => p \in Outside
  BY DEF Place, Section, Outside, InAdd, InGet, InLoop
<1> QED BY <1>3, <1>4, <1>5, PcStep DEF IInv

\* So what is claimed of a context needs to be shown for the one that takes the step.
LEMMA OneContext ==
  ASSUME IInv, Masked, NEW c \in Context, CallStep(c)
  PROVE  /\ (HandAt(c) /\ PlaceAt(c))' => (\A d \in Context : HandAt(d) /\ PlaceAt(d))'
         /\ (\E d \in Context : pc[d] = "add_full") <=> pc[c] = "add_full"
         /\ (\E d \in Context : pc'[d] = "add_full") <=> pc'[c] = "add_full"
<1>1. \A d \in Context \ {c} : pc[d] \in Outside /\ pc'[d] = pc[d]
  BY OthersOut
<1>2. \A d \in Context : pc'[d] \in Outside => (HandAt(d) /\ PlaceAt(d))'
  BY DEF Outside, HandAt, PlaceAt, Holding
<1> QED BY <1>1, <1>2 DEF Outside

\* The messages of the ring, as seen by the context that takes the step.
LEMMA LiveNow ==
  ASSUME IInv, Masked, NEW c \in Context, CallStep(c)
  PROVE  /\ Live = IF txmb_idx_rd = txmb_idx_wr /\ pc[c] = "add_full"
                     THEN Ring ELSE Between(txmb_idx_rd, txmb_idx_wr, TxCount)
         /\ Live' = IF txmb_idx_rd' = txmb_idx_wr' /\ pc'[c] = "add_full"
                      THEN Ring ELSE Between(txmb_idx_rd', txmb_idx_wr', TxCount)
         /\ Live \subseteq Ring /\ Live' \subseteq Ring
<1>1. Between(txmb_idx_rd, txmb_idx_wr, TxCount) \subseteq Ring
  BY DEF Between, Ring
<1>2. Between(txmb_idx_rd', txmb_idx_wr', TxCount) \subseteq Ring
  BY DEF Between, Ring
<1> QED BY <1>1, <1>2, OneContext DEF Live

\* What the step lemmas start from.
Ordered == IInv /\ Masked /\ QueueInv

\* Steps that move no message.
LEMMA QuietOrder ==
  ASSUME Ordered, NEW c \in Context,
         \/ StartSendMessage(c) \/ HandleTx(c) \/ AddMask(c) \/ AddUnmask(c) \/ TxMask(c)
         \/ TxTest(c) \/ GetMask(c) \/ GetUnmask(c) \/ TxUnmask(c)
  PROVE  QueueInv'
<1>1. CallStep(c) /\ IInv /\ Masked /\ QueueInv /\ TypeOK
  BY DEF Ordered, IInv, CallStep, Continue
<1>2. UNCHANGED <<ring, fifo, msg, tpi>>
  BY DEF StartSendMessage, HandleTx, AddMask, AddUnmask, TxMask, TxTest, GetMask, GetUnmask,
         TxUnmask
<1>3. /\ pc[c] # "add_full"
      /\ pc'[c] \notin {"add_full", "add_advance", "get_advance", "get_unmask", "get_mask",
                        "tx_request"}
      /\ pc'[c] = "tx_store" => pc[c] = "get_unmask" /\ msg[c] # NoMsg
      /\ pc'[c] = "get_copy" => pc[c] = "get_mask"
  <2>1. CASE StartSendMessage(c) \/ HandleTx(c) \/ AddMask(c) \/ AddUnmask(c)
    BY <1>1, <2>1 DEF StartSendMessage, HandleTx, AddMask, AddUnmask, Enter, Step, TypeOK,
                      HandleTxEntry
  <2>2. CASE TxMask(c) \/ TxTest(c) \/ GetMask(c) \/ GetUnmask(c) \/ TxUnmask(c)
    BY <1>1, <2>2 DEF TxMask, TxTest, GetMask, GetUnmask, TxUnmask, Step, TypeOK, HandleTxExit
  <2> QED BY <2>1, <2>2
<1>4. Live' = Live
  BY <1>1, <1>2, <1>3, OneContext DEF Live, ring
<1>5. (HandAt(c) /\ PlaceAt(c))'
  BY <1>1, <1>2, <1>3, <1>4 DEF QueueInv, HandAt, PlaceAt, ring, fifo, Holding, HasTxMessage
<1>6. FifoInv' /\ WireInOrder' /\ FifoOrder'
  BY <1>1, <1>2 DEF QueueInv, FifoInv, WireInOrder, FifoOrder, fifo
<1>7. RingOrder'
  BY <1>1, <1>2, <1>4 DEF QueueInv, RingOrder, fifo, ring
<1> QED BY <1>1, <1>5, <1>6, <1>7, OneContext DEF QueueInv

\* A step that does not touch the FIFO.
LEMMA FifoKept ==
  ASSUME QueueInv, UNCHANGED fifo
  PROVE  FifoInv' /\ WireInOrder' /\ FifoOrder'
  BY DEF QueueInv, FifoInv, WireInOrder, FifoOrder, fifo

\* The message is stored at the write index, which is not yet part of the ring.
LEMMA AddStoreOrder ==
  ASSUME Ordered, NEW c \in Context, AddStore(c)
  PROVE  QueueInv'
<1>1. CallStep(c) /\ IInv /\ Masked /\ QueueInv /\ TypeOK
  BY DEF Ordered, IInv, CallStep, Continue
<1>2. pc[c] = "add_store" /\ pc'[c] = "add_advance"
  BY <1>1 DEF AddStore, Step, TypeOK
<1>3. Live' = Live /\ Live = Between(txmb_idx_rd, txmb_idx_wr, TxCount)
  <2>1. UNCHANGED <<txmb_idx_rd, txmb_idx_wr>>
    BY DEF AddStore
  <2> QED BY <1>1, <1>2, <2>1, LiveNow
<1>4. txmb_idx_wr \notin Live /\ Live \subseteq Ring
  BY <1>1, <1>3, LiveNow, EndOutside, Numbers
<1>5. /\ \A i \in Live : txmsgbuf'[i] = txmsgbuf[i]
      /\ txmsgbuf'[txmb_idx_wr] = added + 1
      /\ added' = added + 1
  BY <1>1, <1>4, Numbers DEF AddStore, TypeOK
<1>6. UNCHANGED <<wire, request, txfifo>>
  BY DEF AddStore, fifo
<1>7. Newer(added + 1) /\ Newer(added + 1 + 1)
  <2>1. RingOrder
    BY <1>1 DEF QueueInv
  <2>2. Newer(added + 1)
    BY <2>1 DEF RingOrder
  <2>3. /\ added + 1 \in Int /\ added + 1 + 1 \in Int
        /\ added + 1 <= added + 1 + 1
    BY <1>1, Numbers
  <2>4. Newer(added + 1 + 1)
    BY <1>1, <2>2, <2>3, NewerStill
  <2> QED BY <2>2, <2>4
<1>8. RingOrder'
  <2>1. \A i \in Live : txmsgbuf[i] \in 1 .. added /\ Newer(txmsgbuf[i])
    BY <1>1 DEF QueueInv, RingOrder
  <2>2. \A i \in Live : (txmsgbuf[i] \in 1 .. added /\ Newer(txmsgbuf[i]))'
    BY <1>1, <1>5, <1>6, <2>1, Numbers
  <2>3. Sorted(Live, txmsgbuf, txmb_idx_rd, TxCount)
    BY <1>1 DEF QueueInv, RingOrder
  <2>4. Sorted(Live, txmsgbuf', txmb_idx_rd, TxCount)
    BY <1>5, <2>3 DEF Sorted
  <2>5. Newer(added + 1)'
    BY <1>5, <1>6, <1>7
  <2> QED BY <1>3, <2>2, <2>4, <2>5 DEF RingOrder, AddStore
<1>9. HandAt(c)'
  BY <1>2 DEF HandAt, Holding
<1>10. PlaceAt(c)'
  <2>1. \A i \in Live : txmsgbuf'[i] < added'
    BY <1>1, <1>5, Numbers DEF QueueInv, RingOrder
  <2>2. txmsgbuf'[txmb_idx_wr'] = added' /\ added' > 0 /\ Newer(added)'
    BY <1>1, <1>5, <1>6, <1>7, Numbers DEF AddStore
  <2> QED BY <1>2, <1>3, <2>1, <2>2 DEF PlaceAt, Holding
<1> QED
  BY <1>1, <1>8, <1>9, <1>10, FifoKept, OneContext DEF QueueInv, AddStore

\* It joins the ring as its newest.
LEMMA AddAdvanceOrder ==
  ASSUME Ordered, NEW c \in Context, AddAdvance(c)
  PROVE  QueueInv'
<1>1. CallStep(c) /\ IInv /\ Masked /\ QueueInv /\ TypeOK
  BY DEF Ordered, IInv, CallStep, Continue
<1>2. pc[c] = "add_advance" /\ pc'[c] = "add_full"
  BY <1>1 DEF AddAdvance, Step, TypeOK
<1>3. Live = Between(txmb_idx_rd, txmb_idx_wr, TxCount)
  BY <1>1, <1>2, LiveNow
<1>4. Live' = Live \cup {txmb_idx_wr}
  <2>1. /\ txmb_idx_rd' = txmb_idx_rd
        /\ txmb_idx_wr' = NextPlace(txmb_idx_wr, TxCount)
    BY <1>1, Numbers, NextPlaces DEF AddAdvance
  <2>2. Live' = IF NextPlace(txmb_idx_wr, TxCount) = txmb_idx_rd THEN Ring
                ELSE Between(txmb_idx_rd, NextPlace(txmb_idx_wr, TxCount), TxCount)
    BY <1>1, <1>2, <2>1, LiveNow
  <2> QED BY <1>1, <1>3, <2>2, AddLast, Numbers
<1>5. /\ txmsgbuf[txmb_idx_wr] = added /\ added > 0 /\ Newer(added)
      /\ \A i \in Live : txmsgbuf[i] < added
  BY <1>1, <1>2 DEF QueueInv, PlaceAt
<1>6. RingOrder'
  <2>1. Sorted(Live', txmsgbuf, txmb_idx_rd, TxCount)
    <3>1. /\ Sorted(Live, txmsgbuf, txmb_idx_rd, TxCount)
          /\ \A i \in Live : txmsgbuf[i] \in Int
      BY <1>1, <1>3, LiveNow, Numbers DEF QueueInv, RingOrder
    <3> QED BY <1>1, <1>3, <1>4, <1>5, <3>1, SortedMore, Numbers
  <2>2. \A i \in Live' : txmsgbuf[i] \in 1 .. added /\ Newer(txmsgbuf[i])
    BY <1>1, <1>4, <1>5, Numbers DEF QueueInv, RingOrder
  <2>3. Newer(added + 1)
    BY <1>1 DEF QueueInv, RingOrder
  <2> QED BY <1>1, <2>1, <2>2, <2>3, FifoKept DEF RingOrder, AddAdvance, fifo
<1>7. (HandAt(c) /\ PlaceAt(c))'
  BY <1>2 DEF HandAt, PlaceAt, Holding
<1> QED
  BY <1>1, <1>6, <1>7, FifoKept, OneContext DEF QueueInv, AddAdvance

\* In a full ring the oldest message makes room.
LEMMA AddFullOrder ==
  ASSUME Ordered, NEW c \in Context, AddFull(c)
  PROVE  QueueInv'
<1>1. CallStep(c) /\ IInv /\ Masked /\ QueueInv /\ TypeOK
  BY DEF Ordered, IInv, CallStep, Continue
<1>2. pc[c] = "add_full" /\ pc'[c] = "add_unmask"
  BY <1>1 DEF AddFull, Step, TypeOK
<1>3. /\ Live' \subseteq Live
      /\ Sorted(Live', txmsgbuf, txmb_idx_rd', TxCount)
  <2>1. Sorted(Live, txmsgbuf, txmb_idx_rd, TxCount)
    BY <1>1 DEF QueueInv, RingOrder
  <2>2. CASE txmb_idx_wr = txmb_idx_rd
    <3>1. Live = Ring
      BY <1>1, <1>2, <2>2, LiveNow
    <3>2. txmb_idx_rd' = NextPlace(txmb_idx_rd, TxCount) /\ UNCHANGED txmb_idx_wr
      BY <1>1, <2>2, Numbers, NextPlaces DEF AddFull
    <3>3. Live' = Between(NextPlace(txmb_idx_rd, TxCount), txmb_idx_rd, TxCount)
      BY <1>1, <1>2, <2>2, <3>2, LiveNow
    <3>4. Live' = Live \ {txmb_idx_rd}
      BY <1>1, <3>1, <3>3, DropFirst, Numbers
    <3>5. Sorted(Live \ {txmb_idx_rd}, txmsgbuf, NextPlace(txmb_idx_rd, TxCount), TxCount)
      BY <1>1, <2>1, <3>1, SortedRest, Numbers
    <3> QED BY <3>2, <3>4, <3>5
  <2>3. CASE txmb_idx_wr # txmb_idx_rd
    <3>1. UNCHANGED <<txmb_idx_wr, txmb_idx_rd>>
      BY <2>3 DEF AddFull
    <3>2. Live' = Live
      BY <1>1, <2>3, <3>1, LiveNow
    <3> QED BY <2>1, <3>1, <3>2
  <2> QED BY <2>2, <2>3
<1>4. UNCHANGED <<txmsgbuf, added, fifo>>
  BY DEF AddFull
<1>5. RingOrder'
  BY <1>1, <1>3, <1>4 DEF RingOrder, QueueInv, fifo
<1>6. (HandAt(c) /\ PlaceAt(c))'
  BY <1>2 DEF HandAt, PlaceAt, Holding
<1> QED
  BY <1>1, <1>4, <1>5, <1>6, FifoKept, OneContext DEF QueueInv

\* When the FIFO is not full its put index is a free slot.
LEMMA PutFree ==
  ASSUME TypeOK, FifoInv, ~FifoFull
  PROVE  put \notin request
<1>1. CASE request = Slot
  <2>1. Cardinality(0 .. FifoSize - 1) = FifoSize
    <3>1. FifoSize - 1 \in Int /\ ~(0 > FifoSize - 1) /\ FifoSize - 1 - 0 + 1 = FifoSize
      BY Numbers
    <3> QED BY <3>1, FS_Interval
  <2> QED BY <1>1, <2>1, Numbers DEF FifoFull
<1>2. CASE request = Between(get, put, FifoSize)
  BY <1>2, EndOutside, Numbers
<1> QED BY <1>1, <1>2 DEF FifoInv

\* The put index is read, and stays as it was read until the request is made.
LEMMA TxStatusOrder ==
  ASSUME Ordered, NEW c \in Context, TxStatus(c)
  PROVE  QueueInv'
<1>1. CallStep(c) /\ IInv /\ Masked /\ QueueInv /\ TypeOK
  BY DEF Ordered, IInv, CallStep, Continue
<1>2. /\ pc[c] = "tx_status"
      /\ pc'[c] = "tx_unmask" \/ (pc'[c] = "get_mask" /\ ~FifoFull)
  BY <1>1 DEF TxStatus, Step, TypeOK, HandleTxExit
<1>3. UNCHANGED <<ring, fifo, msg>> /\ tpi'[c] = put
  BY <1>1 DEF TxStatus, TypeOK
<1>4. Live' = Live
  BY <1>1, <1>2, <1>3, OneContext DEF Live, ring
<1>5. pc'[c] = "get_mask" => put \notin request
  BY <1>1, <1>2, PutFree DEF QueueInv
<1>6. (HandAt(c) /\ PlaceAt(c))'
  BY <1>2, <1>3, <1>5 DEF HandAt, PlaceAt, Holding, fifo
<1>7. RingOrder'
  BY <1>1, <1>3, <1>4 DEF QueueInv, RingOrder, fifo, ring
<1> QED BY <1>1, <1>3, <1>6, <1>7, FifoKept, OneContext DEF QueueInv

\* The oldest message of the ring is taken in hand.
LEMMA GetCopyOrder ==
  ASSUME Ordered, NEW c \in Context, GetCopy(c)
  PROVE  QueueInv'
<1>1. CallStep(c) /\ IInv /\ Masked /\ QueueInv /\ TypeOK
  BY DEF Ordered, IInv, CallStep, Continue
<1>2. /\ pc[c] = "get_copy"
      /\ \/ pc'[c] = "get_unmask" /\ msg'[c] = NoMsg
         \/ pc'[c] = "get_advance" /\ HasTxMessage /\ msg'[c] = txmsgbuf[txmb_idx_rd]
  BY <1>1 DEF GetCopy, Step, TypeOK
<1>3. UNCHANGED <<ring, fifo, tpi>>
  BY DEF GetCopy
<1>4. Live' = Live /\ Live = Between(txmb_idx_rd, txmb_idx_wr, TxCount)
  <2>1. UNCHANGED <<txmb_idx_rd, txmb_idx_wr>>
    BY <1>3 DEF ring
  <2> QED BY <1>1, <1>2, <2>1, LiveNow
<1>5. RingOrder'
  BY <1>1, <1>3, <1>4 DEF QueueInv, RingOrder, fifo, ring
<1>7. HandAt(c)' /\ (pc'[c] = "get_advance" => msg'[c] # NoMsg)
  <2>1. CASE pc'[c] = "get_unmask" /\ msg'[c] = NoMsg
    BY <2>1 DEF HandAt
  <2>2. CASE pc'[c] = "get_advance" /\ HasTxMessage /\ msg'[c] = txmsgbuf[txmb_idx_rd]
    <3>1. /\ \A i \in Ring : /\ Behind(i, txmb_idx_rd, TxCount) \in 0 .. TxCount - 1
                             /\ Behind(i, txmb_idx_rd, TxCount) = 0 <=> i = txmb_idx_rd
          /\ txmb_idx_rd \in Ring /\ txmb_idx_wr \in Ring /\ txmb_idx_wr # txmb_idx_rd
      <4>1. txmb_idx_rd \in Ring /\ txmb_idx_wr \in Ring /\ txmb_idx_wr # txmb_idx_rd
        BY <1>1, <2>2, Numbers DEF HasTxMessage
      <4>2. /\ Ring = 0 .. TxCount - 1 /\ TxCount \in Nat \ {0}
        BY <1>1, Numbers
      <4> QED BY <4>1, <4>2 DEF Behind
    <3>2. /\ txmb_idx_rd \in Live
          /\ \A i \in Live : i # txmb_idx_rd =>
               Behind(txmb_idx_rd, txmb_idx_rd, TxCount) < Behind(i, txmb_idx_rd, TxCount)
      BY <1>1, <1>4, <3>1, Numbers DEF Between
    <3>3. txmsgbuf[txmb_idx_rd] \in 1 .. added /\ Newer(txmsgbuf[txmb_idx_rd])
      BY <1>1, <3>2 DEF QueueInv, RingOrder
    <3>4. \A i \in Live : i # txmb_idx_rd => txmsgbuf[txmb_idx_rd] < txmsgbuf[i]
      BY <1>1, <3>2 DEF QueueInv, RingOrder, Sorted
    <3>5. \A i \in Live : txmsgbuf[i] \in Int
      BY <1>1, LiveNow, Numbers
    <3>6. UNCHANGED <<txmsgbuf, txmb_idx_rd, added, wire, request, txfifo>>
      BY <1>3 DEF ring, fifo
    <3>7. /\ (msg[c] \in 1 .. added /\ Newer(msg[c]))'
          /\ \A i \in Live : \/ txmsgbuf[i] > msg'[c]
                             \/ i = txmb_idx_rd /\ txmsgbuf[i] = msg'[c]
      BY <2>2, <3>3, <3>4, <3>5, <3>6
    <3>8. msg'[c] # NoMsg
      BY <1>1, <2>2, <3>3, Numbers DEF NoMsg
    <3> QED BY <1>4, <2>2, <3>6, <3>7, <3>8 DEF HandAt
  <2> QED BY <1>2, <2>1, <2>2
<1>6. PlaceAt(c)'
  BY <1>1, <1>2, <1>3, <1>7 DEF QueueInv, PlaceAt, Holding, fifo, ring, HasTxMessage
<1> QED BY <1>1, <1>3, <1>5, <1>6, <1>7, FifoKept, OneContext DEF QueueInv

\* It leaves the ring.
LEMMA GetAdvanceOrder ==
  ASSUME Ordered, NEW c \in Context, GetAdvance(c)
  PROVE  QueueInv'
<1>1. CallStep(c) /\ IInv /\ Masked /\ QueueInv /\ TypeOK
  BY DEF Ordered, IInv, CallStep, Continue
<1>2. pc[c] = "get_advance" /\ pc'[c] = "get_unmask"
  BY <1>1 DEF GetAdvance, Step, TypeOK
<1>3. /\ UNCHANGED <<txmsgbuf, txmb_idx_wr, added, fifo, msg, tpi>>
      /\ txmb_idx_rd' = NextPlace(txmb_idx_rd, TxCount)
  BY <1>1, NextPlaces, Numbers DEF GetAdvance
<1>4. Live' = Live \ {txmb_idx_rd} /\ Live \subseteq Ring
  <2>1. txmb_idx_rd # txmb_idx_wr
    BY <1>1, <1>2 DEF QueueInv, PlaceAt, HasTxMessage
  <2>2. /\ Live = Between(txmb_idx_rd, txmb_idx_wr, TxCount)
        /\ Live' = Between(NextPlace(txmb_idx_rd, TxCount), txmb_idx_wr, TxCount)
    BY <1>1, <1>2, <1>3, LiveNow
  <2> QED BY <1>1, <2>1, <2>2, DropFirst, Numbers, LiveNow
<1>5. RingOrder'
  <2>1. Sorted(Live, txmsgbuf, txmb_idx_rd, TxCount)
    BY <1>1 DEF QueueInv, RingOrder
  <2>2. Sorted(Live', txmsgbuf, NextPlace(txmb_idx_rd, TxCount), TxCount)
    BY <1>1, <1>4, <2>1, SortedRest, Numbers
  <2> QED BY <1>1, <1>3, <1>4, <2>2 DEF QueueInv, RingOrder, fifo
<1>6. PlaceAt(c)'
  BY <1>1, <1>2, <1>3 DEF QueueInv, PlaceAt, Holding, fifo
<1>7. HandAt(c)'
  BY <1>1, <1>2, <1>3, <1>4 DEF QueueInv, HandAt, Holding, fifo
<1> QED BY <1>1, <1>3, <1>5, <1>6, <1>7, FifoKept, OneContext DEF QueueInv

\* It is stored in a slot that is not requested.
LEMMA TxStoreOrder ==
  ASSUME Ordered, NEW c \in Context, TxStore(c)
  PROVE  QueueInv' /\ \A i \in request : txfifo'[i] = txfifo[i]
<1>1. CallStep(c) /\ IInv /\ Masked /\ QueueInv /\ TypeOK
  BY DEF Ordered, IInv, CallStep, Continue
<1>2. pc[c] = "tx_store" /\ pc'[c] = "tx_request"
  BY <1>1 DEF TxStore, Step, TypeOK
<1>3. UNCHANGED <<ring, put, get, request, wire, msg, tpi>>
  BY DEF TxStore
<1>4. tpi[c] = put /\ put \notin request
  BY <1>1, <1>2 DEF QueueInv, PlaceAt, Holding
<1>5. txfifo'[put] = msg[c] /\ \A i \in request : txfifo'[i] = txfifo[i]
  BY <1>1, <1>4, Numbers DEF TxStore, TypeOK
<1>6. \A m : Newer(m) => NewerIn(m, wire, request, txfifo')
  BY <1>5 DEF NewerIn
<1>7. Live' = Live
  BY <1>1, <1>2, <1>3, OneContext DEF Live, ring
<1>8. FifoInv' /\ WireInOrder' /\ FifoOrder'
  BY <1>1, <1>3, <1>5 DEF QueueInv, FifoInv, WireInOrder, FifoOrder, Sorted
<1>9. RingOrder'
  BY <1>1, <1>3, <1>6, <1>7 DEF QueueInv, RingOrder, ring
<1>10. HandAt(c)'
  BY <1>1, <1>2, <1>3, <1>6, <1>7 DEF QueueInv, HandAt, Holding, ring
<1>11. PlaceAt(c)'
  BY <1>2, <1>3, <1>4, <1>5 DEF PlaceAt, Holding
<1> QED BY <1>1, <1>5, <1>8, <1>9, <1>10, <1>11, OneContext DEF QueueInv

\* The request adds it to the FIFO as its newest.
LEMMA TxRequestOrder ==
  ASSUME Ordered, NEW c \in Context, TxRequest(c)
  PROVE  QueueInv'
<1>1. CallStep(c) /\ IInv /\ Masked /\ QueueInv /\ TypeOK
  BY DEF Ordered, IInv, CallStep, Continue
<1>2. pc[c] = "tx_request" /\ pc'[c] = "tx_test"
  BY <1>1 DEF TxRequest, Step, TypeOK
<1>3. /\ tpi[c] = put /\ put \notin request /\ txfifo[put] = msg[c]
      /\ msg[c] # NoMsg
  <2>1. msg[c] \in Msg
    BY <1>1, <1>2 DEF IInv, MessageInv
  <2> QED BY <1>1, <1>2, <2>1 DEF QueueInv, PlaceAt, Holding, Msg, NoMsg
<1>4. /\ UNCHANGED <<ring, txfifo, get, wire>>
      /\ request' = request \cup {put} /\ put' = NextPlace(put, FifoSize)
  BY <1>1, <1>3, NextPlaces, Numbers DEF TxRequest
<1>5. /\ msg[c] \in 1 .. added /\ Newer(msg[c])
      /\ \A i \in Live : txmsgbuf[i] > msg[c]
  BY <1>1, <1>2, <1>3 DEF QueueInv, HandAt, Holding
<1>6. Live' = Live /\ Live \subseteq Ring
  BY <1>1, <1>2, <1>4, LiveNow, OneContext DEF Live, ring
<1>7. request = Between(get, put, FifoSize)
  BY <1>1, <1>3, Numbers DEF QueueInv, FifoInv
<1>8. FifoInv'
  <2>1. request' = IF NextPlace(put, FifoSize) = get THEN 0 .. FifoSize - 1
                   ELSE Between(get, NextPlace(put, FifoSize), FifoSize)
    BY <1>1, <1>4, <1>7, AddLast, Numbers
  <2> QED BY <1>1, <1>4, <2>1, Numbers DEF FifoInv
<1>9. FifoOrder'
  <2>1. Sorted(request, txfifo, get, FifoSize)
    BY <1>1 DEF QueueInv, FifoOrder
  <2>2. \A i \in request : txfifo[i] \in Int /\ txfifo[i] < msg[c]
    BY <1>1, <1>5, Numbers DEF NewerIn
  <2>3. Sorted(request', txfifo, get, FifoSize)
    BY <1>1, <1>3, <1>4, <1>7, <2>1, <2>2, SortedMore, Numbers
  <2>4. \A i \in request' : \A k \in 1 .. Len(wire) : wire[k] < txfifo[i]
    BY <1>1, <1>3, <1>4, <1>5 DEF QueueInv, FifoOrder, NewerIn
  <2> QED BY <1>4, <2>3, <2>4 DEF FifoOrder
<1>10. ASSUME NEW m \in Int, m > msg[c], Newer(m)
       PROVE  NewerIn(m, wire, request', txfifo)
  BY <1>3, <1>4, <1>10 DEF NewerIn
<1>11. RingOrder'
  <2>1. \A i \in Live : txmsgbuf[i] \in 1 .. added /\ NewerIn(txmsgbuf[i], wire, request', txfifo)
    BY <1>1, <1>5, <1>6, <1>10, Numbers DEF QueueInv, RingOrder
  <2>2. NewerIn(added + 1, wire, request', txfifo)
    BY <1>1, <1>5, <1>10, Numbers DEF QueueInv, RingOrder
  <2> QED BY <1>1, <1>4, <1>6, <2>1, <2>2 DEF QueueInv, RingOrder, ring
<1>12. (HandAt(c) /\ PlaceAt(c))'
  BY <1>2 DEF HandAt, PlaceAt, Holding
<1>13. WireInOrder'
  BY <1>1, <1>4 DEF QueueInv, WireInOrder
<1> QED BY <1>1, <1>8, <1>9, <1>11, <1>12, <1>13, OneContext DEF QueueInv

\* The controller sends its oldest message.
LEMMA TransmitOrder ==
  ASSUME Ordered, Transmit
  PROVE  QueueInv'
<1>1. IInv /\ Masked /\ QueueInv /\ TypeOK
  BY DEF Ordered, IInv
<1>2. /\ UNCHANGED <<ring, txfifo, put, cpu, pc, msg, tpi>>
      /\ get \in request /\ request' = request \ {get}
      /\ get' = NextPlace(get, FifoSize)
      /\ wire' = Append(wire, txfifo[get])
  BY <1>1, NextPlaces, Numbers DEF Transmit
<1>3. /\ Len(wire') = Len(wire) + 1
      /\ \A k \in 1 .. Len(wire) : wire'[k] = wire[k]
      /\ wire'[Len(wire) + 1] = txfifo[get]
      /\ Len(wire) \in Nat
  BY <1>1, <1>2, AppendProperties DEF TypeOK, IInv, MessageInv
<1>4. FifoInv'
  <2>1. CASE put = get /\ request = Slot
    BY <1>1, <1>2, <2>1, DropFirst, Numbers DEF FifoInv
  <2>2. CASE request = Between(get, put, FifoSize)
    <3>1. put # get
      BY <1>1, <1>2, <2>2, DropFirst, Numbers
    <3> QED BY <1>1, <1>2, <2>2, <3>1, DropFirst, Numbers DEF FifoInv
  <2> QED BY <1>1, <2>1, <2>2 DEF QueueInv, FifoInv
<1>5. \A i \in request' : txfifo[get] < txfifo[i]
  <2>1. \A i \in request : i # get => Behind(get, get, FifoSize) < Behind(i, get, FifoSize)
    BY <1>1, Numbers DEF Behind
  <2> QED BY <1>1, <1>2, <2>1 DEF QueueInv, FifoOrder, Sorted
<1>6. WireInOrder'
  BY <1>1, <1>2, <1>3 DEF QueueInv, WireInOrder, FifoOrder
<1>7. FifoOrder'
  <2>1. Sorted(request', txfifo, NextPlace(get, FifoSize), FifoSize)
    BY <1>1, <1>2, SortedRest, Numbers DEF QueueInv, FifoOrder
  <2>2. \A i \in request' : \A k \in 1 .. Len(wire') : wire'[k] < txfifo[i]
    BY <1>1, <1>2, <1>3, <1>5 DEF QueueInv, FifoOrder
  <2> QED BY <1>2, <2>1, <2>2 DEF FifoOrder
<1>8. \A m : Newer(m) => NewerIn(m, wire', request', txfifo)
  BY <1>2, <1>3 DEF NewerIn
<1>9. Live' = Live
  BY <1>2 DEF Live, ring
<1>10. RingOrder'
  BY <1>1, <1>2, <1>8, <1>9 DEF QueueInv, RingOrder, ring
<1>11. (\A c \in Context : HandAt(c) /\ PlaceAt(c))'
  BY <1>1, <1>2, <1>8, <1>9 DEF QueueInv, HandAt, PlaceAt, HasTxMessage, ring
<1> QED BY <1>4, <1>6, <1>7, <1>10, <1>11 DEF QueueInv

-----------------------------------------------------------------------------
\* The messages are in order at the start.
LEMMA InitOrder == Init => OrderInv
<1> SUFFICES ASSUME Init, Masked PROVE QueueInv
  BY DEF OrderInv
<1>1. TypeOK
  BY InitInv DEF IInv
<1>2. Between(0, 0, TxCount) = {} /\ Between(0, 0, FifoSize) = {}
  BY <1>1, DropFirst, Numbers DEF Init
<1>3. FifoInv /\ WireInOrder /\ FifoOrder
  BY <1>2 DEF Init, FifoInv, WireInOrder, FifoOrder, Sorted
<1>4. Live = {}
  BY <1>2 DEF Init, Live
<1>5. RingOrder
  BY <1>4 DEF Init, RingOrder, Sorted, NewerIn
<1>6. \A c \in Context : HandAt(c) /\ PlaceAt(c)
  BY DEF Init, HandAt, PlaceAt, Holding
<1> QED BY <1>3, <1>5, <1>6 DEF QueueInv

\* Every step keeps them in order.
LEMMA NextOrder == IInv /\ OrderInv /\ [Next]_vars => OrderInv'
<1> SUFFICES ASSUME IInv, OrderInv, [Next]_vars, Masked PROVE QueueInv'
  BY DEF OrderInv
<1>1. Ordered
  BY DEF Ordered, OrderInv
<1>2. ASSUME NEW c \in Context, StartSendMessage(c) \/ HandleTx(c) \/ Continue(c)
      PROVE  QueueInv'
  BY <1>1, <1>2, QuietOrder, AddStoreOrder, AddAdvanceOrder, AddFullOrder, TxStatusOrder,
     GetCopyOrder, GetAdvanceOrder, TxStoreOrder, TxRequestOrder DEF Continue
<1>3. CASE Transmit
  BY <1>1, <1>3, TransmitOrder
<1>4. CASE UNCHANGED vars
  BY <1>1, <1>4
     DEF Ordered, QueueInv, FifoInv, WireInOrder, FifoOrder, RingOrder, HandAt, PlaceAt, Live,
         HasTxMessage, vars, ring, fifo
<1> QED BY <1>2, <1>3, <1>4 DEF Next

\* So they always are.
LEMMA SpecOrder == Spec => [](IInv /\ OrderInv)
<1>1. Init => IInv /\ OrderInv
  BY InitInv, InitOrder
<1>2. IInv /\ OrderInv /\ [Next]_vars => (IInv /\ OrderInv)'
  BY NextInv, NextOrder
<1> QED BY <1>1, <1>2, PTL DEF Spec

\* Messages leave in the order in which they entered the ring, from both contexts, when
\* HandleTx disables interrupts.
THEOREM OrderCorrect == Spec => [](Masked => WireInOrder)
<1>1. IInv /\ OrderInv => (Masked => WireInOrder)
  BY DEF OrderInv, QueueInv
<1> QED BY <1>1, SpecOrder, PTL

\* No step changes a FIFO slot that is requested and not yet sent, when HandleTx disables
\* interrupts.
THEOREM PendingCorrect ==
  ASSUME Masked
  PROVE  Spec => PendingUntouched
<1>1. IInv /\ OrderInv /\ [Next]_vars =>
        [\A i \in request \cap request' : txfifo'[i] = txfifo[i]]_vars
  <2> SUFFICES ASSUME IInv, OrderInv, Next
               PROVE  \A i \in request : txfifo'[i] = txfifo[i]
    OBVIOUS
  <2>1. Ordered
    BY DEF Ordered, OrderInv
  <2>2. ASSUME NEW c \in Context, CallStep(c)
        PROVE  \A i \in request : txfifo'[i] = txfifo[i]
    <3>1. CASE TxStore(c)
      BY <2>1, <3>1, TxStoreOrder
    <3>2. CASE ~TxStore(c)
      BY <2>2, <3>2, Frame DEF fifo, TxRequest
    <3> QED BY <3>1, <3>2
  <2>3. CASE Transmit
    BY <2>3 DEF Transmit
  <2> QED BY <2>2, <2>3 DEF Next, CallStep
<1> QED BY <1>1, SpecOrder, PTL DEF Spec, PendingUntouched

-----------------------------------------------------------------------------
(* The number of the messages, where HandleTx disables interrupts. *)

\* The messages in some slots.
Contents(f, S) == {f[i] : i \in S}

\* The message a context has taken out of the ring and not yet requested.
Taken(p, m) ==
  IF p \in {"get_unmask", "tx_store", "tx_request"} /\ m # NoMsg THEN {m} ELSE {}

\* A message that has its number and is not yet between the indices.
AddUnderWay == IF \E c \in Context : pc[c] = "add_advance" THEN 1 ELSE 0

\* Every message added is sent, in the FIFO, in hand, in the ring, lost, or just being
\* added; the sets are counted, so one message in two places would not add up.
SumInv ==
  Cardinality(Sent) + Cardinality(Pending) + Cardinality(InHand)
    + Cardinality(Contents(txmsgbuf, Live)) + lost_tx_msg_cnt + AddUnderWay = added

\* Sorted contents are all different.
LEMMA RemoveContent ==
  ASSUME NEW n \in Nat \ {0}, NEW a \in 0 .. n - 1, NEW S, NEW f, S \subseteq 0 .. n - 1,
         Sorted(S, f, a, n), \A i \in S : f[i] \in Int, NEW x \in S
  PROVE  Contents(f, S \ {x}) = Contents(f, S) \ {f[x]} /\ f[x] \in Contents(f, S)
<1>1. ASSUME NEW i \in S, i # x PROVE f[i] # f[x]
  <2>1. Behind(i, a, n) < Behind(x, a, n) \/ Behind(x, a, n) < Behind(i, a, n)
    BY <1>1 DEF Behind
  <2>2. f[i] < f[x] \/ f[x] < f[i]
    BY <2>1 DEF Sorted
  <2>3. f[i] \in Int /\ f[x] \in Int
    OBVIOUS
  <2> QED BY <2>2, <2>3
<1> QED BY <1>1 DEF Contents

\* All the sets are finite.
LEMMA Finite ==
  ASSUME IInv, QueueInv
  PROVE  /\ IsFiniteSet(Sent) /\ IsFiniteSet(Pending) /\ IsFiniteSet(InHand)
         /\ IsFiniteSet(Contents(txmsgbuf, Live))
<1>1. IsFiniteSet(Msg) /\ IsFiniteSet(1 .. added)
  <2>1. 1 \in Int /\ MaxMsgs + 1 \in Int /\ added \in Int
    BY ConfigAssumption DEF IInv, TypeOK
  <2> QED BY <2>1, FS_Interval DEF Msg
<1>2. Sent \subseteq Msg
  BY ElementOfSeq DEF Sent, IInv, TypeOK
<1>3. Pending \subseteq Msg
  BY DEF Pending, IInv, MessageInv
<1>4. InHand \subseteq Msg
  BY DEF InHand, IInv, TypeOK
<1>5. Contents(txmsgbuf, Live) \subseteq 1 .. added
  BY DEF Contents, QueueInv, RingOrder
<1> QED BY <1>1, <1>2, <1>3, <1>4, <1>5, FS_Subset

\* Who holds a message, as seen by the context that takes the step.
LEMMA InHandNow ==
  ASSUME IInv, Masked, NEW c \in Context, CallStep(c)
  PROVE  /\ InHand = Taken(pc[c], msg[c]) /\ InHand' = Taken(pc'[c], msg'[c])
         /\ AddUnderWay = IF pc[c] = "add_advance" THEN 1 ELSE 0
         /\ AddUnderWay' = IF pc'[c] = "add_advance" THEN 1 ELSE 0
<1>1. \A d \in Context \ {c} : pc[d] \in Outside /\ pc'[d] = pc[d]
  BY OthersOut
<1>2. InHand = Taken(pc[c], msg[c])
  BY <1>1 DEF InHand, Taken, Outside
<1>3. InHand' = Taken(pc'[c], msg'[c])
  BY <1>1 DEF InHand, Taken, Outside
<1> QED BY <1>1, <1>2, <1>3 DEF AddUnderWay, Outside

\* Steps that move no message.
LEMMA QuietSum ==
  ASSUME Ordered, SumInv, NEW c \in Context,
         \/ StartSendMessage(c) \/ HandleTx(c) \/ AddMask(c) \/ AddUnmask(c) \/ TxMask(c)
         \/ TxTest(c) \/ TxStatus(c) \/ GetMask(c) \/ GetUnmask(c) \/ TxUnmask(c)
         \/ GetCopy(c)
  PROVE  SumInv'
<1>1. CallStep(c) /\ IInv /\ Masked /\ QueueInv /\ TypeOK
  BY DEF Ordered, IInv, CallStep, Continue
<1>2. UNCHANGED <<ring, fifo>>
  BY DEF StartSendMessage, HandleTx, AddMask, AddUnmask, TxMask, TxTest, TxStatus, GetMask,
         GetUnmask, TxUnmask, GetCopy
<1>3. /\ pc[c] \notin {"add_full", "add_advance"} /\ pc'[c] \notin {"add_full", "add_advance"}
      /\ Taken(pc'[c], msg'[c]) = Taken(pc[c], msg[c])
  <2>1. CASE StartSendMessage(c) \/ HandleTx(c) \/ AddMask(c) \/ AddUnmask(c)
    BY <1>1, <2>1 DEF StartSendMessage, HandleTx, AddMask, AddUnmask, Enter, Step, TypeOK,
                      HandleTxEntry, Taken
  <2>2. CASE TxMask(c) \/ TxTest(c) \/ TxStatus(c) \/ GetMask(c) \/ TxUnmask(c)
    BY <1>1, <2>2 DEF TxMask, TxTest, TxStatus, GetMask, TxUnmask, Step, TypeOK, HandleTxExit,
                      Taken
  <2>3. CASE GetUnmask(c)
    BY <1>1, <2>3 DEF GetUnmask, Step, TypeOK, HandleTxExit, Taken
  <2>4. CASE GetCopy(c)
    BY <1>1, <2>4 DEF GetCopy, Step, TypeOK, Taken
  <2> QED BY <2>1, <2>2, <2>3, <2>4
<1>4. Live' = Live /\ InHand' = InHand /\ AddUnderWay' = AddUnderWay
  BY <1>1, <1>2, <1>3, OneContext, InHandNow DEF Live, ring
<1> QED BY <1>2, <1>4 DEF SumInv, Sent, Pending, Contents, ring, fifo

\* Adding a message: it is counted, it joins the ring, the oldest may be lost.
LEMMA AddSum ==
  ASSUME Ordered, SumInv, NEW c \in Context, AddStore(c) \/ AddAdvance(c) \/ AddFull(c)
  PROVE  SumInv'
<1>1. CallStep(c) /\ IInv /\ Masked /\ QueueInv /\ TypeOK
  BY DEF Ordered, IInv, CallStep, Continue
<1> DEFINE R == Contents(txmsgbuf, Live)
<1>2. /\ UNCHANGED <<Sent, Pending, InHand>>
      /\ Cardinality(Sent) \in Int /\ Cardinality(Pending) \in Int /\ Cardinality(InHand) \in Int
      /\ IsFiniteSet(R) /\ Cardinality(R) \in Int
      /\ lost_tx_msg_cnt \in Int /\ added \in Int
  <2>1. UNCHANGED <<fifo, msg>>
    BY DEF AddStore, AddAdvance, AddFull
  <2>2. /\ pc[c] \in {"add_store", "add_advance", "add_full"}
        /\ pc'[c] \in {"add_advance", "add_full", "add_unmask"}
    BY <1>1 DEF AddStore, AddAdvance, AddFull, Step, TypeOK
  <2>3. InHand' = InHand
    BY <1>1, <2>2, InHandNow DEF Taken
  <2>4. UNCHANGED <<Sent, Pending>>
    BY <2>1 DEF Sent, Pending, fifo
  <2>5. lost_tx_msg_cnt \in Int /\ added \in Int
    BY <1>1 DEF TypeOK
  <2> QED BY <1>1, <2>3, <2>4, <2>5, Finite, FS_CardinalityType
<1>3. Live \subseteq Ring /\ \A i \in Live : txmsgbuf[i] \in Int
  BY <1>1, LiveNow, Numbers
<1>4. CASE AddStore(c)
  <2>1. pc[c] = "add_store" /\ pc'[c] = "add_advance"
    BY <1>1, <1>4 DEF AddStore, Step, TypeOK
  <2>2. Live' = Live /\ Live = Between(txmb_idx_rd, txmb_idx_wr, TxCount)
    <3>1. UNCHANGED <<txmb_idx_rd, txmb_idx_wr>>
      BY <1>4 DEF AddStore
    <3> QED BY <1>1, <2>1, <3>1, LiveNow
  <2>3. txmb_idx_wr \notin Live
    BY <1>1, <2>2, EndOutside, Numbers
  <2>4. \A i \in Live : txmsgbuf'[i] = txmsgbuf[i]
    BY <1>1, <1>3, <1>4, <2>3 DEF AddStore, TypeOK
  <2>5. R' = R
    BY <2>2, <2>4 DEF Contents
  <2>6. UNCHANGED lost_tx_msg_cnt /\ added' = added + 1
    BY <1>4 DEF AddStore
  <2>7. AddUnderWay = 0 /\ AddUnderWay' = 1
    BY <1>1, <2>1, InHandNow
  <2> HIDE DEF R
  <2> QED BY <1>2, <2>5, <2>6, <2>7 DEF SumInv, R
<1>5. CASE AddAdvance(c)
  <2>1. pc[c] = "add_advance" /\ pc'[c] = "add_full"
    BY <1>1, <1>5 DEF AddAdvance, Step, TypeOK
  <2>2. Live' = Live \cup {txmb_idx_wr}
    <3>1. /\ txmb_idx_rd' = txmb_idx_rd
          /\ txmb_idx_wr' = NextPlace(txmb_idx_wr, TxCount)
      BY <1>1, <1>5, Numbers, NextPlaces DEF AddAdvance
    <3>2. /\ Live' = IF NextPlace(txmb_idx_wr, TxCount) = txmb_idx_rd THEN Ring
                     ELSE Between(txmb_idx_rd, NextPlace(txmb_idx_wr, TxCount), TxCount)
          /\ Live = Between(txmb_idx_rd, txmb_idx_wr, TxCount)
      BY <1>1, <2>1, <3>1, LiveNow
    <3> QED BY <1>1, <3>2, AddLast, Numbers
  <2>3. txmsgbuf[txmb_idx_wr] = added /\ \A i \in Live : txmsgbuf[i] < added
    BY <1>1, <2>1 DEF QueueInv, PlaceAt
  <2>4. UNCHANGED <<txmsgbuf, lost_tx_msg_cnt, added>>
    BY <1>5 DEF AddAdvance
  <2>5. R' = R \cup {added} /\ added \notin R
    BY <1>2, <1>3, <2>2, <2>3, <2>4 DEF Contents
  <2>6. AddUnderWay = 1 /\ AddUnderWay' = 0
    BY <1>1, <2>1, InHandNow
  <2> HIDE DEF R
  <2>7. Cardinality(R') = Cardinality(R) + 1
    BY <1>2, <2>5, FS_AddElement
  <2> QED BY <1>2, <2>4, <2>6, <2>7 DEF SumInv, R
<1>6. CASE AddFull(c)
  <2>1. pc[c] = "add_full" /\ pc'[c] = "add_unmask"
    BY <1>1, <1>6 DEF AddFull, Step, TypeOK
  <2>2. AddUnderWay = 0 /\ AddUnderWay' = 0
    BY <1>1, <2>1, InHandNow
  <2>3. UNCHANGED <<txmsgbuf, txmb_idx_wr, added>>
    BY <1>6 DEF AddFull
  <2>4. CASE txmb_idx_wr = txmb_idx_rd
    <3>1. Live = Ring
      BY <1>1, <2>1, <2>4, LiveNow
    <3>2. /\ txmb_idx_rd' = NextPlace(txmb_idx_rd, TxCount)
          /\ lost_tx_msg_cnt' = lost_tx_msg_cnt + 1
      BY <1>1, <1>6, <2>4, Numbers, NextPlaces DEF AddFull
    <3>3. Live' = Between(NextPlace(txmb_idx_rd, TxCount), txmb_idx_rd, TxCount)
      BY <1>1, <2>1, <2>3, <2>4, <3>2, LiveNow
    <3>4. Live' = Live \ {txmb_idx_rd} /\ txmb_idx_rd \in Live
      BY <1>1, <3>1, <3>3, DropFirst, Numbers
    <3>5. R' = R \ {txmsgbuf[txmb_idx_rd]} /\ txmsgbuf[txmb_idx_rd] \in R
      <4>1. Sorted(Live, txmsgbuf, txmb_idx_rd, TxCount)
        BY <1>1 DEF QueueInv, RingOrder
      <4>2. /\ Contents(txmsgbuf, Live \ {txmb_idx_rd}) = R \ {txmsgbuf[txmb_idx_rd]}
            /\ txmsgbuf[txmb_idx_rd] \in R
        BY <1>1, <1>3, <3>4, <4>1, RemoveContent, Numbers
      <4> QED BY <2>3, <3>4, <4>2
    <3> HIDE DEF R
    <3>6. Cardinality(R') = Cardinality(R) - 1
      BY <1>2, <3>5, FS_RemoveElement
    <3> QED BY <1>2, <2>2, <2>3, <3>2, <3>6 DEF SumInv, R
  <2>5. CASE txmb_idx_wr # txmb_idx_rd
    <3>1. UNCHANGED <<txmb_idx_rd, lost_tx_msg_cnt>>
      BY <1>6, <2>5 DEF AddFull
    <3>2. Live' = Live
      BY <1>1, <2>1, <2>3, <2>5, <3>1, LiveNow
    <3> QED BY <1>2, <2>2, <2>3, <3>1, <3>2 DEF SumInv, Contents
  <2> QED BY <2>4, <2>5
<1> QED BY <1>4, <1>5, <1>6

\* Taking a message: from the ring into the hand, from there into the FIFO.
LEMMA TakeSum ==
  ASSUME Ordered, SumInv, NEW c \in Context, GetAdvance(c) \/ TxStore(c) \/ TxRequest(c)
  PROVE  SumInv'
<1>1. CallStep(c) /\ IInv /\ Masked /\ QueueInv /\ TypeOK
  BY DEF Ordered, IInv, CallStep, Continue
<1> DEFINE R == Contents(txmsgbuf, Live)
<1>2. /\ UNCHANGED <<Sent, lost_tx_msg_cnt, added>>
      /\ AddUnderWay = 0 /\ AddUnderWay' = 0
      /\ IsFiniteSet(Pending) /\ IsFiniteSet(R)
      /\ Cardinality(Sent) \in Int /\ Cardinality(Pending) \in Int /\ Cardinality(R) \in Int
      /\ lost_tx_msg_cnt \in Int /\ added \in Int
  <2>1. UNCHANGED <<wire, lost_tx_msg_cnt, added>>
    BY DEF GetAdvance, TxStore, TxRequest, ring, fifo
  <2>2. pc[c] # "add_advance" /\ pc'[c] # "add_advance"
    BY <1>1 DEF GetAdvance, TxStore, TxRequest, Step, TypeOK
  <2>3. AddUnderWay = 0 /\ AddUnderWay' = 0
    BY <1>1, <2>2, InHandNow
  <2>4. lost_tx_msg_cnt \in Int /\ added \in Int
    BY <1>1 DEF TypeOK
  <2>5. UNCHANGED Sent
    BY <2>1 DEF Sent
  <2> QED BY <1>1, <2>1, <2>3, <2>4, <2>5, Finite, FS_CardinalityType
<1>3. Cardinality({}) = 0 /\ \A m : Cardinality({m}) = 1
  BY FS_EmptySet, FS_Singleton
<1>4. CASE GetAdvance(c)
  <2>1. pc[c] = "get_advance" /\ pc'[c] = "get_unmask"
    BY <1>1, <1>4 DEF GetAdvance, Step, TypeOK
  <2>2. /\ UNCHANGED <<txmsgbuf, txmb_idx_wr, fifo, msg>>
        /\ txmb_idx_rd' = NextPlace(txmb_idx_rd, TxCount)
    BY <1>1, <1>4, NextPlaces, Numbers DEF GetAdvance
  <2>3. Live' = Live \ {txmb_idx_rd} /\ Live \subseteq Ring /\ txmb_idx_rd \in Live
    <3>1. txmb_idx_rd # txmb_idx_wr
      BY <1>1, <2>1 DEF QueueInv, PlaceAt, HasTxMessage
    <3>2. /\ Live = Between(txmb_idx_rd, txmb_idx_wr, TxCount)
          /\ Live' = Between(NextPlace(txmb_idx_rd, TxCount), txmb_idx_wr, TxCount)
      BY <1>1, <2>1, <2>2, LiveNow
    <3>3. Behind(txmb_idx_rd, txmb_idx_rd, TxCount) < Behind(txmb_idx_wr, txmb_idx_rd, TxCount)
      BY <1>1, <3>1, Numbers DEF Behind
    <3>4. txmb_idx_rd \in Live
      BY <1>1, <3>2, <3>3, Numbers DEF Between
    <3> QED BY <1>1, <3>1, <3>2, <3>4, DropFirst, Numbers, LiveNow
  <2>4. R' = R \ {txmsgbuf[txmb_idx_rd]} /\ txmsgbuf[txmb_idx_rd] \in R
    <3>1. Sorted(Live, txmsgbuf, txmb_idx_rd, TxCount) /\ \A i \in Live : txmsgbuf[i] \in Int
      BY <1>1, <2>3, Numbers DEF QueueInv, RingOrder
    <3>2. /\ Contents(txmsgbuf, Live \ {txmb_idx_rd}) = R \ {txmsgbuf[txmb_idx_rd]}
          /\ txmsgbuf[txmb_idx_rd] \in R
      BY <1>1, <2>3, <3>1, RemoveContent, Numbers
    <3> QED BY <2>2, <2>3, <3>2
  <2>5. InHand = {} /\ InHand' = {msg[c]}
    <3>1. msg[c] # NoMsg
      BY <1>1, <2>1 DEF QueueInv, PlaceAt
    <3> QED BY <1>1, <2>1, <2>2, <3>1, InHandNow DEF Taken
  <2>6. UNCHANGED Pending
    BY <2>2 DEF Pending, fifo
  <2> HIDE DEF R
  <2>7. Cardinality(R') = Cardinality(R) - 1
    BY <1>2, <2>4, FS_RemoveElement
  <2>8. Cardinality(InHand) = 0 /\ Cardinality(InHand') = 1
    BY <1>3, <2>5
  <2> QED BY <1>2, <2>6, <2>7, <2>8 DEF SumInv, R
<1>5. CASE TxStore(c)
  <2>1. pc[c] = "tx_store" /\ pc'[c] = "tx_request"
    BY <1>1, <1>5 DEF TxStore, Step, TypeOK
  <2>2. UNCHANGED <<ring, request, msg>>
    BY <1>5 DEF TxStore
  <2>3. UNCHANGED Pending
    BY <1>1, <1>5, <2>2, TxStoreOrder DEF Pending, Ordered
  <2>4. Live' = Live
    BY <1>1, <2>1, <2>2, OneContext DEF Live, ring
  <2>5. InHand' = InHand
    BY <1>1, <2>1, <2>2, InHandNow DEF Taken
  <2>6. R' = R
    BY <2>2, <2>4 DEF ring
  <2> QED BY <1>2, <2>3, <2>5, <2>6 DEF SumInv
<1>6. CASE TxRequest(c)
  <2>1. pc[c] = "tx_request" /\ pc'[c] = "tx_test"
    BY <1>1, <1>6 DEF TxRequest, Step, TypeOK
  <2>2. msg[c] # NoMsg
    BY <1>1, <2>1 DEF IInv, MessageInv, Msg, NoMsg
  <2>3. /\ tpi[c] = put /\ put \notin request /\ txfifo[put] = msg[c]
        /\ Newer(msg[c]) /\ msg[c] \in Int
    BY <1>1, <2>1, <2>2, Numbers DEF QueueInv, PlaceAt, HandAt, Holding
  <2>4. UNCHANGED <<ring, txfifo>> /\ request' = request \cup {put}
    BY <1>6, <2>3 DEF TxRequest
  <2>5. Pending' = Pending \cup {msg[c]} /\ msg[c] \notin Pending
    BY <1>1, <2>3, <2>4, Numbers DEF Pending, NewerIn
  <2>6. Cardinality(Pending') = Cardinality(Pending) + 1
    BY <1>2, <2>5, FS_AddElement
  <2>7. InHand = {msg[c]} /\ InHand' = {}
    BY <1>1, <2>1, <2>2, InHandNow DEF Taken
  <2>8. Cardinality(InHand) = 1 /\ Cardinality(InHand') = 0
    BY <1>3, <2>7
  <2>9. Live' = Live
    BY <1>1, <2>1, <2>4, OneContext DEF Live, ring
  <2>10. R' = R
    BY <2>4, <2>9 DEF ring
  <2> HIDE DEF R
  <2> QED BY <1>2, <2>6, <2>8, <2>10 DEF SumInv, R
<1> QED BY <1>4, <1>5, <1>6

\* Sending a message: from the FIFO to the wire.
LEMMA TransmitSum ==
  ASSUME Ordered, SumInv, Transmit
  PROVE  SumInv'
<1>1. IInv /\ QueueInv /\ TypeOK
  BY DEF Ordered, IInv
<1>2. /\ UNCHANGED <<ring, txfifo, pc, msg>>
      /\ get \in request /\ request' = request \ {get}
      /\ wire' = Append(wire, txfifo[get])
  BY DEF Transmit
<1>3. Sent' = Sent \cup {txfifo[get]} /\ txfifo[get] \notin Sent
  <2>1. /\ Len(wire') = Len(wire) + 1 /\ Len(wire) \in Nat
        /\ \A k \in 1 .. Len(wire) : wire'[k] = wire[k]
        /\ wire'[Len(wire) + 1] = txfifo[get]
    BY <1>1, <1>2, AppendProperties DEF TypeOK, IInv, MessageInv
  <2>2. \A k \in 1 .. Len(wire) : wire[k] < txfifo[get]
    BY <1>1, <1>2 DEF QueueInv, FifoOrder
  <2>3. txfifo[get] \in Int
    BY <1>1, Numbers
  <2> QED BY <2>1, <2>2, <2>3 DEF Sent
<1>4. Pending' = Pending \ {txfifo[get]} /\ txfifo[get] \in Pending
  <2>1. Sorted(request, txfifo, get, FifoSize) /\ \A i \in request : txfifo[i] \in Int
    BY <1>1, Numbers DEF QueueInv, FifoOrder
  <2>2. /\ Contents(txfifo, request \ {get}) = Contents(txfifo, request) \ {txfifo[get]}
        /\ txfifo[get] \in Contents(txfifo, request)
    BY <1>1, <1>2, <2>1, RemoveContent, Numbers
  <2> QED BY <1>2, <2>2 DEF Pending, Contents
<1>5. UNCHANGED <<Live, InHand, AddUnderWay, txmsgbuf, lost_tx_msg_cnt, added>>
  BY <1>2 DEF Live, InHand, AddUnderWay, ring
<1>6. /\ Cardinality(Sent') = Cardinality(Sent) + 1
      /\ Cardinality(Pending') = Cardinality(Pending) - 1
  BY <1>1, <1>3, <1>4, Finite, FS_AddElement, FS_RemoveElement
<1>7. Cardinality(Sent) \in Int /\ Cardinality(Pending) \in Int
  BY <1>1, Finite, FS_CardinalityType
<1> QED BY <1>5, <1>6, <1>7 DEF SumInv, Contents

\* The count is right at the start.
LEMMA InitSum == Init => SumInv
<1> SUFFICES ASSUME Init PROVE SumInv
  OBVIOUS
<1>1. Between(0, 0, TxCount) = {}
  BY InitInv, DropFirst, Numbers DEF IInv, Init
<1>2. Live = {} /\ AddUnderWay = 0
  BY <1>1 DEF Init, Live, AddUnderWay
<1>3. Contents(txmsgbuf, Live) = {} /\ Sent = {} /\ Pending = {} /\ InHand = {}
  BY <1>2 DEF Init, Contents, Sent, Pending, InHand
<1>4. Cardinality({}) = 0
  BY FS_EmptySet
<1>5. added = 0 /\ lost_tx_msg_cnt = 0
  BY DEF Init
<1> HIDE DEF Init
<1> QED BY <1>2, <1>3, <1>4, <1>5 DEF SumInv

\* Every step keeps it right.
LEMMA NextSum ==
  IInv /\ OrderInv /\ (Masked => SumInv) /\ [Next]_vars => (Masked => SumInv')
<1> SUFFICES ASSUME IInv, OrderInv, SumInv, [Next]_vars, Masked PROVE SumInv'
  OBVIOUS
<1>1. Ordered
  BY DEF Ordered, OrderInv
<1>2. ASSUME NEW c \in Context, StartSendMessage(c) \/ HandleTx(c) \/ Continue(c)
      PROVE  SumInv'
  BY <1>1, <1>2, QuietSum, AddSum, TakeSum DEF Continue
<1>3. CASE Transmit
  BY <1>1, <1>3, TransmitSum
<1>4. CASE UNCHANGED vars
  BY <1>4 DEF SumInv, Sent, Pending, InHand, Contents, Live, AddUnderWay, vars, ring, fifo
<1> QED BY <1>2, <1>3, <1>4 DEF Next

\* No message is lost without being counted, and none is in two places, when interrupts
\* are disabled in HandleTx.
THEOREM LostCorrect == Spec => [](Masked => LostIsCounted)
<1>1. IInv /\ OrderInv /\ (Masked => SumInv) => (Masked => LostIsCounted)
  <2> SUFFICES ASSUME IInv, QueueInv, SumInv,
                      \A c \in Context : pc[c] \notin {"add_advance", "add_full"}
               PROVE  Cardinality(Sent) + Cardinality(Pending) + Cardinality(InHand)
                        + Cardinality(Waiting) + lost_tx_msg_cnt = added
    BY DEF LostIsCounted, OrderInv
  <2>1. Live = Between(txmb_idx_rd, txmb_idx_wr, TxCount) /\ AddUnderWay = 0
    BY DEF Live, AddUnderWay
  <2>2. Occupied = Between(txmb_idx_rd, txmb_idx_wr, TxCount)
    <3>1. ASSUME NEW i \in Ring
          PROVE  Behind(i, txmb_idx_rd, TxCount) < Behind(txmb_idx_wr, txmb_idx_rd, TxCount)
                 <=> IF txmb_idx_rd <= txmb_idx_wr
                       THEN i >= txmb_idx_rd /\ i < txmb_idx_wr
                       ELSE i >= txmb_idx_rd \/ i < txmb_idx_wr
      BY Numbers DEF Behind, IInv
    <3>2. Ring = 0 .. TxCount - 1
      BY DEF Ring
    <3> QED BY <3>1, <3>2 DEF Occupied, Between
  <2>3. Waiting = Contents(txmsgbuf, Live)
    BY <2>1, <2>2 DEF Waiting, Contents
  <2>4. lost_tx_msg_cnt \in Int /\ added \in Int
    BY DEF IInv, TypeOK
  <2>5. /\ Cardinality(Sent) \in Int /\ Cardinality(Pending) \in Int
        /\ Cardinality(InHand) \in Int /\ Cardinality(Waiting) \in Int
    BY <2>3, Finite, FS_CardinalityType
  <2> QED BY <2>1, <2>3, <2>4, <2>5 DEF SumInv
<1>2. Init => IInv /\ OrderInv /\ (Masked => SumInv)
  BY InitInv, InitOrder, InitSum
<1>3. IInv /\ OrderInv /\ (Masked => SumInv) /\ [Next]_vars
        => (IInv /\ OrderInv /\ (Masked => SumInv))'
  BY NextInv, NextOrder, NextSum
<1> QED BY <1>1, <1>2, <1>3, PTL DEF Spec
=============================================================================
