------------------------------ MODULE SdCardSpi ------------------------------
(***************************************************************************)
(* The SD card on an SPI bus: the initialisation and the transfer state    *)
(* machine of TSdCardSpi (src/modules/sdcard/sdcard_spi.cpp) with the      *)
(* start functions of TSdCard (sdcard.cpp), against a card that is known   *)
(* by the bytes it sends.                                                  *)
(*                                                                         *)
(* The machine works on windows of bytes: it clocks a fixed number of      *)
(* bytes out of the card and looks in them for a response, a data token or *)
(* the end of the busy signal, each of which may come early, late or not   *)
(* at all; what a window holds beyond the token is the beginning of what   *)
(* comes next.                                                             *)
(***************************************************************************)
EXTENDS Integers, Sequences, SequencesExt, FiniteSetsExt

CONSTANTS
  NBlocks, BlockBytes, Requests,
  CmdWindow,    \* bytes clocked after a command that data follow: cmdlen + 8, after CMD9 24
  AnswerWindow, \* after another command: 8
  AppWindow,    \* after CMD55: 3
  PollWindow,   \* while waiting for something: 8
  CrcWindow,    \* for the CRC of a single block: 4
  NextWindow,   \* for the CRC of a block that others follow: 16
  StopWindow,   \* after CMD12 and with the stop token: 16
  MaxTry,       \* tries of ACMD41: 150
  MaxUnacked,   \* 8
  MaxGap        \* bound: bytes the card lets pass before it answers in time

\* In the code a block has 512 bytes and every window less than 32: a window holds the
\* beginning of one block at most.
ASSUME WindowAssumption ==
  /\ {BlockBytes, CmdWindow, AnswerWindow, AppWindow, CrcWindow, NextWindow, StopWindow,
      MaxTry, MaxUnacked, MaxGap} \subseteq Nat \ {0}
  /\ PollWindow \in Nat \ (0 .. 3) /\ StopWindow >= PollWindow
  /\ CrcWindow >= 2 /\ NextWindow >= 2
  /\ BlockBytes > CmdWindow - 2 /\ BlockBytes > NextWindow - 3 /\ BlockBytes >= PollWindow

VARIABLES
  sd,    \* the members of TSdCardSpi
  card,  \* the card
  called \* history: flips whenever Run is called

vars == <<sd, card, called>>

\* The card that the users of TSdCard see.
Card == INSTANCE SdBlockCard
          WITH store <- card.disk, moved <- sd.got, cur <- sd.cur,
               ok <- sd.completed /\ sd.error = "ok", trusted <- sd.acked

ASSUME BlockAssumption ==
  /\ NBlocks \in Nat \ {0}
  /\ Requests \subseteq {rq \in Card!Request : rq.start + rq.count <= NBlocks}

-----------------------------------------------------------------------------
(* The bytes.  "zero" is 0x00: a response without errors, or busy; "low" a   *)
(* response with an error or the idle bit; "accept" a data response 0xE5,    *)
(* "accept2" one with other upper bits; "reject" any other data response.    *)

Class == {"zero", "low", "ff", "start", "accept", "accept2", "reject", "data"}
Byte(class)   == [class |-> class, of |-> 0, at |-> 0]
Bytes(class, n) == [k \in 1 .. n |-> Byte(class)]
Sector(content) ==
  <<Byte("start")>> \o [k \in 1 .. BlockBytes |-> [class |-> "data", of |-> content, at |-> k]]
                    \o Bytes("ff", 2)

Gap == 0 .. MaxGap

-----------------------------------------------------------------------------
(* The card.  out: the bytes it is going to send, after which it sends 0x00  *)
(* while busy and 0xFF otherwise.                                            *)

\* What the card may decide to send within the next n bytes: busy ends after some
\* of them, or a block is ready.
Longer(c, n) ==
  {c} \cup
  IF Len(c.out) >= n THEN {}
  ELSE IF c.busy
       THEN {[c EXCEPT !.busy = FALSE, !.out = @ \o Bytes("zero", k)] : k \in 0 .. n - Len(c.out)}
  ELSE IF c.mode \in {"read1", "readN"} /\ c.addr < NBlocks
       THEN {[c EXCEPT !.out = @ \o Bytes("ff", g) \o Sector(c.disk[c.addr]),
                       !.addr = @ + 1, !.mode = IF @ = "read1" THEN "listen" ELSE @] : g \in Gap}
  ELSE {}

\* The card after n bytes, with the bytes.
Clock(c, n) ==
  {[card |-> [d EXCEPT !.out = SubSeq(@, n + 1, Len(@))],
    win  |-> SubSeq(d.out \o Bytes(IF d.busy THEN "zero" ELSE "ff", n), 1, n)] : d \in Longer(c, n)}

SendsCsd(c, g) == [c EXCEPT !.out = <<Byte("zero")>> \o Bytes("ff", g) \o <<Byte("start")>>]

\* The card obeys the command, or refuses it.
Obeys(c, cmd, block) ==
  LET Answer(class) == [c EXCEPT !.out = <<Byte(class)>>]
      Data(mode) == {Answer("low"), [Answer("zero") EXCEPT !.mode = mode, !.addr = block]}
  IN CASE cmd = 0         -> {[Answer("low") EXCEPT !.power = "idle"]}
       [] cmd \in {8, 55} -> {Answer("low")}
       [] cmd = 41        -> {Answer("low"), [Answer("zero") EXCEPT !.power = "ready"]}
       [] cmd = 58        -> {Answer("zero")}
       [] cmd = 9         -> {SendsCsd(c, g) : g \in Gap}
       [] cmd = 17        -> Data("read1")
       [] cmd = 18        -> Data("readN")
       [] cmd = 24        -> Data("write1")
       [] cmd = 25        -> Data("writeN")

\* The answer comes after a gap; CMD12 cuts the sending short, and a byte passes first.
Later(c, g) == [c EXCEPT !.out = Bytes("ff", g) \o @]
Cut(c, stuff, g) ==
  [c EXCEPT !.mode = "listen", !.out = <<Byte(stuff)>> \o Bytes("ff", g) \o <<Byte("zero")>>]

\* The card after a command, which it may not hear.
Heard(c, cmd, block) ==
  LET silent == [c EXCEPT !.out = <<>>]
  IN IF cmd = 12 /\ c.mode = "readN" THEN {Cut(c, stuff, g) : stuff \in {"ff", "zero", "low"}, g \in Gap}
     ELSE IF c.busy \/ c.mode # "listen" \/ (c.power = "off" /\ cmd # 0) THEN {silent}
     ELSE {silent} \cup {Later(d, g) : d \in Obeys(c, cmd, block), g \in Gap}

\* The card stores a block of data, or refuses it.
Stores(c, mode, content, answer) ==
  [c EXCEPT !.disk[c.addr] = content, !.addr = @ + 1, !.busy = TRUE,
            !.mode = IF mode = "write1" THEN "listen" ELSE mode, !.out = <<Byte(answer)>>]
Refuses(c, mode) ==
  [c EXCEPT !.mode = IF mode = "write1" THEN "listen" ELSE "refuse", !.out = <<Byte("reject")>>]

\* The card after a block of data with its token.  The CRC passes, then the answer
\* comes, and then the card is busy.
Gets(c, mode, content) ==
  IF c.busy \/ c.mode # mode THEN {[c EXCEPT !.out = <<>>]}
  ELSE {Later(d, 2 + g) : d \in {Stores(c, mode, content, "accept"), Stores(c, mode, content, "accept2"),
                                 Refuses(c, mode)}, g \in Gap}

\* The card after the stop token of a multiple block write: one more byte may pass
\* before it is busy.
Stopped(c) ==
  IF c.busy \/ c.mode \notin {"writeN", "refuse"} THEN {[c EXCEPT !.out = <<>>]}
  ELSE {[c EXCEPT !.mode = "listen", !.busy = TRUE, !.out = Bytes("ff", 1 + g)] : g \in 0 .. 1}

\* Chip select goes up.  A transfer that was not ended is dropped by the card, or
\* it listens to nothing from then on.
Deselect(c) ==
  IF c.mode = "listen" THEN {[c EXCEPT !.out = <<>>]}
  ELSE {[c EXCEPT !.out = <<>>, !.mode = mode] : mode \in {"listen", "lost"}}

\* The card has stored what it got.
CardRests ==
  /\ card.busy
  /\ card' = [card EXCEPT !.busy = FALSE]
  /\ UNCHANGED <<sd, called>>

-----------------------------------------------------------------------------
(* The windows.  idx (rxidx) is the next byte to look at. *)

\* Where the next byte of one of the classes is, behind the window if there is none.
Find(s, classes) ==
  LET at == {k \in s.idx .. Len(s.win) : s.win[k].class \in classes}
  IN IF at = {} THEN Len(s.win) + 1 ELSE Min(at)

Found(s, i) == i <= Len(s.win)

FindResponseCode(s) == Find(s, {"zero", "low"})
FindDataStart(s)    == Find(s, {"start"})

\* Mutant: the end of the busy signal is looked for from the beginning of the window on.
FindNotBusyAnywhere(s) == Find([s EXCEPT !.idx = 1], Class \ {"zero"})

FindNotBusy(s) == Find(s, Class \ {"zero"})

\* There is a response, and it is 0.
GoodResponse(s) ==
  LET i == FindResponseCode(s) IN Found(s, i) /\ s.win[i].class = "zero"

SpiStartRead(s, n) ==
  \E e \in Clock(card, n) :
    /\ card' = e.card
    /\ sd' = [s EXCEPT !.win = e.win, !.idx = 1]

CmdSend(s, cmd, n) ==
  \E c \in Heard(card, cmd, s.block) : \E e \in Clock(c, n) :
    /\ card' = e.card
    /\ sd' = [s EXCEPT !.win = e.win, !.idx = 1, !.expired = FALSE]

\* The members that mean nothing between two transfers are reset.
FinishTransfer(s, error) ==
  /\ card' \in Deselect(card)
  /\ sd' = [s EXCEPT !.tr = 0, !.completed = TRUE, !.error = error, !.cur = Card!NoRequest,
                     !.block = 0, !.left = 0, !.tries = 0, !.win = <<>>, !.idx = 1,
                     !.expired = FALSE, !.got = <<>>, !.acked = TRUE]

-----------------------------------------------------------------------------
(* Reading: trstate 1 to 6 for one block, 30 to 37 for several.  A state that *)
(* goes on to another one within the call of Run is an operator of its own.  *)

Several(s) == s.left > 1

ReadStart(s) ==
  IF Several(s) THEN CmdSend([s EXCEPT !.tr = 30], 18, CmdWindow)
                ELSE CmdSend([s EXCEPT !.tr = 2], 17, CmdWindow)

\* The bytes of a window as bytes of blocks.
Moved(win) == [k \in 1 .. Len(win) |-> [of |-> win[k].of, at |-> win[k].at]]

\* CopyReadData: at most what is missing of the block.
CopyReadData(s) ==
  SubSeq(s.win, s.idx, Min({Len(s.win), s.idx + BlockBytes - 1}))

\* The rest of the block goes to the client's buffer directly.
ReadData(s) ==
  LET copied == CopyReadData(s)
  IN \E e \in Clock(card, BlockBytes - Len(copied)) :
       /\ card' = e.card
       /\ sd' = [s EXCEPT !.tr = IF @ \in {30, 33} THEN 35 ELSE 5,
                          !.got = @ \o Moved(copied) \o Moved(e.win), !.win = <<>>, !.idx = 1]

\* Mutant: the time is not looked at.
NeverTimedOut(s) == FALSE

\* 50 ms have passed since the command.
TimedOut(s) == s.expired

\* States 3 and 33; also the end of 2, 30 and 36, which have just looked.
ReadWait(s) ==
  LET i == FindDataStart(s)
  IN IF Found(s, i) THEN ReadData([s EXCEPT !.idx = i + 1])
     ELSE IF s.tr \in {3, 33} /\ TimedOut(s) THEN FinishTransfer(s, "timeout")
     ELSE SpiStartRead([s EXCEPT !.tr = IF @ \in {30, 33} THEN 33 ELSE 3], PollWindow)

\* States 2 and 30.
ReadResponse(s) ==
  IF GoodResponse(s) THEN ReadWait([s EXCEPT !.idx = FindResponseCode(s) + 1])
                     ELSE FinishTransfer(s, "read")

\* States 5 and 35.
ReadCrc(s) ==
  IF s.tr = 5 THEN SpiStartRead([s EXCEPT !.tr = 6], CrcWindow)
              ELSE SpiStartRead([s EXCEPT !.tr = 36], NextWindow)

\* Mutant: the next block is looked for from the beginning of the next window on.
NextBlockAfterWindow(s) == [s EXCEPT !.left = @ - 1, !.idx = Len(s.win) + 1, !.tr = 33]

\* After CopyCrc the window may hold the beginning of the next block.
NextBlock(s) == [s EXCEPT !.left = @ - 1, !.idx = @ + 2, !.tr = 33]

\* State 36.
ReadNext(s) ==
  IF s.left > 1 THEN ReadWait(NextBlock(s))
                ELSE CmdSend([s EXCEPT !.left = 0, !.tr = 37], 12, StopWindow)

\* State 37: the byte that passes before the answer may look like one.
ReadStop(s) ==
  LET i == FindResponseCode(s)
      good == Found(s, i) /\ (s.win[i].class = "zero" \/ s.win[i + 1].class = "zero")
  IN FinishTransfer(s, IF good THEN "ok" ELSE "read")

-----------------------------------------------------------------------------
(* Writing: trstate 11 to 15 for one block, 20 to 25 for several. *)

WriteStart(s) ==
  IF Several(s) THEN CmdSend([s EXCEPT !.tr = 20], 25, AnswerWindow)
                ELSE CmdSend([s EXCEPT !.tr = 12], 24, AnswerWindow)

\* The next block is sent with its token.
SendBlock(s, mode, next) ==
  /\ card' \in Gets(card, mode, Card!Written(s.cur.count - s.left + 1))
  /\ sd' = [s EXCEPT !.tr = next, !.win = <<>>, !.idx = 1]

\* States 12 and 20.
WriteResponse(s) ==
  IF ~GoodResponse(s) THEN FinishTransfer(s, "write")
  ELSE IF s.tr = 12 THEN SendBlock(s, "write1", 13)
                    ELSE SendBlock([s EXCEPT !.tries = 0], "writeN", 21)

\* States 13 and 21.
WritePoll(s) == SpiStartRead([s EXCEPT !.tr = @ + 1], PollWindow)

\* States 15 and 25.
WriteBusy(s) ==
  IF Found(s, FindNotBusy(s)) THEN FinishTransfer(s, "ok") ELSE SpiStartRead(s, PollWindow)

\* State 14, with 0xE5 and nothing else as an acknowledge.
WriteAck(s) ==
  LET i == Find(s, {"accept"})
  IN IF Found(s, i) THEN WriteBusy([s EXCEPT !.idx = i + 1, !.tr = 15])
                    ELSE FinishTransfer(s, "write")

\* Mutant: the busy signal is looked for from the byte after the token on.
StopIdxEarly == 2

\* Where the busy signal is looked for after the stop token.
StopIdx == 3

\* The stop token; only a part of what is received with it is looked at.
SendStop(s) ==
  \E c \in Stopped(card) : \E e \in Clock(c, StopWindow) :
    /\ card' = e.card
    /\ sd' = [s EXCEPT !.tr = 25, !.tries = 0, !.win = SubSeq(e.win, 1, PollWindow), !.idx = StopIdx]

\* State 23.
WriteNext(s) ==
  IF ~Found(s, FindNotBusy(s)) THEN SpiStartRead([s EXCEPT !.tr = 23], PollWindow)
  ELSE IF s.left > 1 THEN SendBlock([s EXCEPT !.left = @ - 1], "writeN", 21)
  ELSE SendStop([s EXCEPT !.left = 0])

\* State 22: a block without an acknowledge is counted and passed over.
WriteAckSeveral(s) ==
  LET i == Find(s, {"accept", "accept2"})
      after == [s EXCEPT !.idx = i + 1]
  IN IF Found(s, i) THEN WriteNext(after)
     ELSE IF s.tries + 1 > MaxUnacked THEN FinishTransfer(s, "write")
     ELSE WriteNext([after EXCEPT !.tries = @ + 1, !.acked = FALSE])

-----------------------------------------------------------------------------
(* Initialisation: initstate 0 to 9, 100 and 101; 50 is its end. *)

\* The card is deselected and initialised again, later.
Again(s) == [s EXCEPT !.init = 100]

InitCmd(s, cmd, n, next) == CmdSend([s EXCEPT !.init = next], cmd, n)

\* Mutant: any answer to CMD41 is taken for a card that is ready.
LeftIdleAnyway(s) == Found(s, FindResponseCode(s))

\* The card answers CMD41 without the idle bit.
LeftIdle(s) == GoodResponse(s)

\* Mutant: the tries of ACMD41 are not limited.
TooManyTriesNever(s) == FALSE

TooManyTries(s) == s.tries + 1 > MaxTry

\* Only the client's start and the steps of a transfer touch the rest.
Quiet(s) == sd' = s /\ UNCHANGED card

\* States 8 and 100 deselect the card.
Leaves(s) == sd' = s /\ card' \in Deselect(card)

RunInitialization(s) ==
  LET answered == Found(s, FindResponseCode(s))
      csd == [s EXCEPT !.idx = FindResponseCode(s) + 1]
      rest == [s EXCEPT !.win = <<>>, !.idx = 1]
  IN \/ s.init = 0 /\ Leaves([rest EXCEPT !.init = 1])
     \/ s.init = 1 /\ Quiet([s EXCEPT !.init = 2])
     \/ s.init = 2 /\ InitCmd(s, 0, AnswerWindow, 3)
     \/ s.init = 3 /\ IF answered THEN InitCmd(s, 8, AnswerWindow, 4) ELSE Quiet(Again(s))
     \/ s.init = 4 /\ InitCmd([s EXCEPT !.tries = 0], 55, AppWindow, 5)
     \/ s.init = 5 /\ IF answered THEN InitCmd(s, 41, AnswerWindow, 6) ELSE Quiet(Again(s))
     \/ s.init = 6 /\ IF LeftIdle(s) THEN InitCmd(s, 58, AnswerWindow, 7)
                      ELSE IF TooManyTries(s) THEN Quiet(Again([s EXCEPT !.tries = @ + 1]))
                      ELSE InitCmd([s EXCEPT !.tries = @ + 1], 55, AppWindow, 5)
     \/ s.init = 7 /\ InitCmd(s, 9, CmdWindow, 8)
     \/ s.init = 8 /\ IF answered /\ Found(csd, FindDataStart(csd))
                      THEN Leaves([rest EXCEPT !.init = 9]) ELSE Quiet(Again(s))
     \/ s.init = 9 /\ Quiet([s EXCEPT !.init = 50, !.inited = TRUE, !.tries = 0])
     \/ s.init = 100 /\ Leaves([rest EXCEPT !.init = 101, !.tries = 0])
     \/ s.init = 101 /\ Quiet([s EXCEPT !.init = 0])

-----------------------------------------------------------------------------
(* The calls. *)

RunTransfer(s) ==
  \/ s.tr = 0 /\ Quiet(s)
  \/ s.tr = 1 /\ ReadStart(s)
  \/ s.tr \in {2, 30} /\ ReadResponse(s)
  \/ s.tr \in {3, 33} /\ ReadWait(s)
  \/ s.tr \in {5, 35} /\ ReadCrc(s)
  \/ s.tr = 6 /\ FinishTransfer(s, "ok")
  \/ s.tr = 36 /\ ReadNext(s)
  \/ s.tr = 37 /\ ReadStop(s)
  \/ s.tr = 11 /\ WriteStart(s)
  \/ s.tr \in {12, 20} /\ WriteResponse(s)
  \/ s.tr \in {13, 21} /\ WritePoll(s)
  \/ s.tr = 14 /\ WriteAck(s)
  \/ s.tr \in {15, 25} /\ WriteBusy(s)
  \/ s.tr = 22 /\ WriteAckSeveral(s)
  \/ s.tr = 23 /\ WriteNext(s)

\* TSdCardSpi::Run, when the SPI transfer before has finished.
RunMachine(s) == IF s.inited THEN RunTransfer(s) ELSE RunInitialization(s)

Init ==
  /\ sd = [tr |-> 0, init |-> 0, inited |-> FALSE, completed |-> TRUE, error |-> "ok",
           cur |-> Card!NoRequest, block |-> 0, left |-> 0, tries |-> 0,
           win |-> <<>>, idx |-> 1, expired |-> FALSE, got |-> <<>>, acked |-> TRUE]
  /\ card = [disk |-> [b \in Card!Block |-> Card!Original(b)], mode |-> "listen", power |-> "off",
             busy |-> FALSE, addr |-> 0, out |-> <<>>]
  /\ called = FALSE

\* late: the 50 ms have passed.
MayExpire == sd.tr \in {3, 33, 36} /\ ~sd.expired

Run(late) ==
  /\ late => MayExpire
  /\ RunMachine([sd EXCEPT !.expired = @ \/ late])
  /\ called' = ~called

\* StartReadBlocks, StartWriteBlocks: they call Run, which goes on with the
\* initialisation, waits for the SPI, or sends the command.
Start(rq) ==
  LET s == [sd EXCEPT !.cur = rq, !.block = rq.start, !.left = rq.count, !.error = "ok",
                      !.completed = FALSE, !.tr = IF rq.write THEN 11 ELSE 1]
  IN /\ sd.completed
     /\ \/ RunMachine(s)
        \/ ~sd.inited /\ sd.win # <<>> /\ Quiet(s)
     /\ UNCHANGED called

\* A start while a transfer is under way: errorcode is HWERR_BUSY until its end.
StartRefused ==
  /\ ~sd.completed
  /\ sd' = [sd EXCEPT !.error = "busy"]
  /\ UNCHANGED <<card, called>>

Next ==
  \/ \E late \in BOOLEAN : Run(late)
  \/ \E rq \in Requests : Start(rq)
  \/ StartRefused
  \/ CardRests

\* Run is called for ever, the card is not busy for ever, and time passes.
Fairness ==
  /\ WF_called(called' = ~called)
  /\ WF_vars(CardRests)
  /\ []<>(sd.tr \notin {3, 33}) \/ []<>sd.expired

Spec == Init /\ [][Next]_vars /\ Fairness

-----------------------------------------------------------------------------
(* Properties. *)

ByteType == [class : Class, of : Card!Content \cup {0}, at : 0 .. BlockBytes]
Windows  == {CmdWindow, AnswerWindow, AppWindow, PollWindow, CrcWindow, NextWindow, StopWindow}

\* The type of every variable.
TypeOK ==
  /\ sd.tr \in {0, 1, 2, 3, 5, 6, 11, 12, 13, 14, 15, 20, 21, 22, 23, 25, 30, 33, 35, 36, 37}
  /\ sd.init \in (0 .. 9) \cup {50, 100, 101}
  /\ sd.inited \in BOOLEAN /\ sd.completed \in BOOLEAN /\ sd.expired \in BOOLEAN /\ sd.acked \in BOOLEAN
  /\ sd.error \in {"ok", "read", "write", "timeout", "busy"}
  /\ sd.cur \in Card!Request \cup {Card!NoRequest}
  /\ sd.block \in Card!Block /\ sd.left \in 0 .. NBlocks
  /\ sd.tries \in 0 .. Max({MaxTry + 1, MaxUnacked})
  /\ sd.win \in Seq(ByteType) /\ Len(sd.win) \in Windows \cup {0}
  /\ sd.idx \in 1 .. Max(Windows) + 1
  /\ Len(sd.got) <= sd.cur.count * BlockBytes
  /\ card.disk \in [Card!Block -> Card!Content] /\ card.addr \in 0 .. NBlocks
  /\ card.mode \in {"listen", "read1", "readN", "write1", "writeN", "refuse", "lost"}
  /\ card.power \in {"off", "idle", "ready"} /\ card.busy \in BOOLEAN
  /\ card.out \in Seq(ByteType)

Ends == ~sd.completed /\ sd'.completed
Succeeds == Ends /\ sd'.error = "ok"

\* The machine implements the card its users see: every read that succeeds has
\* moved exactly the blocks asked for, in order, whatever windows their bytes came
\* in, and every acknowledged write stored them.
ImplementsCard == Card!Spec

\* A transfer that succeeds, with all blocks acknowledged, leaves a card that
\* takes the next command: not in the middle of a transfer and not busy.
LeavesListening == [][Succeeds /\ sd.acked => card.mode = "listen" /\ ~card.busy]_vars

\* The card waits for the next block of the transfer or for its end, and is not busy.
AwaitsNext(s, c) ==
  /\ c.mode = "writeN" /\ ~c.busy
  /\ c.addr = s.cur.start + (s.cur.count - s.left + 1)

\* In the middle of a transfer with all blocks acknowledged, the card is sent nothing
\* that it is too busy to hear or does not wait for: a block or the stop token comes
\* when it has stored the block before and wants the next one, CMD12 while it reads.
SentWhenAwaited ==
  [][sd.acked =>
       /\ sd.tr \in {22, 23} /\ sd'.tr \in {21, 25} => AwaitsNext(sd, card)
       /\ sd.tr = 36 /\ sd'.tr = 37 => card.mode = "readN"]_vars

\* The transfers begin when the card has left the idle state, although they may be
\* started before.  Whether it is busy then is another matter.
UsedWhenReady == sd.inited \/ sd.tr \notin {0, 1, 11} => card.power = "ready"

\* Every transfer of a card that was initialised ends.
TransferEnds == sd.inited /\ ~sd.completed ~> sd.completed
=============================================================================
