--------------------------- MODULE SdCardSpi_proofs ---------------------------
(***************************************************************************)
(* Proofs about the SD card on an SPI bus, for windows, blocks and gaps of *)
(* any size that WindowAssumption allows: the types, the card's power      *)
(* state, the state a successful transfer leaves the card in, and that the *)
(* machine implements the card its users see.  The inductive invariant     *)
(* says for each state of the machine what is behind it and what may still *)
(* come out of the card.                                                   *)
(***************************************************************************)
EXTENDS SdCardSpi_windows, WellFoundedInduction

USE Sizes
-----------------------------------------------------------------------------
(* The invariant of the members s of TSdCardSpi and the card c: what is true *)
(* in each state of the machine.                                             *)

\* A byte that is not zero shows that the card is not busy.
Honest(w, i, o, c) == \A p \in i .. Ahead(w, o) : At(w, o, p).class # "zero" => ~c.busy

\* The block was acknowledged, and what comes after that can be trusted.
Accepts == {"accept", "accept2"}
Taken(w, o) == \E p \in 1 .. Ahead(w, o) : At(w, o, p).class \in Accepts
HonestAfter(w, o, c) ==
  \A p \in 1 .. Ahead(w, o) : At(w, o, p).class \in Accepts => Honest(w, p + 1, o, c)

\* The block the transfer is at, and the number of blocks that were sent.
BlockOf(s) == s.cur.start + (s.cur.count - s.left)
Sent(s)    == s.cur.count - s.left + 1

Initializes(s, c) ==
  /\ s.init # 50 /\ c.mode = "listen" /\ ~c.busy
  /\ s.init \in {7, 8, 9} => c.power = "ready"
  /\ s.init = 6 /\ ~Without(s.win, 1, c.out, {"zero"}) => c.power = "ready"
  /\ s.init = 9 => s.win = <<>> /\ c.out = <<>>
  /\ s.tries <= IF s.init \in {5, 6} THEN MaxTry ELSE MaxTry + 1
  /\ Len(s.win) \in Windows \cup {0}

Listens(s, c) ==
  /\ s.init = 50 /\ s.win = <<>> /\ s.tries <= MaxUnacked
  /\ c.power = "ready" /\ c.mode \in {"listen", "lost"} /\ c.out = <<>>

\* Between two transfers, or before one.
Rest(s, c) ==
  /\ s.tr \in {0, 1, 11} /\ s.idx = 1 /\ s.acked /\ s.got = <<>>
  /\ s.completed <=> s.tr = 0
  /\ s.tr = 0 => s.cur = Card!NoRequest /\ s.block = 0 /\ s.left = 0
  /\ s.tr # 0 => /\ s.cur \in Requests /\ s.block = s.cur.start /\ s.left = s.cur.count
                 /\ s.cur.write <=> s.tr = 11
  /\ IF s.inited THEN Listens(s, c) ELSE Initializes(s, c)

\* The members that a transfer keeps.
InTransfer(s, c) ==
  /\ s.inited /\ s.init = 50 /\ c.power = "ready"
  /\ ~s.completed /\ s.tries <= MaxUnacked
  /\ s.cur \in Requests /\ s.block = s.cur.start
  /\ s.cur.count > 1 <=> s.tr >= 20

\* The place of byte k of block m.
Offset(m, k) == m * BlockBytes + k

\* The first n blocks were read.
Got(s, c, n) ==
  /\ Len(s.got) = n * BlockBytes
  /\ \A m \in 0 .. n - 1 : \A k \in 1 .. BlockBytes :
       s.got[Offset(m, k)] = [of |-> c.disk[s.cur.start + m], at |-> k]
ReadTransfer(s, c, n) ==
  /\ InTransfer(s, c) /\ ~s.cur.write /\ s.acked
  /\ n \in 0 .. s.cur.count /\ Got(s, c, n)

\* States 2, 3, 30 and 33, where the block is looked for.
Kind(s) == IF s.tr \in {2, 3} THEN "read1" ELSE "readN"
ReadLooks(s, c) ==
  /\ s.left \in 1 .. s.cur.count /\ ReadTransfer(s, c, s.cur.count - s.left)
  /\ Coming(s.win, s.idx, c.out, c, Kind(s), BlockOf(s))
ReadLook(s, c) ==
  /\ s.tr \in {2, 3, 30, 33} /\ s.idx = 1 /\ ReadLooks(s, c)
  /\ Len(s.win) = IF s.tr \in {2, 30} THEN CmdWindow ELSE PollWindow

\* States 5 and 35: the CRC comes next.
ReadHas(s, c) ==
  /\ s.tr \in {5, 35} /\ s.idx = 1 /\ s.win = <<>> /\ ~c.busy
  /\ s.left \in 1 .. s.cur.count /\ ReadTransfer(s, c, s.cur.count - s.left + 1)
  /\ s.tr = 5 => c.mode = "listen"
  /\ s.tr = 35 => /\ c.mode = "readN" /\ c.addr = BlockOf(s) + 1
                  /\ Len(c.out) = 2 /\ c.out[1].class = "ff" /\ c.out[2].class = "ff"

\* State 36: behind the CRC the next block comes.
ReadMore(s, c) ==
  /\ s.tr = 36 /\ s.idx = 1 /\ Len(s.win) = NextWindow /\ c.mode = "readN" /\ ~c.busy
  /\ s.left \in 1 .. s.cur.count /\ ReadTransfer(s, c, s.cur.count - s.left + 1)
  /\ Coming(s.win, 3, c.out, c, "readN", BlockOf(s) + 1)

\* States 6 and 37: everything was read.
ReadEnds(s, c) ==
  /\ s.tr \in {6, 37} /\ s.idx = 1 /\ Len(s.win) \in Windows
  /\ ReadTransfer(s, c, s.cur.count) /\ c.mode = "listen" /\ ~c.busy

WriteTransfer(s, c) == InTransfer(s, c) /\ s.cur.write /\ s.got = <<>>

\* States 12 and 20: the command was sent.
WriteOpens(s, c) ==
  /\ s.tr \in {12, 20} /\ s.idx = 1 /\ Len(s.win) = AnswerWindow /\ s.acked
  /\ s.left = s.cur.count /\ WriteTransfer(s, c)
  /\ LET mode == IF s.tr = 12 THEN "write1" ELSE "writeN"
     IN c.mode \in {"listen", "lost", mode} /\ (c.mode = mode => c.addr = s.block /\ ~c.busy)

\* The first n blocks of the transfer are on the card.
StoredUpTo(s, c, n) == \A i \in 1 .. n : c.disk[s.cur.start + i - 1] = Card!Written(i)

\* States 13 and 14: the block was sent.
WriteOne(s, c) ==
  /\ s.tr \in {13, 14} /\ s.idx = 1 /\ Len(s.win) = (IF s.tr = 13 THEN 0 ELSE PollWindow)
  /\ s.acked /\ s.left = 1 /\ WriteTransfer(s, c)
  /\ c.mode \in {"listen", "lost"}
  /\ Taken(s.win, c.out) => c.mode = "listen" /\ StoredUpTo(s, c, 1)
  /\ HonestAfter(s.win, c.out, c)

\* The first n blocks were taken, and the card expects the next one.
AllSent(s, c, n) == c.mode = "writeN" /\ c.addr = s.cur.start + n /\ StoredUpTo(s, c, n)
WriteN(s, c) ==
  /\ s.left \in 1 .. s.cur.count /\ WriteTransfer(s, c)
  /\ c.mode \in {"listen", "lost", "writeN", "refuse"}
  /\ c.mode = "writeN" => c.addr \in s.cur.start .. s.cur.start + Sent(s)

\* States 21 and 22: a block was sent.
WriteMany(s, c) ==
  /\ s.tr \in {21, 22} /\ s.idx = 1 /\ Len(s.win) = (IF s.tr = 21 THEN 0 ELSE PollWindow)
  /\ WriteN(s, c)
  /\ s.acked /\ Taken(s.win, c.out) => AllSent(s, c, Sent(s))
  /\ HonestAfter(s.win, c.out, c)

\* State 23: the end of the busy signal is waited for.
WriteLooks(s, c) ==
  /\ WriteN(s, c)
  /\ s.acked => AllSent(s, c, Sent(s)) /\ Honest(s.win, s.idx, c.out, c)
WriteMore(s, c) ==
  s.tr = 23 /\ s.idx = 1 /\ Len(s.win) = PollWindow /\ WriteLooks(s, c)

\* States 15 and 25: everything was sent.
WriteWaits(s, c) ==
  /\ WriteTransfer(s, c) /\ s.left \in {0, 1}
  /\ s.acked => /\ c.mode = "listen" /\ StoredUpTo(s, c, s.cur.count)
                /\ Honest(s.win, s.idx, c.out, c)
WriteEnds(s, c) ==
  s.tr \in {15, 25} /\ s.idx \in {1, 3} /\ Len(s.win) = PollWindow /\ WriteWaits(s, c)

States(s, c) ==
  \/ Rest(s, c)
  \/ ReadLook(s, c) \/ ReadHas(s, c) \/ ReadMore(s, c) \/ ReadEnds(s, c)
  \/ WriteOpens(s, c) \/ WriteOne(s, c) \/ WriteMany(s, c) \/ WriteMore(s, c) \/ WriteEnds(s, c)

Inv(s, c) == s \in SdRecord /\ c \in CardRecord /\ States(s, c)
-----------------------------------------------------------------------------
(* The operators of the machine. *)

\* Numbers have a least one among them.
LEMMA Least ==
  ASSUME NEW T, T \subseteq Nat, T # {}
  PROVE  \E x \in T : \A y \in T : x <= y
<1>1. IsWellFoundedOn(OpToRel(<, Nat), Nat)
  BY NatLessThanWellFounded
<1>2. PICK x \in T : \A y \in T : ~(<<y, x>> \in OpToRel(<, Nat))
  BY <1>1, WFMin
<1>3. \A y \in T : ~(y < x)
  BY <1>2 DEF OpToRel
<1> QED BY <1>3

\* A search finds the first byte of the classes, if there is one.
LEMMA FindIs ==
  ASSUME NEW s, s.win \in Seq(ByteType), s.idx \in Nat \ {0}, NEW classes
  PROVE  /\ Find(s, classes) \in Nat \ {0}
         /\ Found(s, Find(s, classes)) =>
              /\ Find(s, classes) >= s.idx
              /\ s.win[Find(s, classes)].class \in classes
              /\ \A k \in s.idx .. Find(s, classes) - 1 : s.win[k].class \notin classes
         /\ ~Found(s, Find(s, classes)) =>
              /\ Find(s, classes) = Len(s.win) + 1
              /\ \A k \in s.idx .. Len(s.win) : s.win[k].class \notin classes
<1> DEFINE at == {k \in s.idx .. Len(s.win) : s.win[k].class \in classes}
           i == Find(s, classes)
<1>0. Len(s.win) \in Nat
  OBVIOUS
<1>1. i = IF at = {} THEN Len(s.win) + 1 ELSE Min(at)
  BY DEF Find
<1>2. CASE at = {}
  BY <1>0, <1>1, <1>2 DEF Found
<1>3. CASE at # {}
  <2>1. at \subseteq Nat
    OBVIOUS
  <2>2. \E x \in at : \A y \in at : x <= y
    BY <2>1, <1>3, Least
  <2>3. i \in at /\ \A y \in at : i <= y
    BY <2>2, <1>1, <1>3 DEF Min
  <2> HIDE DEF i
  <2>4. \A k \in s.idx .. i - 1 : s.win[k].class \notin classes
    BY <2>3, <1>0
  <2> QED BY <2>3, <2>4, <1>0 DEF Found, i
<1> QED BY <1>2, <1>3

\* Fields of the members.
LEMMA SdFields ==
  ASSUME NEW s \in SdRecord
  PROVE  /\ s.tr \in TrStates /\ s.init \in InitStates /\ s.inited \in BOOLEAN
         /\ s.completed \in BOOLEAN /\ s.cur \in Card!Request \cup {Card!NoRequest}
         /\ s.block \in Card!Block /\ s.left \in 0 .. NBlocks /\ s.left \in Nat /\ s.tries \in Nat
         /\ s.win \in Seq(ByteType) /\ Len(s.win) \in Nat /\ s.idx \in Nat \ {0}
         /\ s.expired \in BOOLEAN /\ s.got \in Seq(MovedByte) /\ s.acked \in BOOLEAN
BY DEF SdRecord

\* The members that reading and searching leave alone.
Kept(t, s) ==
  /\ t.init = s.init /\ t.inited = s.inited /\ t.completed = s.completed /\ t.error = s.error
  /\ t.cur = s.cur /\ t.block = s.block /\ t.got = s.got

\* The members with a new window, with a new window and a new time, and in a new state.
Polled(s, w) == [s EXCEPT !.win = w, !.idx = 1]
Commanded(s, w) == [s EXCEPT !.win = w, !.idx = 1, !.expired = FALSE]
Moves(s, tr, left, idx) == [s EXCEPT !.tr = tr, !.left = left, !.idx = idx]

\* A new window keeps the other members.
LEMMA PolledFields ==
  ASSUME NEW s \in SdRecord, NEW w \in Seq(ByteType)
  PROVE  /\ Polled(s, w) \in SdRecord /\ Polled(s, w).win = w /\ Polled(s, w).idx = 1
         /\ Kept(Polled(s, w), s) /\ Polled(s, w).tr = s.tr /\ Polled(s, w).left = s.left
         /\ Polled(s, w).tries = s.tries /\ Polled(s, w).acked = s.acked
<1> DEFINE t == Polled(s, w)
<1>1. t \in SdRecord
  BY 1 \in Nat \ {0}, FALSE \in BOOLEAN DEF SdRecord, Polled
<1>2. t.win = w /\ t.idx = 1
  BY DEF SdRecord, Polled
<1>3. Kept(t, s) /\ t.tr = s.tr /\ t.left = s.left /\ t.tries = s.tries /\ t.acked = s.acked
  BY DEF SdRecord, Kept, Polled
<1> QED BY <1>1, <1>2, <1>3

\* So does a command.
LEMMA CommandedFields ==
  ASSUME NEW s \in SdRecord, NEW w \in Seq(ByteType)
  PROVE  /\ Commanded(s, w) \in SdRecord /\ Commanded(s, w).win = w /\ Commanded(s, w).idx = 1
         /\ Kept(Commanded(s, w), s) /\ Commanded(s, w).tr = s.tr /\ Commanded(s, w).left = s.left
         /\ Commanded(s, w).tries = s.tries /\ Commanded(s, w).acked = s.acked
<1> DEFINE t == Commanded(s, w)
<1>1. t \in SdRecord
  BY 1 \in Nat \ {0}, FALSE \in BOOLEAN DEF SdRecord, Commanded
<1>2. t.win = w /\ t.idx = 1
  BY DEF SdRecord, Commanded
<1>3. Kept(t, s) /\ t.tr = s.tr /\ t.left = s.left /\ t.tries = s.tries /\ t.acked = s.acked
  BY DEF SdRecord, Kept, Commanded
<1> QED BY <1>1, <1>2, <1>3

\* So does a new state, with a new number of blocks left and a new index.
LEMMA MovesFields ==
  ASSUME NEW s \in SdRecord, NEW tr \in TrStates, NEW left \in 0 .. NBlocks, NEW idx \in Nat \ {0}
  PROVE  LET t == Moves(s, tr, left, idx)
         IN  /\ t \in SdRecord /\ t.tr = tr /\ t.left = left /\ t.idx = idx
             /\ Kept(t, s) /\ t.tries = s.tries /\ t.acked = s.acked /\ t.win = s.win
             /\ t.expired = s.expired
<1> DEFINE t == Moves(s, tr, left, idx)
<1>1. t \in SdRecord
  BY DEF SdRecord, Moves
<1>2. t.tr = tr /\ t.left = left /\ t.idx = idx /\ t.win = s.win /\ t.expired = s.expired
  BY DEF SdRecord, Moves
<1>3. Kept(t, s) /\ t.tries = s.tries /\ t.acked = s.acked
  BY DEF SdRecord, Kept, Moves
<1> QED BY <1>1, <1>2, <1>3

MovedOn(t, s, tr, left, idx) ==
  /\ t \in SdRecord /\ t.tr = tr /\ t.left = left /\ t.idx = idx
  /\ Kept(t, s) /\ t.tries = s.tries /\ t.acked = s.acked /\ t.win = s.win
  /\ t.expired = s.expired

\* The same, of a record that is called t.
LEMMA MovesTo ==
  ASSUME NEW s \in SdRecord, NEW tr \in TrStates, NEW left \in 0 .. NBlocks, NEW idx \in Nat \ {0},
         NEW t, t = Moves(s, tr, left, idx)
  PROVE  MovedOn(t, s, tr, left, idx)
BY MovesFields DEF MovedOn

\* Requests are within the card.
LEMMA RequestFits ==
  ASSUME NEW rq \in Requests
  PROVE  /\ rq \in Card!Request /\ rq # Card!NoRequest /\ rq.write \in BOOLEAN
         /\ rq.start \in Card!Block /\ rq.start \in Nat
         /\ rq.count \in 1 .. NBlocks /\ rq.count \in Nat
         /\ rq.start + rq.count <= NBlocks
BY BlockAssumption DEF Card!Request, Card!Block, Card!NoRequest

\* All bytes but the last are 0xFF, and the last is of the class.
Answers(o, class) ==
  /\ o \in Seq(ByteType) /\ Len(o) \in Nat \ {0} /\ o[Len(o)].class = class
  /\ \A p \in 1 .. Len(o) - 1 : o[p].class = "ff"

\* An answer after a gap.
LEMMA AnswerAfter ==
  ASSUME NEW class \in Class, NEW g \in Nat
  PROVE  /\ Answers(Bytes("ff", g) \o <<Byte(class)>>, class)
         /\ Len(Bytes("ff", g) \o <<Byte(class)>>) = g + 1
<1> DEFINE s == Bytes("ff", g)
           t == <<Byte(class)>>
           u == s \o t
<1>1. /\ s \in Seq(ByteType) /\ Len(s) = g /\ \A p \in 1 .. g : s[p].class = "ff"
  <2>1. "ff" \in Class /\ Byte("ff").class = "ff"
    BY DEF Class, Byte
  <2> QED BY <2>1, BytesType
<1>2. t \in Seq(ByteType) /\ Len(t) = 1 /\ t[1].class = class
  <2>1. Byte(class) \in ByteType /\ Byte(class).class = class
    BY BytesType DEF Byte
  <2> QED BY <2>1
<1> HIDE DEF s, t
<1>3. u \in Seq(ByteType) /\ Joined(u, s, t)
  BY <1>1, <1>2, Concat
<1> HIDE DEF u
<1>4. Len(u) = g + 1 /\ u[g + 1].class = class
  BY <1>1, <1>2, <1>3 DEF Joined
<1>5. \A p \in 1 .. Len(u) - 1 : u[p].class = "ff"
  BY <1>1, <1>3, <1>4 DEF Joined
<1>6. Answers(u, class)
  BY <1>3, <1>4, <1>5 DEF Answers
<1> QED BY <1>4, <1>6 DEF u, s, t

\* A command is not heard, cuts the sending short, or is answered.
Answered(c, cmd, block, d) ==
  /\ ~c.busy /\ c.mode = "listen"
  /\ \E f \in Obeys(c, cmd, block), g \in Gap : d = Later(f, g)
\* These are the cases.
LEMMA HeardCases ==
  ASSUME NEW c, NEW cmd, NEW block, NEW d \in Heard(c, cmd, block)
  PROVE  /\ cmd = 12 /\ c.mode = "readN" =>
              \E stuff \in {"ff", "zero", "low"}, g \in Gap : d = Cut(c, stuff, g)
         /\ ~(cmd = 12 /\ c.mode = "readN") =>
              d = [c EXCEPT !.out = <<>>] \/ Answered(c, cmd, block, d)
<1>1. CASE cmd = 12 /\ c.mode = "readN"
  <2>1. d \in {Cut(c, stuff, g) : stuff \in {"ff", "zero", "low"}, g \in Gap}
    BY <1>1 DEF Heard
  <2> QED BY <2>1, <1>1
<1>2. CASE ~(cmd = 12 /\ c.mode = "readN")
  <2> DEFINE silent == [c EXCEPT !.out = <<>>]
  <2>1. ASSUME c.busy \/ c.mode # "listen" PROVE d = silent
    BY <1>2, <2>1, SMTT(30) DEF Heard
  <2>2. ASSUME ~c.busy, c.mode = "listen" PROVE d = silent \/ \E f \in Obeys(c, cmd, block), g \in Gap : d = Later(f, g)
    <3>1. d = silent \/ d \in {Later(f, g) : f \in Obeys(c, cmd, block), g \in Gap}
      BY <1>2, <2>2, SMTT(30) DEF Heard
    <3> QED BY <3>1
  <2> HIDE DEF silent
  <2>3. d = silent \/ Answered(c, cmd, block, d)
    BY <2>1, <2>2 DEF Answered
  <2> QED BY <2>3, <1>2 DEF silent
<1> QED BY <1>1, <1>2

\* The commands that begin a transfer, and what the card does after them.
Opening(cmd, mode) ==
  \/ cmd = 17 /\ mode = "read1"
  \/ cmd = 18 /\ mode = "readN"
  \/ cmd = 24 /\ mode = "write1"
  \/ cmd = 25 /\ mode = "writeN"
Opened(c, d, mode, block) ==
  /\ d \in CardRecord /\ d.disk = c.disk /\ d.power = c.power /\ d.busy = c.busy
  /\ d.out = <<>> \/ Answers(d.out, "low") \/ Answers(d.out, "zero")
  /\ \/ d.mode = c.mode /\ d.addr = c.addr
     \/ d.mode = mode /\ d.addr = block /\ ~d.busy

\* The answer of a card that obeys one of the commands that begin a transfer.
LEMMA HeardOpen ==
  ASSUME NEW c \in CardRecord, NEW block \in Card!Block,
         NEW cmd, NEW mode,
         Opening(cmd, mode),
         NEW d \in Heard(c, cmd, block)
  PROVE  Opened(c, d, mode, block)
<1> DEFINE silent == [c EXCEPT !.out = <<>>]
<1>0. \/ cmd = 17 /\ mode = "read1"
      \/ cmd = 18 /\ mode = "readN"
      \/ cmd = 24 /\ mode = "write1"
      \/ cmd = 25 /\ mode = "writeN"
  BY DEF Opening
<1>1. c.out \in Seq(ByteType) /\ <<>> \in Seq(ByteType) /\ block \in 0 .. NBlocks
      /\ mode \in {"read1", "readN", "write1", "writeN"} /\ cmd \in {17, 18, 24, 25}
  BY <1>0, CardFields DEF Card!Block
<1>2. CASE d = silent
  BY <1>1, <1>2 DEF CardRecord, Opened
<1>3. CASE ~c.busy /\ c.mode = "listen" /\ \E f \in Obeys(c, cmd, block), g \in Gap :
             d = Later(f, g)
  <2>1. PICK f \in Obeys(c, cmd, block), g \in Gap : d = Later(f, g)
    BY <1>3
  <2>2. \/ f = [c EXCEPT !.out = <<Byte("low")>>]
        \/ f = [[c EXCEPT !.out = <<Byte("zero")>>] EXCEPT !.mode = mode, !.addr = block]
    <3>1. CASE cmd = 17 /\ mode = "read1"
      BY <3>1 DEF Obeys
    <3>2. CASE cmd = 18 /\ mode = "readN"
      BY <3>2 DEF Obeys
    <3>3. CASE cmd = 24 /\ mode = "write1"
      BY <3>3 DEF Obeys
    <3>4. CASE cmd = 25 /\ mode = "writeN"
      BY <3>4 DEF Obeys
    <3> QED BY <1>0, <3>1, <3>2, <3>3, <3>4
  <2> DEFINE low == Bytes("ff", g) \o <<Byte("low")>>
             zero == Bytes("ff", g) \o <<Byte("zero")>>
  <2>3. g \in Nat /\ "low" \in Class /\ "zero" \in Class
    BY DEF Gap, Class
  <2>4. Answers(low, "low")
    BY <2>3, AnswerAfter
  <2>5. Answers(zero, "zero")
    BY <2>3, AnswerAfter
  <2>6. \/ d = [c EXCEPT !.out = low]
        \/ d = [c EXCEPT !.out = zero, !.mode = mode, !.addr = block]
    <3>1. CASE f = [c EXCEPT !.out = <<Byte("low")>>]
      BY <2>1, <3>1 DEF CardRecord, Later
    <3>2. CASE f = [[c EXCEPT !.out = <<Byte("zero")>>] EXCEPT !.mode = mode, !.addr = block]
      BY <2>1, <3>2 DEF CardRecord, Later
    <3> QED BY <2>2, <3>1, <3>2
  <2> HIDE DEF low, zero
  <2>7. low \in Seq(ByteType) /\ zero \in Seq(ByteType)
    BY <2>4, <2>5 DEF Answers
  <2>8. CASE d = [c EXCEPT !.out = low]
    <3>1. d \in CardRecord /\ d.out = low /\ d.mode = c.mode /\ d.addr = c.addr
          /\ d.disk = c.disk /\ d.power = c.power /\ d.busy = c.busy
      BY <2>7, <2>8 DEF CardRecord
    <3> QED BY <3>1, <2>4 DEF Opened
  <2>9. CASE d = [c EXCEPT !.out = zero, !.mode = mode, !.addr = block]
    <3>1. d \in CardRecord /\ d.out = zero /\ d.mode = mode /\ d.addr = block
          /\ d.disk = c.disk /\ d.power = c.power /\ d.busy = c.busy
      BY <1>1, <2>7, <2>9 DEF CardRecord
    <3> QED BY <3>1, <2>5, <1>3 DEF Opened
  <2> QED BY <2>6, <2>8, <2>9
<1>4. d = silent \/ Answered(c, cmd, block, d)
  <2>1. cmd # 12
    BY <1>1
  <2> QED BY <2>1, HeardCases
<1> HIDE DEF silent
<1> QED BY <1>2, <1>3, <1>4, Zenon DEF Answered

\* The card obeys, or does not hear, the commands of the initialisation.
LEMMA HeardInit ==
  ASSUME NEW c \in CardRecord, c.mode = "listen", ~c.busy, NEW block,
         NEW cmd \in {0, 8, 9, 41, 55, 58}, NEW d \in Heard(c, cmd, block)
  PROVE  /\ d \in CardRecord /\ d.mode = "listen" /\ ~d.busy /\ d.disk = c.disk
         /\ cmd # 0 /\ c.power = "ready" => d.power = "ready"
         /\ cmd = 41 => d.power = "ready" \/ \A p \in 1 .. Len(d.out) : d.out[p].class # "zero"
<1>1. c.out \in Seq(ByteType) /\ <<>> \in Seq(ByteType) /\ Len(<<>>) = 0
  BY CardFields
<1>2. CASE d = [c EXCEPT !.out = <<>>]
  <2>1. d \in CardRecord /\ d.mode = "listen" /\ ~d.busy /\ d.disk = c.disk /\ d.out = <<>>
        /\ d.power = c.power
    BY <1>1, <1>2 DEF CardRecord
  <2> QED BY <2>1, <1>1
<1>3. ASSUME NEW f \in Obeys(c, cmd, block), NEW g \in Gap, d = Later(f, g)
      PROVE  /\ d \in CardRecord /\ d.mode = "listen" /\ ~d.busy /\ d.disk = c.disk
             /\ cmd # 0 /\ c.power = "ready" => d.power = "ready"
             /\ cmd = 41 => d.power = "ready" \/ \A p \in 1 .. Len(d.out) : d.out[p].class # "zero"
  <2>1. g \in Nat /\ {"ff", "low", "zero", "start"} \subseteq Class
    BY DEF Gap, Class
  <2>2. /\ f \in CardRecord /\ f.mode = c.mode /\ f.busy = c.busy /\ f.disk = c.disk
        /\ cmd # 0 /\ c.power = "ready" => f.power = "ready"
        /\ cmd = 41 => f.power = "ready" \/ f.out = <<Byte("low")>>
    <3>1. <<Byte("low")>> \in Seq(ByteType) /\ <<Byte("zero")>> \in Seq(ByteType)
      BY <2>1, BytesType
    <3>2. CASE f = [c EXCEPT !.out = <<Byte("low")>>]
      BY <3>1, <3>2 DEF CardRecord
    <3>3. CASE f = [c EXCEPT !.out = <<Byte("zero")>>] /\ cmd = 58
      <4>1. /\ f \in CardRecord /\ f.mode = c.mode /\ f.busy = c.busy /\ f.disk = c.disk
            /\ f.power = c.power
        BY <3>1, <3>3 DEF CardRecord
      <4> QED BY <4>1, <3>3
    <3>4. CASE f = [[c EXCEPT !.out = <<Byte("low")>>] EXCEPT !.power = "idle"] /\ cmd = 0
      BY <3>1, <3>4 DEF CardRecord
    <3>5. CASE f = [[c EXCEPT !.out = <<Byte("zero")>>] EXCEPT !.power = "ready"] /\ cmd = 41
      BY <3>1, <3>5 DEF CardRecord
    <3>6. CASE cmd = 9
      <4>1. PICK h \in Gap : f = [c EXCEPT !.out = <<Byte("zero")>> \o Bytes("ff", h) \o <<Byte("start")>>]
        <5>1. f \in {SendsCsd(c, h) : h \in Gap}
          BY <3>6 DEF Obeys
        <5> QED BY <5>1 DEF SendsCsd
      <4> DEFINE o == <<Byte("zero")>> \o Bytes("ff", h) \o <<Byte("start")>>
      <4>2. o \in Seq(ByteType)
        <5>1. h \in Nat
          BY DEF Gap
        <5>2. <<Byte("zero")>> \o Bytes("ff", h) \in Seq(ByteType)
          BY <5>1, <3>1, <2>1, BytesType, Concat
        <5>3. <<Byte("start")>> \in Seq(ByteType)
          BY <2>1, BytesType
        <5> QED BY <5>2, <5>3, Concat
      <4> HIDE DEF o
      <4>3. f = [c EXCEPT !.out = o]
        BY <4>1 DEF o
      <4>4. /\ f \in CardRecord /\ f.mode = c.mode /\ f.busy = c.busy /\ f.disk = c.disk
            /\ f.power = c.power
        BY <4>2, <4>3 DEF CardRecord
      <4> QED BY <4>4, <3>6
    <3>7. CASE cmd = 0
      BY <3>4, <3>7 DEF Obeys
    <3>8. CASE cmd \in {8, 55}
      <4>1. CASE cmd = 8
        BY <4>1, <3>2 DEF Obeys
      <4>2. CASE cmd = 55
        BY <4>2, <3>2 DEF Obeys
      <4> QED BY <4>1, <4>2, <3>8
    <3>9. CASE cmd = 58
      BY <3>3, <3>9 DEF Obeys
    <3>10. CASE cmd = 41
      BY <3>2, <3>5, <3>10 DEF Obeys
    <3> QED BY <3>6, <3>7, <3>8, <3>9, <3>10
  <2> DEFINE u == Bytes("ff", g) \o f.out
  <2>3. u \in Seq(ByteType)
    <3>1. f.out \in Seq(ByteType) /\ Bytes("ff", g) \in Seq(ByteType)
      BY <2>1, <2>2, BytesType, CardFields
    <3> QED BY <3>1, Concat
  <2>4. f.out = <<Byte("low")>> => \A p \in 1 .. Len(u) : u[p].class # "zero"
    <3>1. SUFFICES ASSUME f.out = <<Byte("low")>> PROVE \A p \in 1 .. Len(u) : u[p].class # "zero"
      OBVIOUS
    <3>2. Answers(u, "low")
      BY <2>1, <3>1, AnswerAfter
    <3> HIDE DEF u
    <3>3. \A p \in 1 .. Len(u) : p \in 1 .. Len(u) - 1 \/ p = Len(u)
      BY <3>2 DEF Answers
    <3> QED BY <3>2, <3>3 DEF Answers
  <2> HIDE DEF u
  <2>5. d = [f EXCEPT !.out = u]
    BY <1>3 DEF Later, u
  <2>6. d \in CardRecord /\ d.mode = f.mode /\ d.busy = f.busy /\ d.disk = f.disk /\ d.power = f.power /\ d.out = u
    BY <2>2, <2>3, <2>5 DEF CardRecord
  <2> QED BY <2>2, <2>4, <2>6
<1>4. d = [c EXCEPT !.out = <<>>] \/ Answered(c, cmd, block, d)
  BY HeardCases
<1> QED BY <1>2, <1>3, <1>4, Zenon DEF Answered

\* CMD12 stops a card that is sending blocks.
LEMMA HeardStop ==
  ASSUME NEW c \in CardRecord, c.mode = "readN", ~c.busy, NEW block, NEW cmd, cmd = 12, NEW d \in Heard(c, cmd, block)
  PROVE  d \in CardRecord /\ d.mode = "listen" /\ ~d.busy /\ d.disk = c.disk /\ d.power = c.power
<1>1. PICK stuff \in {"ff", "zero", "low"}, g \in Gap : d = Cut(c, stuff, g)
  <2>1. \E stuff \in {"ff", "zero", "low"}, g \in Gap : d = Cut(c, stuff, g)
    BY HeardCases, SMTT(30)
  <2> QED BY <2>1
<1> DEFINE o == <<Byte(stuff)>> \o Bytes("ff", g) \o <<Byte("zero")>>
<1>2. o \in Seq(ByteType)
  <2>1. g \in Nat /\ {"ff", "zero", stuff} \subseteq Class
    BY DEF Gap, Class
  <2>2. <<Byte(stuff)>> \in Seq(ByteType) /\ <<Byte("zero")>> \in Seq(ByteType)
        /\ Bytes("ff", g) \in Seq(ByteType)
    BY <2>1, BytesType
  <2>3. <<Byte(stuff)>> \o Bytes("ff", g) \in Seq(ByteType)
    BY <2>2, Concat
  <2> QED BY <2>2, <2>3, Concat
<1>3. d = [c EXCEPT !.mode = "listen", !.out = o]
  BY <1>1 DEF Cut
<1> HIDE DEF o
<1> QED BY <1>2, <1>3 DEF CardRecord

\* What the card does with a block of data.
Unheard(c, d, mode) ==
  /\ c.busy \/ c.mode # mode
  /\ d.out = <<>> /\ d.disk = c.disk /\ d.mode = c.mode /\ d.addr = c.addr
Taking(c, d, mode, content) ==
  /\ ~c.busy /\ c.mode = mode /\ d.mode = IF mode = "write1" THEN "listen" ELSE mode
  /\ \E answer \in {"accept", "accept2"} : Answers(d.out, answer)
  /\ d.disk = [c.disk EXCEPT ![c.addr] = content] /\ d.addr = c.addr + 1
Refusing(c, d, mode) ==
  /\ ~c.busy /\ c.mode = mode /\ d.mode = IF mode = "write1" THEN "listen" ELSE "refuse"
  /\ Answers(d.out, "reject")
  /\ d.disk = c.disk /\ d.addr = c.addr

\* A block of data is stored, refused, or not received.
LEMMA GetsCases ==
  ASSUME NEW c \in CardRecord, NEW mode \in {"write1", "writeN"}, NEW content \in Card!Content,
         c.mode = mode => c.addr \in Card!Block, NEW d \in Gets(c, mode, content)
  PROVE  /\ d \in CardRecord /\ d.power = c.power
         /\ Unheard(c, d, mode) \/ Taking(c, d, mode, content) \/ Refusing(c, d, mode)
<1>1. CASE d = [c EXCEPT !.out = <<>>] /\ (c.busy \/ c.mode # mode)
  <2>1. <<>> \in Seq(ByteType)
    OBVIOUS
  <2> QED BY <1>1, <2>1 DEF CardRecord, Unheard
<1>2. ASSUME NEW answer \in {"accept", "accept2"}, NEW g \in Gap,
             d = Later(Stores(c, mode, content, answer), 2 + g), ~c.busy, c.mode = mode
      PROVE  /\ d \in CardRecord /\ d.power = c.power
             /\ d.mode = IF mode = "write1" THEN "listen" ELSE mode
             /\ Answers(d.out, answer)
             /\ d.disk = [c.disk EXCEPT ![c.addr] = content] /\ d.addr = c.addr + 1
  <2> DEFINE u == Bytes("ff", 2 + g) \o <<Byte(answer)>>
             disk == [c.disk EXCEPT ![c.addr] = content]
             addr == c.addr + 1
             next == IF mode = "write1" THEN "listen" ELSE mode
  <2>1. Answers(u, answer)
    <3>1. 2 + g \in Nat /\ answer \in Class
      BY DEF Gap, Class
    <3> QED BY <3>1, AnswerAfter
  <2>2. disk \in [Card!Block -> Card!Content] /\ next \in {"listen", "writeN"}
    BY CardFields
  <2>3. addr \in 0 .. NBlocks
    BY <1>2 DEF Card!Block
  <2>4. d = [c EXCEPT !.disk = disk, !.addr = addr, !.busy = TRUE, !.mode = next, !.out = u]
    BY <1>2 DEF Later, Stores, CardRecord
  <2> HIDE DEF u, disk, addr, next
  <2>5. u \in Seq(ByteType)
    BY <2>1 DEF Answers
  <2>6. d \in CardRecord /\ d.power = c.power /\ d.mode = next /\ d.out = u /\ d.disk = disk /\ d.addr = addr
    BY <2>2, <2>3, <2>4, <2>5 DEF CardRecord
  <2> QED BY <2>1, <2>6 DEF disk, addr, next
<1>3. ASSUME NEW g \in Gap, d = Later(Refuses(c, mode), 2 + g)
      PROVE  /\ d \in CardRecord /\ d.power = c.power
             /\ d.mode = IF mode = "write1" THEN "listen" ELSE "refuse"
             /\ Answers(d.out, "reject")
             /\ d.disk = c.disk /\ d.addr = c.addr
  <2> DEFINE u == Bytes("ff", 2 + g) \o <<Byte("reject")>>
             next == IF mode = "write1" THEN "listen" ELSE "refuse"
  <2>1. Answers(u, "reject")
    <3>1. 2 + g \in Nat /\ "reject" \in Class
      BY DEF Gap, Class
    <3> QED BY <3>1, AnswerAfter
  <2>2. next \in {"listen", "refuse"}
    OBVIOUS
  <2>4. d = [c EXCEPT !.mode = next, !.out = u]
    BY <1>3 DEF Later, Refuses, CardRecord
  <2> HIDE DEF u, next
  <2>5. u \in Seq(ByteType)
    BY <2>1 DEF Answers
  <2>6. d \in CardRecord /\ d.power = c.power /\ d.mode = next /\ d.out = u /\ d.disk = c.disk /\ d.addr = c.addr
    BY <2>2, <2>4, <2>5 DEF CardRecord
  <2> QED BY <2>1, <2>6 DEF next
<1>4. CASE ~c.busy /\ c.mode = mode
  <2>1. \E f \in {Stores(c, mode, content, "accept"), Stores(c, mode, content, "accept2"), Refuses(c, mode)} :
          \E g \in Gap : d = Later(f, 2 + g)
    BY <1>4 DEF Gets
  <2>2. \/ \E answer \in {"accept", "accept2"} : \E g \in Gap : d = Later(Stores(c, mode, content, answer), 2 + g)
        \/ \E g \in Gap : d = Later(Refuses(c, mode), 2 + g)
    BY <2>1
  <2> QED BY <2>2, <1>2, <1>3, <1>4 DEF Taking, Refusing
<1> QED BY <1>1, <1>4, SMTT(30) DEF Gets
-----------------------------------------------------------------------------
(* The bytes of several blocks. *)

\* The byte j of n blocks is byte k of block m.
LEMMA Place ==
  ASSUME NEW n \in Nat, NEW j \in 1 .. n * BlockBytes
  PROVE  /\ (j - 1) \div BlockBytes \in 0 .. n - 1
         /\ ((j - 1) % BlockBytes) + 1 \in 1 .. BlockBytes
         /\ j = Offset((j - 1) \div BlockBytes, ((j - 1) % BlockBytes) + 1)
<1> DEFINE m == (j - 1) \div BlockBytes
           r == (j - 1) % BlockBytes
<1>1. n * BlockBytes \in Nat /\ j \in Nat /\ j >= 1 /\ j <= n * BlockBytes
  OBVIOUS
<1>2. m \in Int /\ r \in 0 .. BlockBytes - 1 /\ j - 1 = m * BlockBytes + r
  BY <1>1
<1> HIDE DEF m, r
<1>3. m >= 0
  <2>1. SUFFICES ASSUME m <= -1 PROVE FALSE
    BY <1>2
  <2>2. m * BlockBytes <= -BlockBytes
    BY <1>2, <2>1
  <2> QED BY <2>2, <1>1, <1>2
<1>4. m < n
  <2>1. SUFFICES ASSUME m >= n PROVE FALSE
    BY <1>2
  <2>2. m * BlockBytes >= n * BlockBytes
    BY <1>2, <2>1
  <2> QED BY <2>2, <1>1, <1>2
<1> QED BY <1>1, <1>2, <1>3, <1>4 DEF m, r, Offset

\* The bytes of the blocks before are before the bytes of a block.
LEMMA BlocksBefore ==
  ASSUME NEW n \in Nat, NEW m \in 0 .. n - 1, NEW k \in 1 .. BlockBytes
  PROVE  /\ n * BlockBytes \in Nat /\ Offset(m, k) \in 1 .. n * BlockBytes
<1>1. n * BlockBytes \in Nat /\ m * BlockBytes \in Nat
  OBVIOUS
<1>2. (m + 1) * BlockBytes <= n * BlockBytes /\ (m + 1) * BlockBytes = m * BlockBytes + BlockBytes
  OBVIOUS
<1> QED BY <1>1, <1>2 DEF Offset

\* What was read is the beginning of what was asked for, and all of it in the end.
LEMMA GotPrefix ==
  ASSUME NEW s \in SdRecord, NEW c \in CardRecord, s.cur \in Requests,
         NEW n \in 0 .. s.cur.count, Got(s, c, n)
  PROVE  /\ IsPrefix(s.got, Card!BytesOf(s.cur, c.disk))
         /\ n = s.cur.count => s.got = Card!BytesOf(s.cur, c.disk)
         /\ Len(s.got) <= s.cur.count * BlockBytes
<1> DEFINE all == Card!BytesOf(s.cur, c.disk)
           total == s.cur.count * BlockBytes
           byte == [j \in 1 .. total |->
                      [of |-> c.disk[s.cur.start + (j - 1) \div BlockBytes],
                       at |-> ((j - 1) % BlockBytes) + 1]]
<1>1. s.cur.count \in Nat /\ s.cur.start \in Nat
  BY RequestFits
<1>2. s.got \in Seq(MovedByte) /\ Len(s.got) = n * BlockBytes
  BY SdFields DEF Got
<1>3. n * BlockBytes \in Nat /\ total \in Nat /\ n * BlockBytes <= total
  BY <1>1
<1>4. all = byte
  BY DEF Card!BytesOf
<1>5. ASSUME NEW j \in 1 .. n * BlockBytes PROVE s.got[j] = byte[j]
  <2> DEFINE m == (j - 1) \div BlockBytes
             k == ((j - 1) % BlockBytes) + 1
  <2>1. m \in 0 .. n - 1 /\ k \in 1 .. BlockBytes /\ j = Offset(m, k)
    <3>1. n \in Nat
      BY <1>1
    <3> QED BY <3>1, Place
  <2>2. byte[j] = [of |-> c.disk[s.cur.start + m], at |-> k]
    BY <1>3
  <2> HIDE DEF m, k, byte
  <2>3. s.got[Offset(m, k)] = [of |-> c.disk[s.cur.start + m], at |-> k]
    BY <2>1 DEF Got
  <2> QED BY <2>1, <2>2, <2>3
<1>6. DOMAIN byte = 1 .. total /\ byte = [j \in 1 .. total |-> byte[j]]
  OBVIOUS
<1> HIDE DEF byte, total
<1> DEFINE S == {byte[j] : j \in 1 .. total}
<1>7. byte \in [1 .. total -> S]
  BY <1>6
<1> HIDE DEF S
<1>8. Len(byte) = total /\ byte \in Seq(S)
  BY ONLY <1>3, <1>7
<1>9. SubSeq(s.got, 1, n * BlockBytes) = SubSeq(byte, 1, n * BlockBytes)
  <2>1. SubSeq(s.got, 1, n * BlockBytes) = [j \in 1 .. n * BlockBytes |-> s.got[j]]
    BY <1>2, <1>3
  <2>2. SubSeq(byte, 1, n * BlockBytes) = [j \in 1 .. n * BlockBytes |-> byte[j]]
    BY ONLY <1>3, <1>8, Sizes, n \in 0 .. s.cur.count
  <2> QED BY <2>1, <2>2, <1>5
<1>10. IsPrefix(s.got, all)
  BY <1>2, <1>3, <1>4, <1>8, <1>9 DEF IsPrefix
<1>11. n = s.cur.count => s.got = all
  <2>1. SUFFICES ASSUME n = s.cur.count PROVE s.got = byte
    BY <1>4
  <2>2. s.got = [j \in 1 .. n * BlockBytes |-> s.got[j]]
    BY <1>2
  <2>3. total = n * BlockBytes
    BY <2>1 DEF total
  <2> QED BY <2>2, <2>3, <1>5, <1>6
<1> QED BY <1>2, <1>3, <1>10, <1>11 DEF total

\* A block that is appended to n blocks.
LEMMA GotMore ==
  ASSUME NEW s \in SdRecord, NEW c \in CardRecord, NEW n \in Nat, Got(s, c, n),
         NEW block \in Seq(MovedByte), Len(block) = BlockBytes,
         \A k \in 1 .. BlockBytes : block[k] = [of |-> c.disk[s.cur.start + n], at |-> k],
         NEW t, t.cur = s.cur, t.got = s.got \o block, NEW d, d.disk = c.disk
  PROVE  t.got \in Seq(MovedByte) /\ Got(t, d, n + 1) /\ IsPrefix(s.got, t.got)
<1>1. s.got \in Seq(MovedByte) /\ Len(s.got) = n * BlockBytes /\ n * BlockBytes \in Nat
      /\ (n + 1) * BlockBytes = n * BlockBytes + BlockBytes
  BY SdFields DEF Got
<1>2. t.got \in Seq(MovedByte) /\ Joined(t.got, s.got, block)
  BY <1>1, Concat
<1>3. ASSUME NEW m \in 0 .. n, NEW k \in 1 .. BlockBytes
      PROVE  t.got[Offset(m, k)] = [of |-> d.disk[t.cur.start + m], at |-> k]
  <2>1. CASE m = n
    <3>1. Offset(m, k) = Len(s.got) + k
      BY <2>1, <1>1 DEF Offset
    <3>2. t.got[Len(s.got) + k] = block[k]
      BY <1>2 DEF Joined
    <3> QED BY <3>1, <3>2, <2>1
  <2>2. CASE m < n
    <3>0. m \in 0 .. n - 1
      BY <2>2
    <3>1. Offset(m, k) \in 1 .. n * BlockBytes
      BY <3>0, BlocksBefore
    <3>2. t.got[Offset(m, k)] = s.got[Offset(m, k)]
      BY <3>1, <1>1, <1>2 DEF Joined
    <3>3. s.got[Offset(m, k)] = [of |-> c.disk[s.cur.start + m], at |-> k]
      BY <3>0 DEF Got
    <3> QED BY <3>2, <3>3
  <2>3. m = n \/ m < n
    OBVIOUS
  <2> QED BY <2>1, <2>2, <2>3
<1>4. Len(t.got) = (n + 1) * BlockBytes
  BY <1>1, <1>2 DEF Joined
<1>5. SubSeq(s.got, 1, Len(s.got)) = SubSeq(t.got, 1, Len(s.got))
  <2>1. SubSeq(s.got, 1, n * BlockBytes) = [j \in 1 .. n * BlockBytes |-> s.got[j]]
    BY <1>1
  <2>2. SubSeq(t.got, 1, n * BlockBytes) = [j \in 1 .. n * BlockBytes |-> t.got[j]]
    BY <1>1, <1>2, <1>4
  <2>3. \A j \in 1 .. n * BlockBytes : t.got[j] = s.got[j]
    BY <1>1, <1>2 DEF Joined
  <2> QED BY <2>1, <2>2, <2>3, <1>1
<1>6. IsPrefix(s.got, t.got)
  BY <1>1, <1>4, <1>5 DEF IsPrefix
<1>7. Got(t, d, n + 1)
  <2>1. (n + 1) - 1 = n
    OBVIOUS
  <2> QED BY <2>1, <1>3, <1>4 DEF Got
<1> QED BY <1>2, <1>6, <1>7

-----------------------------------------------------------------------------
(* What a step of the machine means to the users of the card. *)

Goes(s) == sd'.cur = s.cur /\ sd'.completed = s.completed /\ sd'.error = s.error
Keeps(s) == Goes(s) /\ card'.disk = card.disk /\ sd'.got = s.got /\ sd'.acked = s.acked
Reads(s) ==
  /\ Goes(s) /\ ~s.cur.write /\ card'.disk = card.disk /\ sd'.acked = s.acked
  /\ IsPrefix(s.got, sd'.got) /\ IsPrefix(sd'.got, Card!BytesOf(s.cur, card.disk))
Writes(s) ==
  /\ Goes(s) /\ s.cur.write /\ sd'.got = s.got /\ (sd'.acked => s.acked)
  /\ \A b \in Card!Block : card'.disk[b] # card.disk[b] =>
       /\ b \in Card!BlocksOf(s.cur)
       /\ s.acked => card'.disk[b] = Card!Written(b - s.cur.start + 1)

\* What the success of a transfer means.
Done(s) ==
  /\ card.mode = "listen" /\ ~card.busy
  /\ IF s.cur.write THEN Card!Stored(s.cur, card.disk) ELSE s.got = Card!BytesOf(s.cur, card.disk)
Finishes(s) ==
  /\ sd'.cur = Card!NoRequest /\ sd'.got = <<>> /\ sd'.acked /\ sd'.completed
  /\ card'.disk = card.disk
  /\ sd'.error = "ok" /\ s.acked => Done(s)

Effect(s) == Keeps(s) \/ Reads(s) \/ Writes(s) \/ Finishes(s)

\* The end of a transfer.
LEMMA Finish ==
  ASSUME NEW s \in SdRecord, card \in CardRecord, s.inited, s.init = 50, card.power = "ready",
         NEW error \in {"ok", "read", "write", "timeout", "busy"}, FinishTransfer(s, error),
         error = "ok" /\ s.acked => Done(s)
  PROVE  Inv(sd', card') /\ Effect(s)
<1>1. card' \in CardRecord /\ card'.mode \in {"listen", "lost"} /\ card'.out = <<>>
      /\ card'.disk = card.disk /\ card'.power = card.power
  <2>1. <<>> \in Seq(ByteType)
    OBVIOUS
  <2>2. CASE card' = [card EXCEPT !.out = <<>>] /\ card.mode = "listen"
    BY <2>1, <2>2 DEF CardRecord
  <2>3. ASSUME NEW mode \in {"listen", "lost"}, card' = [card EXCEPT !.out = <<>>, !.mode = mode]
        PROVE  card' \in CardRecord /\ card'.mode \in {"listen", "lost"} /\ card'.out = <<>>
               /\ card'.disk = card.disk /\ card'.power = card.power
    BY <2>1, <2>3 DEF CardRecord
  <2> QED BY <2>2, <2>3 DEF FinishTransfer, Deselect
<1> DEFINE none == Card!NoRequest
<1>2. none \in Card!Request \cup {Card!NoRequest} /\ 0 \in Card!Block /\ 0 \in 0 .. NBlocks /\ 0 \in TrStates
  BY DEF Card!Block, TrStates
<1>3. sd' = [s EXCEPT !.tr = 0, !.completed = TRUE, !.error = error, !.cur = none,
                     !.block = 0, !.left = 0, !.tries = 0, !.win = <<>>, !.idx = 1,
                     !.expired = FALSE, !.got = <<>>, !.acked = TRUE]
  BY DEF FinishTransfer
<1> HIDE DEF none
<1>4. <<>> \in Seq(ByteType) /\ <<>> \in Seq(MovedByte) /\ 0 \in Nat /\ 1 \in Nat \ {0}
  OBVIOUS
<1>5. sd' \in SdRecord
  BY ONLY <1>2, <1>3, <1>4, s \in SdRecord, error \in {"ok", "read", "write", "timeout", "busy"} DEF SdRecord
<1>6. /\ sd'.tr = 0 /\ sd'.completed = TRUE /\ sd'.error = error /\ sd'.cur = none /\ sd'.block = 0
      /\ sd'.left = 0 /\ sd'.tries = 0 /\ sd'.win = <<>> /\ sd'.idx = 1 /\ sd'.got = <<>>
      /\ sd'.acked = TRUE /\ sd'.inited = s.inited /\ sd'.init = s.init
  BY ONLY <1>3, s \in SdRecord DEF SdRecord
<1>7. Rest(sd', card')
  BY <1>1, <1>6 DEF Rest, Listens, none
<1>8. Finishes(s)
  BY <1>1, <1>6 DEF Finishes, none
<1> QED BY <1>1, <1>5, <1>7, <1>8 DEF Inv, States, Effect
-----------------------------------------------------------------------------
(* Reading. *)

\* What a step means depends on few of the members.
LEMMA EffectSame ==
  ASSUME NEW s, NEW t, t.cur = s.cur, t.completed = s.completed, t.error = s.error,
         t.got = s.got, t.acked = s.acked, Effect(t)
  PROVE  Effect(s)
BY DEF Effect, Keeps, Reads, Writes, Finishes, Goes, Done

\* A card that sends one block after the other goes on with it.
LEMMA ClockReadN ==
  ASSUME NEW c \in CardRecord, c.mode = "readN", ~c.busy, NEW n \in Nat, NEW e \in Clock(c, n)
  PROVE  e.card.mode = "readN" /\ ~e.card.busy
<1>1. PICK d \in Longer(c, n) : SameCard(e.card, d)
  BY ClockShows
<1>2. d = c \/ BusyEnds(c, d, n) \/ BlockComes(c, d, n)
  BY LongerCases
<1>3. d.mode = "readN" /\ ~d.busy
  BY <1>2 DEF BusyEnds, BlockComes
<1> QED BY <1>1, <1>3 DEF SameCard

\* A command to read is sent.
LEMMA ReadOpens ==
  ASSUME NEW s \in SdRecord, card \in CardRecord, Rest(s, card), s.inited, s.tr = 1, ReadStart(s)
  PROVE  Inv(sd', card') /\ Keeps(s)
<1> DEFINE tr == IF Several(s) THEN 30 ELSE 2
           cmd == IF Several(s) THEN 18 ELSE 17
           kind == IF Several(s) THEN "readN" ELSE "read1"
           t == [s EXCEPT !.tr = tr]
<1>1. CmdSend(t, cmd, CmdWindow)
  BY DEF ReadStart
<1>2. /\ s.cur \in Requests /\ ~s.cur.write /\ s.block = s.cur.start /\ s.left = s.cur.count
      /\ s.init = 50 /\ s.tries <= MaxUnacked /\ card.power = "ready"
      /\ card.mode \in {"listen", "lost"} /\ s.acked /\ s.got = <<>> /\ ~s.completed
  BY DEF Rest, Listens
<1>3. s.cur.count \in Nat /\ s.cur.count >= 1 /\ s.cur.start \in Nat /\ s.block \in Card!Block
  BY <1>2, RequestFits
<1>4. /\ tr \in {2, 30} /\ tr \in TrStates /\ kind \in {"read1", "readN"}
      /\ Opening(cmd, kind)
      /\ (s.cur.count > 1) <=> (tr >= 20)
      /\ kind = IF tr \in {2, 3} THEN "read1" ELSE "readN"
  <2>1. CASE Several(s)
    <3>1. s.cur.count > 1
      BY <2>1, <1>2, <1>3 DEF Several
    <3> QED BY <2>1, <3>1 DEF TrStates, Opening
  <2>2. CASE ~Several(s)
    <3>1. s.cur.count = 1
      BY <2>2, <1>2, <1>3 DEF Several
    <3> QED BY <2>2, <3>1 DEF TrStates, Opening
  <2> QED BY <2>1, <2>2
<1>41. tr \in TrStates
  BY <1>4
<1>5. t \in SdRecord /\ Kept(t, s) /\ t.tr = tr /\ t.left = s.left /\ t.tries = s.tries /\ t.acked = s.acked
  <2>1. t = Moves(s, tr, s.left, s.idx)
    BY DEF SdRecord, Moves
  <2>2. s.left \in 0 .. NBlocks /\ s.idx \in Nat \ {0}
    BY SdFields
  <2> HIDE DEF t, tr
  <2> QED BY <2>1, <2>2, <1>41, MovesFields, SMTT(30)
<1> HIDE DEF t, tr, cmd, kind
<1>6. PICK c \in Heard(card, cmd, t.block) : \E e \in Clock(c, CmdWindow) :
        /\ card' = e.card
        /\ sd' = [t EXCEPT !.win = e.win, !.idx = 1, !.expired = FALSE]
  BY <1>1 DEF CmdSend
<1>7. PICK e \in Clock(c, CmdWindow) :
        /\ card' = e.card
        /\ sd' = [t EXCEPT !.win = e.win, !.idx = 1, !.expired = FALSE]
  BY <1>6
<1>8. t.block = s.block
  BY <1>5 DEF Kept
<1>9. /\ c \in CardRecord /\ c.disk = card.disk /\ c.power = card.power /\ c.busy = card.busy
      /\ c.out = <<>> \/ Answers(c.out, "low") \/ Answers(c.out, "zero")
      /\ \/ c.mode = card.mode /\ c.addr = card.addr
         \/ c.mode = kind /\ c.addr = s.block /\ ~c.busy
  <2>1. c \in Heard(card, cmd, s.block) /\ s.block \in Card!Block
    BY <1>3, <1>6, <1>8
  <2>2. Opened(card, c, kind, s.block)
    BY <2>1, <1>4, HeardOpen
  <2> QED BY <2>2 DEF Opened
<1>10. Nothing(<<>>, 1, c.out, c, kind, s.block)
  <2>1. c.out \in Seq(ByteType) /\ Len(c.out) \in Nat
    BY <1>9, CardFields
  <2>2. \A p \in 1 .. Len(c.out) : c.out[p].class # "start"
    <3>1. CASE c.out = <<>>
      BY <3>1
    <3>2. ASSUME NEW class \in {"low", "zero"}, Answers(c.out, class)
          PROVE  \A p \in 1 .. Len(c.out) : c.out[p].class # "start"
      <4>1. \A p \in 1 .. Len(c.out) : p = Len(c.out) \/ p \in 1 .. Len(c.out) - 1
        BY <2>1
      <4> QED BY <4>1, <3>2 DEF Answers
    <3> QED BY <3>1, <3>2, <1>9
  <2>3. Without(<<>>, 1, c.out, {"start"})
    BY <2>1, <2>2, NoWindow DEF Without
  <2> QED BY <2>3, <1>2, <1>4, <1>9 DEF Nothing
<1>11. Coming(e.win, 1, e.card.out, e.card, kind, s.block)
  <2>1. CmdWindow \in Nat /\ CmdWindow <= BlockBytes + 2 /\ 1 \in Nat \ {0} /\ 1 <= Len(c.out) + 1
    BY <1>9, CardFields
  <2>2. Coming(<<>>, 1, c.out, c, kind, s.block)
    BY <1>10 DEF Coming
  <2> QED BY <2>1, <2>2, <1>4, <1>9, ClockComing, Zenon
<1>12. /\ e.card \in CardRecord /\ e.win \in Seq(ByteType) /\ Len(e.win) = CmdWindow
       /\ e.card.disk = c.disk /\ e.card.power = c.power
  BY <1>9, ClockSends DEF Sends
<1>13. /\ sd' \in SdRecord /\ sd'.win = e.win /\ sd'.idx = 1 /\ Kept(sd', t)
       /\ sd'.tr = tr /\ sd'.left = s.left /\ sd'.tries = s.tries /\ sd'.acked = s.acked
    <2>1. sd' = Commanded(t, e.win)
    BY <1>7 DEF Commanded
  <2> QED BY <2>1, <1>5, <1>12, CommandedFields
<1>14. /\ sd'.init = s.init /\ sd'.inited = s.inited /\ sd'.completed = s.completed /\ sd'.error = s.error
       /\ sd'.cur = s.cur /\ sd'.block = s.block /\ sd'.got = s.got
  BY <1>5, <1>13 DEF Kept
<1>15. /\ card' \in CardRecord /\ card'.disk = card.disk /\ card'.power = "ready"
       /\ Coming(sd'.win, 1, card'.out, card', kind, s.block)
  BY <1>2, <1>7, <1>9, <1>11, <1>12, <1>13
<1>16. InTransfer(sd', card')
  BY <1>2, <1>4, <1>13, <1>14, <1>15 DEF InTransfer
<1>17. Got(sd', card', 0)
  BY <1>2, <1>14 DEF Got
<1>18. sd'.left \in 1 .. sd'.cur.count /\ sd'.cur.count - sd'.left = 0 /\ BlockOf(sd') = s.block
       /\ 0 \in 0 .. sd'.cur.count
  BY <1>2, <1>3, <1>13, <1>14 DEF BlockOf
<1>19. ReadLooks(sd', card')
  BY <1>2, <1>4, <1>13, <1>14, <1>15, <1>16, <1>17, <1>18 DEF ReadLooks, ReadTransfer, Kind
<1>20. ReadLook(sd', card')
  BY <1>4, <1>12, <1>13, <1>19 DEF ReadLook
<1> QED BY <1>13, <1>14, <1>15, <1>20 DEF Inv, States, Keeps, Goes

\* The bytes of a window that are moved.
LEMMA MovedIs ==
  ASSUME NEW w \in Seq(ByteType)
  PROVE  /\ Moved(w) \in Seq(MovedByte) /\ Len(Moved(w)) = Len(w)
         /\ \A k \in 1 .. Len(w) : Moved(w)[k] = [of |-> w[k].of, at |-> w[k].at]
<1>1. Len(w) \in Nat /\ \A k \in 1 .. Len(w) : w[k] \in ByteType
  OBVIOUS
<1>2. \A k \in 1 .. Len(w) : [of |-> w[k].of, at |-> w[k].at] \in MovedByte
  BY <1>1 DEF ByteType, MovedByte
<1>3. Moved(w) \in [1 .. Len(w) -> MovedByte]
  BY <1>2 DEF Moved
<1>4. \A k \in 1 .. Len(w) : Moved(w)[k] = [of |-> w[k].of, at |-> w[k].at]
  BY DEF Moved
<1>5. Moved(w) \in Seq(MovedByte) /\ Len(Moved(w)) = Len(w)
  BY ONLY <1>1, <1>3
<1> QED BY <1>4, <1>5

\* The bytes of the block at place i, behind the index and then behind the window.
LEMMA BlockBytesAt ==
  ASSUME NEW w \in Seq(ByteType), NEW o \in Seq(ByteType), NEW i \in 1 .. Len(w), NEW content,
         BlockAt(w, o, i, content), Len(w) - i < BlockBytes
  PROVE  LET n == Len(w) - i
         IN  /\ n \in Nat /\ n < BlockBytes /\ Len(o) = BlockBytes - n + 2
             /\ \A k \in 1 .. n : w[i + k] = [class |-> "data", of |-> content, at |-> k]
             /\ \A k \in 1 .. BlockBytes - n : o[k] = [class |-> "data", of |-> content, at |-> n + k]
             /\ \A k \in 1 .. 2 : o[BlockBytes - n + k].class = "ff"
<1> DEFINE n == Len(w) - i
<1>1. Len(w) \in Nat /\ Len(o) \in Nat /\ i \in Nat
  OBVIOUS
<1>2. /\ Len(w) + Len(o) = i + BlockBytes + 2
      /\ \A k \in 1 .. BlockBytes : At(w, o, i + k) = [class |-> "data", of |-> content, at |-> k]
      /\ \A k \in 1 .. 2 : At(w, o, i + BlockBytes + k).class = "ff"
  BY DEF BlockAt, Ahead
<1>3. n \in Nat /\ n < BlockBytes /\ Len(o) = BlockBytes - n + 2 /\ i + n = Len(w)
  BY <1>1, <1>2
<1> HIDE DEF n
<1>4. ASSUME NEW k \in 1 .. n PROVE w[i + k] = [class |-> "data", of |-> content, at |-> k]
  <2>1. i + k <= Len(w) /\ k \in 1 .. BlockBytes
    BY <1>1, <1>3
  <2> QED BY <2>1, <1>2 DEF At
<1>5. ASSUME NEW k \in 1 .. BlockBytes - n
      PROVE  o[k] = [class |-> "data", of |-> content, at |-> n + k]
  <2>1. n + k \in 1 .. BlockBytes /\ ~(i + (n + k) <= Len(w)) /\ i + (n + k) - Len(w) = k
    BY <1>1, <1>3
  <2>2. At(w, o, i + (n + k)) = [class |-> "data", of |-> content, at |-> n + k]
    BY <2>1, <1>2
  <2>3. At(w, o, i + (n + k)) = o[k]
    BY <2>1 DEF At
  <2> QED BY <2>2, <2>3
<1>6. ASSUME NEW k \in 1 .. 2 PROVE o[BlockBytes - n + k].class = "ff"
  <2>1. ~(i + BlockBytes + k <= Len(w)) /\ i + BlockBytes + k - Len(w) = BlockBytes - n + k
    BY <1>1, <1>3
  <2>2. At(w, o, i + BlockBytes + k).class = "ff"
    BY <1>2
  <2>3. At(w, o, i + BlockBytes + k) = o[BlockBytes - n + k]
    BY <2>1 DEF At
  <2> QED BY <2>2, <2>3
<1> QED BY <1>3, <1>4, <1>5, <1>6 DEF n

\* A card that has the rest of the block to send sends it, and then the CRC.
LEMMA ClockRest ==
  ASSUME NEW c \in CardRecord, ~c.busy, NEW n \in Nat, Len(c.out) = n + 2, NEW e \in Clock(c, n)
  PROVE  /\ e.card \in CardRecord /\ SameCard(e.card, c)
         /\ e.win \in Seq(ByteType) /\ Len(e.win) = n /\ Len(e.card.out) = 2
         /\ \A k \in 1 .. n : e.win[k] = c.out[k]
         /\ \A k \in 1 .. 2 : e.card.out[k] = c.out[n + k]
<1>1. PICK d \in Longer(c, n) : SameCard(e.card, d) /\ Shows(e.win, e.card.out, d, n)
  BY ClockShows
<1>2. d = c
  <2>1. d = c \/ BusyEnds(c, d, n) \/ BlockComes(c, d, n)
    BY LongerCases
  <2> QED BY <2>1 DEF BusyEnds, BlockComes
<1> DEFINE w == e.win
           o == e.card.out
<1>3. /\ w \in Seq(ByteType) /\ Len(w) = n /\ o \in Seq(ByteType) /\ Len(w) + Len(o) = n + 2
      /\ \A p \in 1 .. n + 2 : At(w, o, p) = c.out[p]
  BY <1>1, <1>2 DEF Shows, Ahead
<1>4. e.card \in CardRecord
  BY ClockSends
<1>7. Len(o) = 2
  <2>1. Len(o) \in Nat /\ Len(w) \in Nat
    BY <1>3
  <2>2. Len(w) = n /\ Len(w) + Len(o) = n + 2
    BY <1>3
  <2>3. \A x \in Nat, y \in Nat : x = n /\ x + y = n + 2 => y = 2
    OBVIOUS
  <2> QED BY ONLY <2>1, <2>2, <2>3, Zenon
<1> HIDE DEF w, o
<1>5. \A k \in 1 .. n : w[k] = c.out[k]
  BY <1>3 DEF At
<1>6. ASSUME NEW k \in 1 .. 2 PROVE o[k] = c.out[n + k]
  <2>1. n + k \in 1 .. n + 2 /\ ~(n + k <= Len(w)) /\ n + k - Len(w) = k
    BY <1>3
  <2>2. At(w, o, n + k) = o[k]
    BY <2>1 DEF At
  <2> QED BY <2>1, <2>2, <1>3
<1>8. SameCard(e.card, c)
  BY <1>1, <1>2
<1> QED BY <1>3, <1>4, <1>5, <1>6, <1>7, <1>8 DEF w, o

\* The lesser of two lengths.
LEMMA LesserIs ==
  ASSUME NEW m \in Nat, NEW n \in Nat, m <= n
  PROVE  Min({m, n}) = m
<1>1. \E x \in {m, n} : \A y \in {m, n} : x <= y
  OBVIOUS
<1>2. Min({m, n}) \in {m, n} /\ \A y \in {m, n} : Min({m, n}) <= y
  BY <1>1 DEF Min
<1> QED BY <1>2

\* Three parts of a sequence.
LEMMA Together ==
  ASSUME NEW r \in Seq(MovedByte), NEW s \in Seq(MovedByte), NEW t \in Seq(MovedByte)
  PROVE  (r \o s) \o t = r \o (s \o t)
BY ONLY r \in Seq(MovedByte), s \in Seq(MovedByte), t \in Seq(MovedByte), ConcatAssociative

\* The block that was found is read.
LEMMA ReadMoves ==
  ASSUME NEW s \in SdRecord, card \in CardRecord, s.tr \in {2, 3, 30, 33},
         s.left \in 1 .. s.cur.count, ReadTransfer(s, card, s.cur.count - s.left),
         NEW i \in 1 .. Len(s.win), s.idx = i + 1, Len(s.win) - i < BlockBytes,
         BlockAt(s.win, card.out, i, card.disk[BlockOf(s)]), ~card.busy,
         IF Kind(s) = "read1" THEN card.mode = "listen"
                              ELSE card.mode = "readN" /\ card.addr = BlockOf(s) + 1,
         ReadData(s)
  PROVE  Inv(sd', card') /\ Reads(s)
<1> DEFINE w == s.win
           n == Len(w) - i
           content == card.disk[BlockOf(s)]
           copied == SubSeq(w, i + 1, Len(w))
           blocks == s.cur.count - s.left
<1>1. w \in Seq(ByteType) /\ card.out \in Seq(ByteType) /\ Len(w) \in Nat /\ i \in Nat
      /\ \A p \in 1 .. Len(w) : w[p] \in ByteType
  BY SdFields, CardFields
<1>2. /\ n \in Nat /\ n < BlockBytes /\ Len(card.out) = BlockBytes - n + 2
      /\ \A k \in 1 .. n : w[i + k] = [class |-> "data", of |-> content, at |-> k]
      /\ \A k \in 1 .. BlockBytes - n : card.out[k] = [class |-> "data", of |-> content, at |-> n + k]
      /\ \A k \in 1 .. 2 : card.out[BlockBytes - n + k].class = "ff"
  BY <1>1, BlockBytesAt
<1>3. CopyReadData(s) = copied
  <2>1. s.idx + BlockBytes - 1 \in Nat /\ Len(w) <= s.idx + BlockBytes - 1
    BY <1>1, <1>2
  <2>2. Min({Len(w), s.idx + BlockBytes - 1}) = Len(w)
    BY <2>1, <1>1, LesserIs
  <2> QED BY <2>2 DEF CopyReadData
<1>4. copied \in Seq(ByteType) /\ Len(copied) = n /\ \A k \in 1 .. n : copied[k] = w[i + k]
  <2>1. \A p \in i + 1 .. Len(w) : w[p] \in ByteType
    BY <1>1
  <2>2. /\ copied \in Seq(ByteType)
        /\ Len(copied) = IF i + 1 <= Len(w) THEN Len(w) - (i + 1) + 1 ELSE 0
        /\ \A k \in 1 .. Len(w) - (i + 1) + 1 : copied[k] = w[i + 1 + k - 1]
    BY <1>1, <2>1, SubSeqProperties, SMTT(30)
  <2>3. Len(copied) = n
    BY <2>2, <1>1
  <2>4. \A k \in 1 .. n : copied[k] = w[i + k]
    BY <2>2, <1>1
  <2> QED BY <2>2, <2>3, <2>4
<1> HIDE DEF n, content, copied
<1>5. PICK e \in Clock(card, BlockBytes - n) :
        /\ card' = e.card
        /\ sd' = [s EXCEPT !.tr = IF @ \in {30, 33} THEN 35 ELSE 5,
                           !.got = @ \o Moved(copied) \o Moved(e.win), !.win = <<>>, !.idx = 1]
  BY <1>3, <1>4 DEF ReadData
<1>6. /\ card' \in CardRecord /\ SameCard(card', card)
      /\ e.win \in Seq(ByteType) /\ Len(e.win) = BlockBytes - n /\ Len(card'.out) = 2
      /\ \A k \in 1 .. BlockBytes - n : e.win[k] = card.out[k]
      /\ \A k \in 1 .. 2 : card'.out[k] = card.out[BlockBytes - n + k]
  <2> DEFINE r == BlockBytes - n
  <2>1. r \in Nat /\ Len(card.out) = r + 2
    BY <1>2
  <2>3. e \in Clock(card, r)
    BY <1>5
  <2> HIDE DEF r
  <2>2. /\ e.card \in CardRecord /\ SameCard(e.card, card)
        /\ e.win \in Seq(ByteType) /\ Len(e.win) = r /\ Len(e.card.out) = 2
        /\ \A k \in 1 .. r : e.win[k] = card.out[k]
        /\ \A k \in 1 .. 2 : e.card.out[k] = card.out[r + k]
    BY <2>1, <2>3, ~card.busy, card \in CardRecord, ClockRest, Zenon
  <2> QED BY <2>2, <1>5 DEF r
<1> DEFINE first == Moved(copied)
           second == Moved(e.win)
           block == first \o second
           tr == IF s.tr \in {30, 33} THEN 35 ELSE 5
           got == s.got \o block
<1>7. first \in Seq(MovedByte) /\ Len(first) = n /\ second \in Seq(MovedByte)
      /\ Len(second) = BlockBytes - n
  BY <1>4, <1>6, MovedIs
<1>8. \A k \in 1 .. n : first[k] = [of |-> content, at |-> k]
  <2> TAKE k \in 1 .. n
  <2>1. copied[k] = [class |-> "data", of |-> content, at |-> k]
    BY <1>2, <1>4
  <2>2. first[k] = [of |-> copied[k].of, at |-> copied[k].at]
    BY <1>4, MovedIs
  <2> QED BY <2>1, <2>2
<1>9. \A k \in 1 .. BlockBytes - n : second[k] = [of |-> content, at |-> n + k]
  <2> TAKE k \in 1 .. BlockBytes - n
  <2>1. e.win[k] = [class |-> "data", of |-> content, at |-> n + k]
    BY <1>2, <1>6
  <2>2. second[k] = [of |-> e.win[k].of, at |-> e.win[k].at]
    BY <1>6, MovedIs
  <2> QED BY <2>1, <2>2
<1> HIDE DEF first, second
<1>10. block \in Seq(MovedByte) /\ Joined(block, first, second)
  BY <1>7, Concat
<1>11. (s.got \o first) \o second = got
  <2>1. s.got \in Seq(MovedByte)
    BY SdFields
  <2>2. first \in Seq(MovedByte) /\ second \in Seq(MovedByte)
    BY <1>7
  <2> DEFINE before == s.got
  <2> HIDE DEF before
  <2>4. before \in Seq(MovedByte)
    BY <2>1 DEF before
  <2>3. (before \o first) \o second = before \o (first \o second)
    BY ONLY <2>4, <2>2, Together
  <2> QED BY <2>3 DEF before
<1> HIDE DEF block
<1>12. Len(block) = BlockBytes
  BY <1>2, <1>7, <1>10 DEF Joined
<1>13. ASSUME NEW k \in 1 .. BlockBytes PROVE block[k] = [of |-> content, at |-> k]
  <2>1. CASE k <= n
    BY <2>1, <1>2, <1>7, <1>8, <1>10 DEF Joined
  <2>2. CASE k > n
    <3>1. k - n \in 1 .. BlockBytes - n /\ n + (k - n) = k
      <4>1. n \in Nat /\ n < BlockBytes
        BY <1>2
      <4> QED BY ONLY <4>1, <2>2, Sizes, k \in 1 .. BlockBytes
    <3>2. block[n + (k - n)] = second[k - n]
      BY <3>1, <1>7, <1>10 DEF Joined
    <3> QED BY <3>1, <3>2, <1>9
  <2> QED BY <2>1, <2>2, <1>2
<1>14. s.cur.start \in Nat /\ s.cur.count \in Nat /\ blocks \in Nat /\ blocks + 1 \in 1 .. s.cur.count
       /\ s.cur.start + blocks = BlockOf(s)
  <2>1. s.cur \in Requests
    BY DEF ReadTransfer, InTransfer
  <2>2. s.cur.start \in Nat /\ s.cur.count \in Nat
    BY <2>1, RequestFits
  <2> QED BY <2>2, SdFields, SMTT(30) DEF BlockOf
<1>15. Got(s, card, blocks)
  BY DEF ReadTransfer
<1>16. sd' = [s EXCEPT !.tr = tr, !.got = got, !.win = <<>>, !.idx = 1]
  BY <1>5, <1>11 DEF first, second
<1>17. tr \in {5, 35} /\ tr \in TrStates
  BY DEF TrStates
<1> HIDE DEF got, tr, blocks
<1>18. got \in Seq(MovedByte)
  BY <1>10, SdFields, Concat DEF got
<1>19. sd' \in SdRecord
  <2>1. <<>> \in Seq(ByteType) /\ 1 \in Nat \ {0}
    OBVIOUS
  <2> QED BY <2>1, <1>16, <1>17, <1>18 DEF SdRecord
<1>20. /\ sd'.tr = tr /\ sd'.got = got /\ sd'.win = <<>> /\ sd'.idx = 1 /\ sd'.left = s.left
       /\ sd'.tries = s.tries /\ sd'.acked = s.acked
  BY <1>16 DEF SdRecord
<1>21. /\ sd'.init = s.init /\ sd'.inited = s.inited /\ sd'.completed = s.completed /\ sd'.error = s.error
       /\ sd'.cur = s.cur /\ sd'.block = s.block
  BY <1>16 DEF SdRecord
<1>22. card'.disk = card.disk /\ card'.power = card.power /\ card'.mode = card.mode
       /\ card'.busy = card.busy /\ card'.addr = card.addr
  BY <1>6 DEF SameCard
<1>23. Got(sd', card', blocks + 1) /\ IsPrefix(s.got, sd'.got)
  <2>1. \A k \in 1 .. BlockBytes : block[k] = [of |-> card.disk[s.cur.start + blocks], at |-> k]
    BY <1>13, <1>14 DEF content
  <2>2. sd'.got = s.got \o block
    BY <1>20 DEF got
  <2>3. blocks \in Nat /\ block \in Seq(MovedByte) /\ sd'.cur = s.cur /\ card'.disk = card.disk
    BY <1>10, <1>14, <1>21, <1>22
  <2> HIDE DEF blocks, content, got
  <2> QED BY ONLY <2>1, <2>2, <2>3, <1>12, <1>15, s \in SdRecord, card \in CardRecord, GotMore
<1>24. /\ s.inited /\ s.init = 50 /\ card.power = "ready" /\ ~s.completed /\ s.tries <= MaxUnacked
       /\ s.cur \in Requests /\ s.block = s.cur.start /\ ((s.cur.count > 1) <=> (s.tr >= 20))
       /\ ~s.cur.write /\ s.acked
  BY DEF ReadTransfer, InTransfer
<1>25. InTransfer(sd', card')
  <2>1. (tr >= 20) <=> (s.tr >= 20)
    BY DEF tr
  <2>2. (sd'.cur.count > 1) <=> (sd'.tr >= 20)
    BY <2>1, <1>20, <1>21, <1>24
  <2>3. /\ sd'.inited /\ sd'.init = 50 /\ card'.power = "ready" /\ ~sd'.completed
        /\ sd'.tries <= MaxUnacked
    BY <1>20, <1>21, <1>22, <1>24
  <2>4. sd'.cur \in Requests /\ sd'.block = sd'.cur.start
    BY <1>21, <1>24
  <2> QED BY <2>2, <2>3, <2>4 DEF InTransfer
<1>26. blocks + 1 = sd'.cur.count - sd'.left + 1 /\ blocks + 1 \in 0 .. sd'.cur.count
       /\ sd'.left \in 1 .. sd'.cur.count /\ BlockOf(sd') = BlockOf(s)
  BY <1>14, <1>20, <1>21 DEF blocks, BlockOf
<1>27. ReadTransfer(sd', card', sd'.cur.count - sd'.left + 1)
  BY <1>20, <1>21, <1>23, <1>24, <1>25, <1>26 DEF ReadTransfer
<1>28. /\ ~card'.busy
       /\ tr = 5 => card'.mode = "listen"
       /\ tr = 35 => card'.mode = "readN" /\ card'.addr = BlockOf(s) + 1
  BY <1>22 DEF Kind, tr
<1>29. card'.out[1].class = "ff" /\ card'.out[2].class = "ff"
  <2>1. 1 \in 1 .. 2 /\ 2 \in 1 .. 2
    OBVIOUS
  <2>2. \A k \in 1 .. 2 : card'.out[k].class = "ff"
    BY <1>2, <1>6, Zenon
  <2> QED BY <2>1, <2>2, Zenon
<1>30. ReadHas(sd', card')
  BY <1>6, <1>17, <1>20, <1>26, <1>27, <1>28, <1>29 DEF ReadHas
<1>31. IsPrefix(sd'.got, Card!BytesOf(s.cur, card.disk))
  <2>1. sd'.cur \in Requests
    BY <1>21, <1>24
  <2>2. IsPrefix(sd'.got, Card!BytesOf(sd'.cur, card'.disk))
    BY <2>1, <1>6, <1>19, <1>23, <1>26, GotPrefix
  <2> QED BY <2>2, <1>21, <1>22
<1>32. Reads(s)
  BY <1>20, <1>21, <1>22, <1>23, <1>24, <1>31 DEF Reads, Goes
<1> QED BY <1>6, <1>19, <1>30, <1>32 DEF Inv, States

\* A transfer goes on while its members are kept.
LEMMA TransferSame ==
  ASSUME NEW s, NEW t, NEW c, NEW d, InTransfer(s, c), Kept(t, s), t.tries <= MaxUnacked,
         (t.tr >= 20) <=> (s.tr >= 20), d.power = c.power
  PROVE  InTransfer(t, d)
BY DEF InTransfer, Kept

\* What was read is kept as well.
LEMMA ReadSame ==
  ASSUME NEW s, NEW t, NEW c, NEW d, NEW n, ReadTransfer(s, c, n), Kept(t, s), t.tries = s.tries,
         t.acked = s.acked, (t.tr >= 20) <=> (s.tr >= 20), d.power = c.power, d.disk = c.disk
  PROVE  ReadTransfer(t, d, n)
<1>1. InTransfer(t, d)
  BY TransferSame DEF ReadTransfer, InTransfer
<1>2. Got(t, d, n)
  BY DEF ReadTransfer, Got, Kept
<1> QED BY <1>1, <1>2 DEF ReadTransfer, Kept

\* The search for the start of a block.
LEMMA FindStart ==
  ASSUME NEW s, s.win \in Seq(ByteType), s.idx \in Nat \ {0}
  PROVE  LET i == FindDataStart(s)
         IN  /\ i \in Nat \ {0}
             /\ Found(s, i) => /\ i >= s.idx /\ s.win[i].class = "start"
                               /\ \A k \in s.idx .. i - 1 : s.win[k].class # "start"
             /\ ~Found(s, i) => \A k \in s.idx .. Len(s.win) : s.win[k].class # "start"
<1> DEFINE classes == {"start"}
           i == Find(s, classes)
<1>1. \A x : x \in classes <=> x = "start"
  OBVIOUS
<1> HIDE DEF classes
<1>2. /\ i \in Nat \ {0}
      /\ Found(s, i) => /\ i >= s.idx /\ s.win[i].class \in classes
                        /\ \A k \in s.idx .. i - 1 : s.win[k].class \notin classes
      /\ ~Found(s, i) => \A k \in s.idx .. Len(s.win) : s.win[k].class \notin classes
  BY FindIs
<1> HIDE DEF i
<1>3. i = FindDataStart(s)
  BY DEF i, classes, FindDataStart
<1> QED BY <1>1, <1>2, <1>3

\* A step that keeps the members and the blocks is not seen.
LEMMA KeptKeeps ==
  ASSUME NEW s, Kept(sd', s), sd'.acked = s.acked, card'.disk = card.disk
  PROVE  Keeps(s)
BY DEF Kept, Keeps, Goes

\* States 3 and 33, and the ends of 2, 30 and 36: the block is looked for.
LEMMA ReadWaits ==
  ASSUME NEW s \in SdRecord, card \in CardRecord, s.tr \in {2, 3, 30, 33}, ReadLooks(s, card),
         s.idx <= Len(s.win) + 1, Len(s.win) - s.idx < BlockBytes, ReadWait(s)
  PROVE  Inv(sd', card') /\ Effect(s)
<1> DEFINE i == FindDataStart(s)
           n == s.cur.count - s.left
           tr == IF s.tr \in {30, 33} THEN 33 ELSE 3
           kind == Kind(s)
           b == BlockOf(s)
<1>1. /\ s.win \in Seq(ByteType) /\ Len(s.win) \in Nat /\ s.idx \in Nat \ {0}
      /\ card.out \in Seq(ByteType) /\ s.left \in 0 .. NBlocks
  BY SdFields, CardFields
<1>2. s.left \in 1 .. s.cur.count /\ ReadTransfer(s, card, n)
      /\ Coming(s.win, s.idx, card.out, card, kind, b)
  BY DEF ReadLooks
<1>3. s.inited /\ s.init = 50 /\ card.power = "ready" /\ s.tries <= MaxUnacked /\ s.acked
  BY <1>2 DEF ReadTransfer, InTransfer
<1>4. /\ i \in Nat \ {0}
      /\ Found(s, i) => /\ i >= s.idx /\ s.win[i].class = "start"
                        /\ \A k \in s.idx .. i - 1 : s.win[k].class # "start"
      /\ ~Found(s, i) => \A k \in s.idx .. Len(s.win) : s.win[k].class # "start"
  BY <1>1, FindStart
<1> HIDE DEF n, kind, b, i
<1>5. CASE Found(s, i)
  <2> DEFINE t == [s EXCEPT !.idx = i + 1]
  <2>1. i \in s.idx .. Len(s.win) /\ i \in 1 .. Len(s.win) /\ s.win[i].class = "start"
    BY <1>5, <1>1, <1>4 DEF Found
  <2>2. At(s.win, card.out, i).class = "start" /\ i \in s.idx .. Ahead(s.win, card.out)
    <3>1. Len(card.out) \in Nat
      BY CardFields
    <3>2. At(s.win, card.out, i) = s.win[i]
      BY <2>1 DEF At
    <3>3. i \in s.idx .. Len(s.win) + Len(card.out)
      <4>1. i \in Nat /\ s.idx \in Nat /\ Len(s.win) \in Nat
        BY <1>1, <1>4
      <4>2. \A x, y, z, u \in Nat : x \in y .. z => x \in y .. z + u
        OBVIOUS
      <4> QED BY <2>1, <3>1, <4>1, <4>2, Zenon
    <3> QED BY <2>1, <3>2, <3>3 DEF Ahead
  <2>3. Something(s.win, s.idx, card.out, card, kind, b)
    BY <1>2, <2>2 DEF Coming, Nothing, Without
  <2>4. PICK j \in s.idx .. Ahead(s.win, card.out) :
          /\ \A p \in s.idx .. j - 1 : At(s.win, card.out, p).class # "start"
          /\ BlockAt(s.win, card.out, j, card.disk[b])
    BY <2>3 DEF Something
  <2>5. j = i
    <3>1. CASE j < i
      <4>1. j \in s.idx .. i - 1 /\ j <= Len(s.win)
        BY <3>1, <2>1, <1>1
      <4>2. s.win[j].class = "start"
        BY <4>1, <2>4 DEF BlockAt, At
      <4> QED BY <4>1, <4>2, <1>4, <1>5
    <3>2. CASE i < j
      <4>1. i \in s.idx .. j - 1
        BY <3>2, <2>1, <2>4, <1>1
      <4> QED BY <4>1, <2>2, <2>4
    <3>3. j \in Int /\ i \in Int
      BY <1>4, <2>4
    <3> QED BY <3>1, <3>2, <3>3
  <2>6. t = Moves(s, s.tr, s.left, i + 1)
    BY DEF SdRecord, Moves
  <2>7. ReadData(t)
    BY <1>5 DEF ReadWait, i
  <2> DEFINE next == i + 1
  <2> HIDE DEF t
  <2>8. s.tr \in TrStates /\ s.left \in 0 .. NBlocks /\ next \in Nat \ {0}
    BY <1>4, SdFields
  <2>9. /\ t \in SdRecord /\ t.tr = s.tr /\ t.left = s.left /\ t.idx = i + 1
        /\ Kept(t, s) /\ t.tries = s.tries /\ t.acked = s.acked /\ t.win = s.win
    <3>1. t = Moves(s, s.tr, s.left, next)
      BY <2>6
    <3> HIDE DEF next
    <3>2. MovedOn(t, s, s.tr, s.left, next)
      BY <2>8, <3>1, MovesTo, Zenon
    <3> QED BY <3>2 DEF next, MovedOn
  <2>10. t.cur = s.cur /\ t.got = s.got /\ t.completed = s.completed /\ t.error = s.error
    BY <2>9 DEF Kept
  <2>11. BlockOf(t) = b /\ Kind(t) = kind /\ t.cur.count - t.left = n
    BY <2>9, <2>10 DEF BlockOf, Kind, b, kind, n
  <2>12. ReadTransfer(t, card, t.cur.count - t.left)
    BY <2>9, <2>11, <1>2, ReadSame
  <2>13. /\ ~card.busy
         /\ IF Kind(t) = "read1" THEN card.mode = "listen"
                                 ELSE card.mode = "readN" /\ card.addr = BlockOf(t) + 1
    <3>1. kind # "read1" => kind = "readN"
      BY DEF kind, Kind
    <3> QED BY <3>1, <2>3, <2>11 DEF Something
  <2>14. BlockAt(t.win, card.out, i, card.disk[BlockOf(t)])
    BY <2>4, <2>5, <2>9, <2>11
  <2>15. i \in 1 .. Len(t.win) /\ Len(t.win) - i < BlockBytes
    BY <2>1, <2>9, <1>1, SMTT(30)
  <2>16. t.left \in 1 .. t.cur.count /\ t.tr \in {2, 3, 30, 33}
    BY <2>9, <2>10, <1>2
  <2>17. Inv(sd', card') /\ Reads(t)
    BY <2>7, <2>9, <2>12, <2>13, <2>14, <2>15, <2>16, ReadMoves
  <2>18. Effect(t)
    BY <2>17 DEF Effect
  <2> QED BY <2>9, <2>10, <2>17, <2>18, EffectSame
<1>6. CASE ~Found(s, i) /\ s.tr \in {3, 33} /\ TimedOut(s)
  <2>1. FinishTransfer(s, "timeout")
    BY <1>6 DEF ReadWait, i
  <2> QED BY <2>1, <1>3, Finish
<1>7. CASE ~Found(s, i) /\ ~(s.tr \in {3, 33} /\ TimedOut(s))
  <2> DEFINE t == [s EXCEPT !.tr = tr]
  <2>1. SpiStartRead(t, PollWindow)
    BY <1>7 DEF ReadWait, i
  <2>2. tr \in {3, 33} /\ tr \in TrStates /\ ((tr >= 20) <=> (s.tr >= 20))
        /\ ((tr \in {2, 3}) <=> (s.tr \in {2, 3}))
    BY DEF TrStates
  <2> HIDE DEF tr
  <2>3. t = Moves(s, tr, s.left, s.idx)
    BY DEF SdRecord, Moves
  <2> HIDE DEF t
  <2>4. /\ t \in SdRecord /\ t.tr = tr /\ t.left = s.left
        /\ Kept(t, s) /\ t.tries = s.tries /\ t.acked = s.acked
    <3>1. tr \in TrStates
      BY <2>2
    <3>2. s.left \in 0 .. NBlocks /\ s.idx \in Nat \ {0}
      BY <1>1
    <3>3. MovedOn(t, s, tr, s.left, s.idx)
      BY <2>3, <3>1, <3>2, MovesTo, Zenon
    <3> QED BY <3>3 DEF MovedOn
  <2>5. PICK e \in Clock(card, PollWindow) : card' = e.card /\ sd' = [t EXCEPT !.win = e.win, !.idx = 1]
    BY <2>1 DEF SpiStartRead
  <2>6. /\ e.card \in CardRecord /\ e.win \in Seq(ByteType) /\ Len(e.win) = PollWindow
        /\ e.card.disk = card.disk /\ e.card.power = card.power
    BY ClockSends DEF Sends
  <2>7. /\ sd' \in SdRecord /\ sd'.win = e.win /\ sd'.idx = 1 /\ Kept(sd', t)
        /\ sd'.tr = tr /\ sd'.left = s.left /\ sd'.tries = s.tries /\ sd'.acked = s.acked
    <3>1. sd' = Polled(t, e.win)
      BY <2>5 DEF Polled
    <3> QED BY <3>1, <2>4, <2>6, PolledFields
  <2>8. Kept(sd', s)
    BY <2>4, <2>7 DEF Kept
  <2>9. BlockOf(sd') = b /\ Kind(sd') = kind /\ sd'.cur.count - sd'.left = n /\ sd'.cur = s.cur
    BY <2>2, <2>7, <2>8 DEF BlockOf, Kind, b, kind, n, Kept
  <2>10. ReadTransfer(sd', card', sd'.cur.count - sd'.left)
    <3>1. (sd'.tr >= 20) <=> (s.tr >= 20)
      BY <2>2, <2>7
    <3>2. card'.power = card.power /\ card'.disk = card.disk
      BY <2>5, <2>6
    <3> QED BY <3>1, <3>2, <2>7, <2>8, <2>9, <1>2, ReadSame
  <2>11. Coming(<<>>, 1, card.out, card, kind, b)
    BY <1>1, <1>2, <1>4, <1>7, ComingLater
  <2>12. Coming(e.win, 1, e.card.out, e.card, kind, b)
    <3>1. PollWindow \in Nat /\ PollWindow <= BlockBytes + 2 /\ 1 \in Nat \ {0} /\ 1 <= Len(card.out) + 1
      BY <1>1
    <3>2. kind \in {"read1", "readN"}
      BY DEF kind, Kind
    <3> QED BY <3>1, <3>2, <2>11, ClockComing, Zenon
  <2>13. ReadLook(sd', card')
    <3>1. sd'.left \in 1 .. sd'.cur.count
      BY <2>7, <2>9, <1>2
    <3>2. Coming(sd'.win, sd'.idx, card'.out, card', Kind(sd'), BlockOf(sd'))
      BY <2>5, <2>7, <2>9, <2>12
    <3> QED BY <3>1, <3>2, <2>2, <2>6, <2>7, <2>10 DEF ReadLook, ReadLooks
  <2>14. Keeps(s)
    BY <2>5, <2>6, <2>7, <2>8, KeptKeeps
  <2> QED BY <2>5, <2>6, <2>7, <2>13, <2>14 DEF Inv, States, Effect
<1> QED BY <1>5, <1>6, <1>7

\* A change of the index.
LEMMA IndexTo ==
  ASSUME NEW s \in SdRecord, NEW i \in Nat \ {0}, NEW t, t = [s EXCEPT !.idx = i]
  PROVE  MovedOn(t, s, s.tr, s.left, i)
<1>1. s.tr \in TrStates /\ s.left \in 0 .. NBlocks
  BY SdFields
<1>2. t = Moves(s, s.tr, s.left, i)
  BY DEF SdRecord, Moves
<1> QED BY <1>1, <1>2, MovesTo, Zenon

\* A change of the state.
LEMMA StateTo ==
  ASSUME NEW s \in SdRecord, NEW tr \in TrStates, NEW t, t = [s EXCEPT !.tr = tr]
  PROVE  MovedOn(t, s, tr, s.left, s.idx)
<1>1. s.idx \in Nat \ {0} /\ s.left \in 0 .. NBlocks
  BY SdFields
<1>2. t = Moves(s, tr, s.left, s.idx)
  BY DEF SdRecord, Moves
<1> QED BY <1>1, <1>2, MovesTo, Zenon

\* The next window is clocked.
Polls(s, n) ==
  /\ sd' \in SdRecord /\ card' \in CardRecord
  /\ Kept(sd', s) /\ sd'.tr = s.tr /\ sd'.left = s.left /\ sd'.tries = s.tries /\ sd'.acked = s.acked
  /\ sd'.idx = 1 /\ Len(sd'.win) = n
  /\ \E e \in Clock(card, n) : sd'.win = e.win /\ card' = e.card
  /\ Sends(sd'.win, card'.out, card, card')
\* That is what reading the next bytes does.
LEMMA PollsTo ==
  ASSUME NEW s \in SdRecord, card \in CardRecord, NEW n \in Nat, SpiStartRead(s, n)
  PROVE  Polls(s, n)
<1>1. PICK e \in Clock(card, n) : card' = e.card /\ sd' = [s EXCEPT !.win = e.win, !.idx = 1]
  BY DEF SpiStartRead
<1>2. e.card \in CardRecord /\ e.win \in Seq(ByteType) /\ Len(e.win) = n
      /\ Sends(e.win, e.card.out, card, e.card)
  BY ClockSends
<1>3. sd' = Polled(s, e.win)
  BY <1>1 DEF Polled
<1>4. /\ sd' \in SdRecord /\ sd'.win = e.win /\ sd'.idx = 1 /\ Kept(sd', s)
      /\ sd'.tr = s.tr /\ sd'.left = s.left /\ sd'.tries = s.tries /\ sd'.acked = s.acked
  BY <1>2, <1>3, PolledFields
<1> QED BY <1>1, <1>2, <1>4 DEF Polls

\* Where a search ends.
LEMMA FindPlace ==
  ASSUME NEW s, s.win \in Seq(ByteType), s.idx \in Nat \ {0}, NEW classes, Found(s, Find(s, classes))
  PROVE  Find(s, classes) \in 1 .. Len(s.win) /\ s.idx <= Find(s, classes)
<1>1. Find(s, classes) \in Nat \ {0} /\ Find(s, classes) >= s.idx /\ Len(s.win) \in Nat
  BY FindIs
<1> QED BY <1>1 DEF Found

\* States 2 and 30.
LEMMA ReadResponds ==
  ASSUME NEW s \in SdRecord, card \in CardRecord, ReadLook(s, card), s.tr \in {2, 30}, ReadResponse(s)
  PROVE  Inv(sd', card') /\ Effect(s)
<1> DEFINE i == FindResponseCode(s)
           n == s.cur.count - s.left
           next == i + 1
           t == [s EXCEPT !.idx = next]
<1>1. /\ s.win \in Seq(ByteType) /\ Len(s.win) = CmdWindow /\ s.idx = 1
      /\ card.out \in Seq(ByteType) /\ Len(card.out) \in Nat
  BY SdFields, CardFields DEF ReadLook
<1>2. /\ s.left \in 1 .. s.cur.count /\ ReadTransfer(s, card, n)
      /\ Coming(s.win, 1, card.out, card, Kind(s), BlockOf(s))
  BY <1>1 DEF ReadLook, ReadLooks
<1>3. s.inited /\ s.init = 50 /\ card.power = "ready" /\ s.tries <= MaxUnacked /\ s.acked
  BY <1>2 DEF ReadTransfer, InTransfer
<1>4. CASE GoodResponse(s)
  <2>1. i \in 1 .. Len(s.win) /\ s.win[i].class = "zero"
    <3>1. Found(s, i) /\ s.win[i].class = "zero"
      BY <1>4 DEF GoodResponse
    <3>2. s.idx \in Nat \ {0}
      BY <1>1
    <3> QED BY <3>1, <3>2, <1>1, FindPlace DEF FindResponseCode
  <2>2. ReadWait(t)
    BY <1>4 DEF ReadResponse
  <2> HIDE DEF i
  <2>3. next \in Nat \ {0}
    BY <2>1
  <2> HIDE DEF next
  <2>4. MovedOn(t, s, s.tr, s.left, next)
    BY <2>3, IndexTo
  <2> HIDE DEF t
  <2>5. /\ t \in SdRecord /\ t.tr = s.tr /\ t.left = s.left /\ t.idx = next
        /\ Kept(t, s) /\ t.tries = s.tries /\ t.acked = s.acked /\ t.win = s.win
    BY <2>4 DEF MovedOn
  <2>6. t.cur = s.cur /\ t.got = s.got /\ t.completed = s.completed /\ t.error = s.error
    BY <2>5 DEF Kept
  <2>7. BlockOf(t) = BlockOf(s) /\ Kind(t) = Kind(s) /\ t.cur.count - t.left = n
    BY <2>5, <2>6 DEF BlockOf, Kind
  <2>8. ReadTransfer(t, card, t.cur.count - t.left)
    BY <2>5, <2>7, <1>2, ReadSame
  <2>9. Coming(s.win, i + 1, card.out, card, Kind(s), BlockOf(s))
    <3>1. Ahead(s.win, card.out) \in Nat /\ i \in 1 .. Ahead(s.win, card.out)
      BY <2>1, <1>1 DEF Ahead
    <3>2. At(s.win, card.out, i).class = "zero"
      BY <2>1 DEF At
    <3> QED BY <3>1, <3>2, <1>2, ComingAfterResponse
  <2>10. ReadLooks(t, card)
    BY <2>5, <2>6, <2>7, <2>8, <2>9, <1>2 DEF ReadLooks, next
  <2>11. t.idx <= Len(t.win) + 1 /\ Len(t.win) - t.idx < BlockBytes
    BY <2>1, <2>5, <1>1 DEF next
  <2>12. Inv(sd', card') /\ Effect(t)
    BY <2>2, <2>5, <2>10, <2>11, ReadWaits
  <2> QED BY <2>5, <2>6, <2>12, EffectSame
<1>5. CASE ~GoodResponse(s)
  <2>1. FinishTransfer(s, "read")
    BY <1>5 DEF ReadResponse
  <2> QED BY <2>1, <1>3, Finish
<1> QED BY <1>4, <1>5

\* States 5 and 35: the CRC is clocked.
LEMMA ReadsCrc ==
  ASSUME NEW s \in SdRecord, card \in CardRecord, ReadHas(s, card), ReadCrc(s)
  PROVE  Inv(sd', card') /\ Keeps(s)
<1> DEFINE n == s.cur.count - s.left + 1
           tr == s.tr + 1
           size == IF s.tr = 5 THEN CrcWindow ELSE NextWindow
           t == [s EXCEPT !.tr = tr]
<1>1. /\ s.tr \in {5, 35} /\ s.left \in 1 .. s.cur.count /\ ReadTransfer(s, card, n) /\ ~card.busy
      /\ s.tr = 5 => card.mode = "listen"
      /\ s.tr = 35 => /\ card.mode = "readN" /\ card.addr = BlockOf(s) + 1
                      /\ Len(card.out) = 2 /\ card.out[1].class = "ff" /\ card.out[2].class = "ff"
  BY DEF ReadHas
<1>2. s.cur.count \in Nat /\ (s.tr = 5 => s.cur.count = 1)
  <2>1. s.cur \in Requests /\ (s.cur.count > 1 <=> s.tr >= 20)
    BY <1>1 DEF ReadTransfer, InTransfer
  <2> QED BY <2>1, RequestFits
<1>3. SpiStartRead(t, size)
  BY <1>1 DEF ReadCrc
<1>4. tr \in {6, 36} /\ tr \in TrStates /\ ((tr >= 20) <=> (s.tr >= 20)) /\ size \in Nat
  BY <1>1 DEF TrStates
<1>5. MovedOn(t, s, tr, s.left, s.idx)
  <2>1. tr \in TrStates
    BY <1>4
  <2> HIDE DEF tr
  <2> QED BY <2>1, StateTo
<1> HIDE DEF t, n
<1>6. Polls(t, size)
  <2>1. t \in SdRecord /\ size \in Nat
    BY <1>4, <1>5 DEF MovedOn
  <2> HIDE DEF size
  <2> QED BY <2>1, <1>3, PollsTo
<1>7. /\ sd' \in SdRecord /\ card' \in CardRecord /\ Kept(sd', t) /\ sd'.tr = t.tr /\ sd'.left = t.left
      /\ sd'.tries = t.tries /\ sd'.acked = t.acked /\ sd'.idx = 1 /\ Len(sd'.win) = size
      /\ Sends(sd'.win, card'.out, card, card')
  BY <1>6 DEF Polls
<1>8. /\ Kept(t, s) /\ t.tr = tr /\ t.left = s.left /\ t.tries = s.tries /\ t.acked = s.acked
  BY <1>5 DEF MovedOn
<1>9. Kept(sd', s) /\ sd'.tr = tr /\ sd'.left = s.left /\ sd'.tries = s.tries /\ sd'.acked = s.acked
      /\ sd'.cur = s.cur
  BY <1>7, <1>8 DEF Kept
<1>10. card'.disk = card.disk /\ card'.power = card.power
  BY <1>7 DEF Sends
<1>11. ReadTransfer(sd', card', n)
  BY <1>1, <1>4, <1>9, <1>10, ReadSame
<1>12. ~card'.busy
  BY <1>1, <1>7 DEF Sends
<1>13. Keeps(s)
  BY <1>9, <1>10, KeptKeeps
<1>14. CASE s.tr = 5
  <2>1. card'.mode = "listen"
    BY <1>14, <1>1, <1>7 DEF Sends
  <2>2. n = sd'.cur.count /\ sd'.tr = 6 /\ Len(sd'.win) \in Windows
    BY <1>14, <1>1, <1>2, <1>7, <1>9 DEF n, Windows
  <2>3. ReadEnds(sd', card')
    BY <2>1, <2>2, <1>7, <1>11, <1>12 DEF ReadEnds
  <2> QED BY <2>3, <1>7, <1>13 DEF Inv, States
<1>15. CASE s.tr = 35
  <2>1. PICK e \in Clock(card, NextWindow) : sd'.win = e.win /\ card' = e.card
    BY <1>6, <1>15 DEF Polls
  <2>2. card'.mode = "readN"
    BY <1>1, <1>15, <2>1, ClockReadN
  <2> DEFINE b == BlockOf(s) + 1
  <2>3. Nothing(<<>>, 3, card.out, card, "readN", b)
    <3>1. card.out \in Seq(ByteType) /\ Len(card.out) = 2
      BY <1>1, <1>15, CardFields
    <3>2. Without(<<>>, 3, card.out, {"start"})
      BY <3>1, NoWindow DEF Without
    <3> QED BY <3>2, <1>1, <1>15 DEF Nothing
  <2> HIDE DEF b
  <2>4. Coming(e.win, 3, e.card.out, e.card, "readN", b)
    <3>1. NextWindow \in Nat /\ NextWindow <= BlockBytes + 2 /\ 3 \in Nat \ {0} /\ 3 <= Len(card.out) + 1
          /\ "readN" \in {"read1", "readN"}
      BY <1>1, <1>15
    <3>2. Coming(<<>>, 3, card.out, card, "readN", b)
      BY <2>3 DEF Coming
    <3> QED BY <3>1, <3>2, ClockComing, Zenon
  <2>5. BlockOf(sd') + 1 = b
    BY <1>9 DEF b, BlockOf
  <2>6. sd'.tr = 36 /\ Len(sd'.win) = NextWindow
    BY <1>7, <1>9, <1>15
  <2>7. ReadTransfer(sd', card', sd'.cur.count - sd'.left + 1) /\ sd'.left \in 1 .. sd'.cur.count
    BY <1>1, <1>9, <1>11 DEF n
  <2>8. Coming(sd'.win, 3, card'.out, card', "readN", BlockOf(sd') + 1)
    BY <2>1, <2>4, <2>5
  <2>9. ReadMore(sd', card')
    BY <2>2, <2>6, <2>7, <2>8, <1>7, <1>12 DEF ReadMore
  <2> QED BY <2>9, <1>7, <1>13 DEF Inv, States
<1> QED BY <1>1, <1>14, <1>15

\* State 36: the next block is looked for, or the sending is stopped.
LEMMA ReadsNext ==
  ASSUME NEW s \in SdRecord, card \in CardRecord, ReadMore(s, card), ReadNext(s)
  PROVE  Inv(sd', card') /\ Effect(s)
<1> DEFINE n == s.cur.count - s.left + 1
           b == BlockOf(s) + 1
<1>1. /\ s.tr = 36 /\ s.idx = 1 /\ Len(s.win) = NextWindow /\ card.mode = "readN" /\ ~card.busy
      /\ s.left \in 1 .. s.cur.count /\ ReadTransfer(s, card, n)
      /\ Coming(s.win, 3, card.out, card, "readN", b)
  BY DEF ReadMore
<1>2. s.cur.count \in Nat /\ s.cur.count <= NBlocks /\ s.cur.start \in Nat
  <2>1. s.cur \in Requests
    BY <1>1 DEF ReadTransfer, InTransfer
  <2> QED BY <2>1, RequestFits
<1> HIDE DEF n, b
<1>3. CASE s.left > 1
  <2> DEFINE left == s.left - 1
             t == [s EXCEPT !.left = @ - 1, !.idx = @ + 2, !.tr = 33]
  <2>1. ReadWait(t)
    BY <1>3 DEF ReadNext, NextBlock
  <2>2. t = Moves(s, 33, left, 3)
    <3> DEFINE idx == s.idx + 2
    <3>1. idx = 3
      BY <1>1
    <3> HIDE DEF idx
    <3>2. t = [s EXCEPT !.left = left, !.idx = idx, !.tr = 33]
      BY DEF idx
    <3> HIDE DEF left, t
    <3>3. t = Moves(s, 33, left, idx)
      BY <3>2 DEF SdRecord, Moves
    <3> QED BY <3>1, <3>3
  <2>3. left \in 0 .. NBlocks /\ left \in 1 .. s.cur.count
    BY <1>1, <1>2, <1>3
  <2>4. n = s.cur.count - left /\ b = s.cur.start + (s.cur.count - left)
    <3>1. s.left \in Nat
      BY <1>1, <1>2
    <3> QED BY <3>1, <1>2 DEF n, b, BlockOf
  <2> HIDE DEF left, t
  <2>5. MovedOn(t, s, 33, left, 3)
    <3>1. 33 \in TrStates /\ 3 \in Nat \ {0} /\ left \in 0 .. NBlocks
      BY <2>3 DEF TrStates
    <3> QED BY <2>2, <3>1, MovesTo, Zenon
  <2>6. /\ t \in SdRecord /\ t.tr = 33 /\ t.left = left /\ t.idx = 3
        /\ Kept(t, s) /\ t.tries = s.tries /\ t.acked = s.acked /\ t.win = s.win
    BY <2>5 DEF MovedOn
  <2>7. t.cur = s.cur /\ t.got = s.got /\ t.completed = s.completed /\ t.error = s.error
    BY <2>6 DEF Kept
  <2>8. ReadTransfer(t, card, t.cur.count - t.left)
    <3>1. (t.tr >= 20) <=> (s.tr >= 20)
      BY <1>1, <2>6
    <3>2. ReadTransfer(t, card, n)
      BY <3>1, <2>6, <1>1, ReadSame
    <3> QED BY <3>2, <2>4, <2>6, <2>7
  <2>9. Kind(t) = "readN" /\ BlockOf(t) = b
    BY <2>4, <2>6, <2>7 DEF Kind, BlockOf
  <2>10. ReadLooks(t, card)
    BY <1>1, <2>3, <2>6, <2>7, <2>8, <2>9 DEF ReadLooks
  <2>11. t.idx <= Len(t.win) + 1 /\ Len(t.win) - t.idx < BlockBytes /\ t.tr \in {2, 3, 30, 33}
    BY <1>1, <2>6
  <2>12. Inv(sd', card') /\ Effect(t)
    BY <2>1, <2>6, <2>10, <2>11, ReadWaits
  <2> QED BY <2>6, <2>7, <2>12, EffectSame
<1>4. CASE ~(s.left > 1)
  <2> DEFINE t == [s EXCEPT !.left = 0, !.tr = 37]
  <2>1. CmdSend(t, 12, StopWindow)
    BY <1>4 DEF ReadNext
  <2>2. t = Moves(s, 37, 0, s.idx)
    BY DEF SdRecord, Moves
  <2>3. s.left = 1 /\ n = s.cur.count
    BY <1>1, <1>2, <1>4 DEF n
  <2> HIDE DEF t
  <2>4. MovedOn(t, s, 37, 0, s.idx)
    <3>1. 37 \in TrStates /\ 0 \in 0 .. NBlocks /\ s.idx \in Nat \ {0}
      BY <1>1 DEF TrStates
    <3> QED BY <2>2, <3>1, MovesTo, Zenon
  <2>5. t \in SdRecord /\ t.tr = 37 /\ Kept(t, s) /\ t.tries = s.tries /\ t.acked = s.acked
    BY <2>4 DEF MovedOn
  <2>6. PICK c \in Heard(card, 12, t.block) : \E e \in Clock(c, StopWindow) :
          /\ card' = e.card
          /\ sd' = [t EXCEPT !.win = e.win, !.idx = 1, !.expired = FALSE]
    BY <2>1 DEF CmdSend
  <2>7. PICK e \in Clock(c, StopWindow) :
          /\ card' = e.card
          /\ sd' = [t EXCEPT !.win = e.win, !.idx = 1, !.expired = FALSE]
    BY <2>6
  <2>8. /\ c \in CardRecord /\ c.mode = "listen" /\ ~c.busy
        /\ c.disk = card.disk /\ c.power = card.power
    <3> DEFINE cmd == 12
    <3>1. cmd = 12 /\ c \in Heard(card, cmd, t.block)
      BY <2>6
    <3> HIDE DEF cmd
    <3> QED BY <1>1, <3>1, HeardStop
  <2>9. /\ e.card \in CardRecord /\ e.win \in Seq(ByteType) /\ Len(e.win) = StopWindow
        /\ Sends(e.win, e.card.out, c, e.card)
    BY <2>8, ClockSends
  <2>10. card'.mode = "listen" /\ ~card'.busy /\ card'.disk = card.disk /\ card'.power = card.power
    BY <2>7, <2>8, <2>9 DEF Sends
  <2>11. /\ sd' \in SdRecord /\ sd'.win = e.win /\ sd'.idx = 1 /\ Kept(sd', t)
         /\ sd'.tr = 37 /\ sd'.tries = s.tries /\ sd'.acked = s.acked
    <3>1. sd' = Commanded(t, e.win)
      BY <2>7 DEF Commanded
    <3> QED BY <3>1, <2>5, <2>9, CommandedFields
  <2>12. Kept(sd', s) /\ sd'.cur = s.cur
    BY <2>5, <2>11 DEF Kept
  <2>13. ReadTransfer(sd', card', sd'.cur.count)
    <3>1. (sd'.tr >= 20) <=> (s.tr >= 20)
      BY <1>1, <2>11
    <3>2. ReadTransfer(sd', card', n)
      BY <3>1, <1>1, <2>10, <2>11, <2>12, ReadSame
    <3> QED BY <3>2, <2>3, <2>12
  <2>14. Len(sd'.win) \in Windows
    BY <2>9, <2>11 DEF Windows
  <2>15. ReadEnds(sd', card')
    BY <2>10, <2>11, <2>13, <2>14 DEF ReadEnds
  <2>16. Keeps(s)
    BY <2>10, <2>11, <2>12, KeptKeeps
  <2> QED BY <2>7, <2>9, <2>11, <2>15, <2>16 DEF Inv, States, Effect
<1> QED BY <1>3, <1>4

\* States 6 and 37: the transfer ends.
LEMMA ReadsEnd ==
  ASSUME NEW s \in SdRecord, card \in CardRecord, ReadEnds(s, card),
         FinishTransfer(s, "ok") \/ FinishTransfer(s, "read")
  PROVE  Inv(sd', card') /\ Effect(s)
<1>1. ReadTransfer(s, card, s.cur.count) /\ card.mode = "listen" /\ ~card.busy
  BY DEF ReadEnds
<1>2. /\ s.inited /\ s.init = 50 /\ card.power = "ready" /\ s.tries <= MaxUnacked /\ s.acked
      /\ s.cur \in Requests /\ ~s.cur.write /\ Got(s, card, s.cur.count)
  BY <1>1 DEF ReadTransfer, InTransfer
<1>3. s.got = Card!BytesOf(s.cur, card.disk)
  <2>1. s.cur.count \in 0 .. s.cur.count
    BY <1>2, RequestFits
  <2> QED BY <2>1, <1>2, GotPrefix
<1>4. Done(s)
  BY <1>1, <1>2, <1>3 DEF Done
<1> QED BY <1>2, <1>4, Finish

\* What comes behind a window is still to be trusted.
LEMMA ShiftHonest ==
  ASSUME NEW w \in Seq(ByteType), NEW o \in Seq(ByteType), NEW i \in Nat \ {0}, i <= Len(w) + 1,
         NEW c, Honest(w, i, o, c)
  PROVE  Honest(<<>>, 1, o, c)
<1>1. Len(w) \in Nat /\ Len(o) \in Nat
  OBVIOUS
<1>2. Ahead(<<>>, o) = Len(o) /\ \A p \in 1 .. Len(o) : At(<<>>, o, p) = o[p]
  BY NoWindow
<1>3. ASSUME NEW p \in 1 .. Len(o), o[p].class # "zero" PROVE ~c.busy
  <2> DEFINE q == Len(w) + p
  <2>1. q \in i .. Len(w) + Len(o) /\ ~(q <= Len(w)) /\ q - Len(w) = p
    BY <1>1
  <2> HIDE DEF q
  <2>2. At(w, o, q) = o[p]
    BY <2>1 DEF At
  <2>3. q \in i .. Ahead(w, o)
    BY <2>1 DEF Ahead
  <2> QED BY <2>2, <2>3, <1>3 DEF Honest
<1> QED BY <1>2, <1>3 DEF Honest

\* Clocking keeps what a byte shows that is not zero.
LEMMA ClockHonest ==
  ASSUME NEW c \in CardRecord, NEW d, NEW w, Sends(w, d.out, c, d), Ahead(w, d.out) \in Nat,
         NEW i \in Nat \ {0}, Honest(<<>>, i, c.out, c)
  PROVE  Honest(w, i, d.out, d)
<1>1. c.out \in Seq(ByteType) /\ Len(c.out) \in Nat
  BY CardFields
<1>2. Ahead(<<>>, c.out) = Len(c.out) /\ \A p \in 1 .. Len(c.out) : At(<<>>, c.out, p) = c.out[p]
  BY <1>1, NoWindow
<1> SUFFICES ASSUME NEW p \in i .. Ahead(w, d.out), At(w, d.out, p).class # "zero" PROVE ~d.busy
  BY DEF Honest
<1>3. CASE p <= Len(c.out)
  <2>1. p \in i .. Len(c.out) /\ p \in 1 .. Len(c.out)
    BY <1>1, <1>3
  <2>2. At(w, d.out, p) = c.out[p]
    BY <2>1 DEF Sends
  <2>3. ~c.busy
    BY <2>1, <2>2, <1>2 DEF Honest
  <2> QED BY <2>3 DEF Sends
<1>4. CASE p > Len(c.out)
  <2>1. p \in Len(c.out) + 1 .. Ahead(w, d.out)
    BY <1>1, <1>4
  <2> QED BY <2>1 DEF Sends
<1>5. p \in Nat
  OBVIOUS
<1> QED BY <1>1, <1>3, <1>4, <1>5

\* Clocking shows no acknowledge that the card has not sent.
LEMMA ClockTaken ==
  ASSUME NEW c \in CardRecord, NEW d, NEW w, Sends(w, d.out, c, d), Ahead(w, d.out) \in Nat,
         HonestAfter(<<>>, c.out, c)
  PROVE  /\ Taken(w, d.out) => Taken(<<>>, c.out)
         /\ HonestAfter(w, d.out, d)
<1>1. c.out \in Seq(ByteType) /\ Len(c.out) \in Nat
  BY CardFields
<1>2. Ahead(<<>>, c.out) = Len(c.out) /\ \A p \in 1 .. Len(c.out) : At(<<>>, c.out, p) = c.out[p]
  BY <1>1, NoWindow
<1>3. ASSUME NEW p \in 1 .. Ahead(w, d.out), At(w, d.out, p).class \in Accepts
      PROVE  p \in 1 .. Len(c.out) /\ At(<<>>, c.out, p).class \in Accepts
  <2>1. p <= Len(c.out)
    <3> SUFFICES ASSUME p \in Len(c.out) + 1 .. Ahead(w, d.out) PROVE FALSE
      BY <1>1
    <3> QED BY <1>3 DEF Sends, Accepts
  <2>2. p \in 1 .. Len(c.out)
    BY <2>1, <1>1
  <2>3. At(w, d.out, p) = c.out[p]
    BY <2>2 DEF Sends
  <2> QED BY <2>2, <2>3, <1>2, <1>3
<1>4. Taken(w, d.out) => Taken(<<>>, c.out)
  BY <1>2, <1>3 DEF Taken
<1>5. ASSUME NEW p \in 1 .. Ahead(w, d.out), At(w, d.out, p).class \in Accepts
      PROVE  Honest(w, p + 1, d.out, d)
  <2>1. p \in 1 .. Ahead(<<>>, c.out) /\ At(<<>>, c.out, p).class \in Accepts
    BY <1>2, <1>3, <1>5
  <2>2. Honest(<<>>, p + 1, c.out, c)
    BY <2>1 DEF HonestAfter
  <2> DEFINE i == p + 1
  <2>3. i \in Nat \ {0}
    OBVIOUS
  <2> HIDE DEF i
  <2>4. Honest(<<>>, i, c.out, c)
    BY <2>2 DEF i
  <2>5. Honest(w, i, d.out, d)
    BY <2>3, <2>4, ClockHonest
  <2> QED BY <2>5 DEF i
<1> QED BY <1>4, <1>5 DEF HonestAfter

\* Nothing comes after the answer to a block.
LEMMA AnswerHonest ==
  ASSUME NEW o \in Seq(ByteType), NEW c,
         o = <<>> \/ \E class \in Class : Answers(o, class)
  PROVE  HonestAfter(<<>>, o, c)
<1>1. Ahead(<<>>, o) = Len(o) /\ Len(o) \in Nat /\ \A p \in 1 .. Len(o) : At(<<>>, o, p) = o[p]
  BY NoWindow
<1>2. ASSUME NEW p \in 1 .. Len(o), o[p].class \in Accepts PROVE p = Len(o)
  <2>1. o # <<>>
    BY <1>1
  <2>2. PICK class \in Class : Answers(o, class)
    BY <2>1
  <2>3. ~(p \in 1 .. Len(o) - 1)
    BY <2>2, <1>2 DEF Answers, Accepts
  <2> QED BY <2>3, <1>1
<1>3. ASSUME NEW p \in 1 .. Len(o), o[p].class \in Accepts PROVE Honest(<<>>, p + 1, o, c)
  <2>1. p + 1 > Len(o)
    BY <1>1, <1>2, <1>3
  <2> QED BY <2>1, <1>1 DEF Honest
<1> QED BY <1>1, <1>3 DEF HonestAfter

\* Which answers to a block are acknowledges.
LEMMA AnswerTaken ==
  ASSUME NEW o \in Seq(ByteType), Taken(<<>>, o)
  PROVE  o # <<>> /\ ~Answers(o, "reject")
<1>1. Ahead(<<>>, o) = Len(o) /\ Len(o) \in Nat /\ \A p \in 1 .. Len(o) : At(<<>>, o, p) = o[p]
  BY NoWindow
<1>2. PICK p \in 1 .. Len(o) : o[p].class \in Accepts
  BY <1>1 DEF Taken
<1>3. o # <<>>
  BY <1>1, <1>2
<1>4. ASSUME Answers(o, "reject") PROVE FALSE
  <2>1. p = Len(o) \/ p \in 1 .. Len(o) - 1
    BY <1>1
  <2> QED BY <2>1, <1>2, <1>4 DEF Answers, Accepts
<1> QED BY <1>3, <1>4

\* The mode the card takes the next block in, and the state that follows.
Sending(mode, next) == (mode = "write1" /\ next = 13) \/ (mode = "writeN" /\ next = 21)

\* The card may take the next block, after n blocks.
Expects(s, c, mode, n) ==
  /\ IF mode = "write1" THEN c.mode \in {"listen", "lost", "write1"}
                        ELSE c.mode \in {"listen", "lost", "writeN", "refuse"}
  /\ c.mode = mode => c.addr \in s.cur.start .. s.cur.start + n
  /\ s.acked /\ c.mode = mode => c.addr = s.cur.start + n /\ StoredUpTo(s, c, n)
  /\ mode = "write1" => s.acked /\ s.left = 1 /\ (c.mode = mode => ~c.busy)

\* The next block is sent.
LEMMA SendsBlock ==
  ASSUME NEW s \in SdRecord, card \in CardRecord, NEW mode, NEW next, Sending(mode, next),
         WriteTransfer(s, card), s.left \in 1 .. s.cur.count,
         Expects(s, card, mode, s.cur.count - s.left), (next >= 20) <=> (s.tr >= 20),
         SendBlock(s, mode, next)
  PROVE  Inv(sd', card') /\ Writes(s)
<1> DEFINE start == s.cur.start
           n == s.cur.count - s.left
           content == Card!Written(s.cur.count - s.left + 1)
           addr == card.addr
<1>1. /\ s.cur \in Requests /\ s.cur.write /\ s.got = <<>> /\ s.inited /\ s.init = 50 /\ ~s.completed
      /\ s.tries <= MaxUnacked /\ s.block = s.cur.start /\ card.power = "ready"
      /\ ((s.cur.count > 1) <=> (s.tr >= 20))
  BY DEF WriteTransfer, InTransfer
<1>2. /\ start \in Nat /\ n \in Nat /\ n < s.cur.count /\ s.cur.count \in Nat
      /\ start + s.cur.count <= NBlocks /\ start + n < NBlocks /\ n + 1 <= s.cur.count
      /\ n + 1 <= NBlocks /\ s.left \in Nat /\ s.cur.start \in Nat
  <2>1. start \in Nat /\ s.cur.count \in Nat /\ start + s.cur.count <= NBlocks
    BY <1>1, RequestFits
  <2>2. s.left \in Nat
    BY SdFields
  <2> QED BY <2>1, <2>2
<1>3. content \in Card!Content /\ content = Card!Written(n + 1)
  BY <1>2 DEF Card!Content, Card!Written
<1>4. mode \in {"write1", "writeN"} /\ next \in {13, 21} /\ (mode = "write1" <=> next = 13)
  BY DEF Sending
<1>5. card.mode = mode => addr \in start .. start + n /\ addr \in Card!Block
  BY <1>2 DEF Expects, Card!Block
<1>6. card' \in Gets(card, mode, content) /\ sd' = [s EXCEPT !.tr = next, !.win = <<>>, !.idx = 1]
  BY DEF SendBlock
<1>7. sd' \in SdRecord
  <2>1. next \in TrStates /\ <<>> \in Seq(ByteType) /\ 1 \in Nat \ {0}
    BY <1>4 DEF TrStates
  <2> QED BY <2>1, <1>6 DEF SdRecord
<1>8. /\ sd'.tr = next /\ sd'.win = <<>> /\ sd'.idx = 1 /\ sd'.left = s.left
      /\ sd'.tries = s.tries /\ sd'.acked = s.acked
  BY <1>6 DEF SdRecord
<1>9. Kept(sd', s)
  BY <1>6 DEF SdRecord, Kept
<1>10. sd'.cur = s.cur /\ sd'.got = s.got /\ sd'.completed = s.completed /\ sd'.error = s.error
  BY <1>9 DEF Kept
<1> HIDE DEF start, n, content, addr
<1> DEFINE Misses == Unheard(card, card', mode)
           Takes == Taking(card, card', mode, content)
           Refuse == Refusing(card, card', mode)
<1>11. card' \in CardRecord /\ card'.power = card.power /\ (Misses \/ Takes \/ Refuse)
  <2>1. card.mode = mode => card.addr \in Card!Block
    BY <1>5 DEF addr
  <2> QED BY <2>1, <1>3, <1>4, <1>6, GetsCases
<1>12. card'.out \in Seq(ByteType)
  BY <1>11, CardFields
<1>13. HonestAfter(<<>>, card'.out, card')
  <2>1. card'.out = <<>> \/ \E class \in Class : Answers(card'.out, class)
    BY <1>11 DEF Class, Unheard, Taking, Refusing
  <2> QED BY <2>1, <1>12, AnswerHonest
<1>14. IF mode = "write1" THEN card'.mode \in {"listen", "lost"}
                          ELSE card'.mode \in {"listen", "lost", "writeN", "refuse"}
  BY <1>4, <1>11 DEF Expects, Unheard, Taking, Refusing
<1>15. card'.mode = "writeN" => card'.addr \in start .. start + (n + 1)
  <2>1. ASSUME card'.mode = "writeN" PROVE mode = "writeN" /\ card.mode = mode
               /\ (card'.addr = addr \/ card'.addr = addr + 1)
    BY <2>1, <1>4, <1>11 DEF Expects, Unheard, Taking, Refusing, addr
  <2>2. addr \in start .. start + n => addr \in start .. start + (n + 1)
                                       /\ addr + 1 \in start .. start + (n + 1)
    BY <1>2
  <2> QED BY <2>1, <2>2, <1>5
<1>16. Taken(<<>>, card'.out) => Takes
  BY <1>11, <1>12, AnswerTaken DEF Unheard, Refusing
<1>17. s.acked /\ Takes => addr = start + n /\ StoredUpTo(s, card, n)
  BY DEF Expects, Taking, addr, start, n
<1>18. s.acked /\ Takes => StoredUpTo(sd', card', n + 1) /\ card'.addr = start + (n + 1)
  <2> SUFFICES ASSUME s.acked, Takes PROVE StoredUpTo(sd', card', n + 1) /\ card'.addr = start + (n + 1)
    OBVIOUS
  <2>1. addr = start + n /\ addr \in Card!Block /\ StoredUpTo(s, card, n)
        /\ card'.disk = [card.disk EXCEPT ![addr] = content] /\ card'.addr = addr + 1
    BY <1>5, <1>17 DEF Taking, addr
  <2>2. card.disk \in [Card!Block -> Card!Content]
    BY CardFields
  <2>3. ASSUME NEW i \in 1 .. n + 1 PROVE card'.disk[start + i - 1] = Card!Written(i)
    <3>1. CASE i = n + 1
      <4>1. start + i - 1 = addr
        BY <3>1, <2>1, <1>2
      <4> QED BY <3>1, <4>1, <2>1, <2>2, <1>3
    <3>2. CASE i # n + 1
      <4>1. i \in 1 .. n /\ start + i - 1 # addr /\ start + i - 1 \in Card!Block
        BY <3>2, <2>1, <1>2 DEF Card!Block
      <4>2. card.disk[start + i - 1] = Card!Written(i)
        BY <4>1, <2>1 DEF StoredUpTo, start
      <4> QED BY <4>1, <4>2, <2>1, <2>2
    <3> QED BY <3>1, <3>2
  <2>4. sd'.cur.start = start
    BY <1>10 DEF start
  <2>5. card'.addr = start + (n + 1)
    BY <2>1, <1>2
  <2> QED BY <2>3, <2>4, <2>5 DEF StoredUpTo
<1>19. Writes(s)
  <2>1. ASSUME NEW b \in Card!Block, card'.disk[b] # card.disk[b]
        PROVE  b \in Card!BlocksOf(s.cur) /\ (s.acked => card'.disk[b] = Card!Written(b - s.cur.start + 1))
    <3>1. Takes
      BY <2>1, <1>11 DEF Unheard, Refusing
    <3>2. card.disk \in [Card!Block -> Card!Content]
      BY CardFields
    <3>3. card'.disk = [card.disk EXCEPT ![addr] = content]
      BY <3>1 DEF Taking, addr
    <3>4. b = addr /\ card'.disk[b] = content
      BY <2>1, <3>2, <3>3
    <3>5. addr \in start .. start + n
      BY <3>1, <1>5 DEF Taking
    <3>6. b \in Card!BlocksOf(s.cur)
      BY <3>4, <3>5, <1>2 DEF Card!BlocksOf, start
    <3>7. s.acked => b - s.cur.start + 1 = n + 1
      BY <3>1, <3>4, <1>2, <1>17 DEF start
    <3> QED BY <3>4, <3>6, <3>7, <1>3
  <2> QED BY <2>1, <1>1, <1>8, <1>10 DEF Writes, Goes
<1>20. WriteTransfer(sd', card')
  <2>1. InTransfer(sd', card')
    <3>1. (sd'.tr >= 20) <=> (s.tr >= 20)
      BY <1>8
    <3>2. sd'.tries <= MaxUnacked /\ card'.power = card.power /\ InTransfer(s, card)
      BY <1>1, <1>8, <1>11 DEF WriteTransfer
    <3> QED BY <3>1, <3>2, <1>9, TransferSame
  <2> QED BY <2>1, <1>1, <1>10 DEF WriteTransfer
<1>21. Sent(sd') = n + 1 /\ sd'.cur.start = start /\ sd'.left \in 1 .. sd'.cur.count
  BY <1>8, <1>10 DEF Sent, n, start
<1>22. CASE mode = "write1"
  <2>1. s.acked /\ s.left = 1
    BY <1>22 DEF Expects
  <2>2. n = 0
    <3>1. ~(s.cur.count > 1)
      BY <1>1, <1>4, <1>22
    <3> QED BY <3>1, <2>1, <1>2 DEF n
  <2>3. Taken(<<>>, card'.out) => card'.mode = "listen" /\ StoredUpTo(sd', card', 1)
    BY <2>1, <2>2, <1>16, <1>18, <1>22 DEF Taking
  <2>4. WriteOne(sd', card')
    BY <2>1, <2>3, <1>4, <1>8, <1>13, <1>14, <1>20, <1>22 DEF WriteOne
  <2> QED BY <2>4, <1>7, <1>11, <1>19 DEF Inv, States
<1>23. CASE mode = "writeN"
  <2>1. WriteN(sd', card')
    BY <1>14, <1>15, <1>20, <1>21, <1>23 DEF WriteN
  <2>2. s.acked /\ Taken(<<>>, card'.out) => AllSent(sd', card', Sent(sd'))
    BY <1>16, <1>18, <1>21, <1>23 DEF AllSent, Taking
  <2>3. WriteMany(sd', card')
    BY <2>1, <2>2, <1>4, <1>8, <1>13, <1>23 DEF WriteMany
  <2> QED BY <2>3, <1>7, <1>11, <1>19 DEF Inv, States
<1> QED BY <1>4, <1>22, <1>23

\* A command is sent, after which the card is c.
Commands(s, c, n) ==
  /\ sd' \in SdRecord /\ card' \in CardRecord
  /\ Kept(sd', s) /\ sd'.tr = s.tr /\ sd'.left = s.left /\ sd'.tries = s.tries /\ sd'.acked = s.acked
  /\ sd'.idx = 1 /\ Len(sd'.win) = n
  /\ Sends(sd'.win, card'.out, c, card')
\* That is what a command does, by one of the ways the card hears it.
LEMMA CommandsTo ==
  ASSUME NEW s \in SdRecord, NEW cmd, NEW n \in Nat, CmdSend(s, cmd, n),
         \A c \in Heard(card, cmd, s.block) : c \in CardRecord
  PROVE  \E c \in Heard(card, cmd, s.block) : Commands(s, c, n)
<1>1. PICK c \in Heard(card, cmd, s.block) : \E e \in Clock(c, n) :
        /\ card' = e.card
        /\ sd' = [s EXCEPT !.win = e.win, !.idx = 1, !.expired = FALSE]
  BY DEF CmdSend
<1>2. PICK e \in Clock(c, n) :
        /\ card' = e.card
        /\ sd' = [s EXCEPT !.win = e.win, !.idx = 1, !.expired = FALSE]
  BY <1>1
<1>3. e.card \in CardRecord /\ e.win \in Seq(ByteType) /\ Len(e.win) = n
      /\ Sends(e.win, e.card.out, c, e.card)
  BY ClockSends
<1>4. sd' = Commanded(s, e.win)
  BY <1>2 DEF Commanded
<1>5. /\ sd' \in SdRecord /\ sd'.win = e.win /\ sd'.idx = 1 /\ Kept(sd', s)
      /\ sd'.tr = s.tr /\ sd'.left = s.left /\ sd'.tries = s.tries /\ sd'.acked = s.acked
  BY <1>3, <1>4, CommandedFields
<1> QED BY <1>2, <1>3, <1>5 DEF Commands

\* A command to write is sent.
LEMMA WritesOpen ==
  ASSUME NEW s \in SdRecord, card \in CardRecord, Rest(s, card), s.inited, s.tr = 11, WriteStart(s)
  PROVE  Inv(sd', card') /\ Keeps(s)
<1> DEFINE tr == IF Several(s) THEN 20 ELSE 12
           cmd == IF Several(s) THEN 25 ELSE 24
           mode == IF Several(s) THEN "writeN" ELSE "write1"
           t == [s EXCEPT !.tr = tr]
<1>1. CmdSend(t, cmd, AnswerWindow)
  BY DEF WriteStart
<1>2. /\ s.cur \in Requests /\ s.cur.write /\ s.block = s.cur.start /\ s.left = s.cur.count
      /\ s.init = 50 /\ s.tries <= MaxUnacked /\ card.power = "ready"
      /\ card.mode \in {"listen", "lost"} /\ s.acked /\ s.got = <<>> /\ ~s.completed
  BY DEF Rest, Listens
<1>3. s.cur.count \in Nat /\ s.cur.count >= 1 /\ s.cur.start \in Nat /\ s.block \in Card!Block
  BY <1>2, RequestFits
<1>4. /\ tr \in {12, 20} /\ tr \in TrStates /\ mode \in {"write1", "writeN"}
      /\ Opening(cmd, mode)
      /\ (s.cur.count > 1) <=> (tr >= 20)
      /\ mode = IF tr = 12 THEN "write1" ELSE "writeN"
  <2>1. CASE Several(s)
    <3>1. s.cur.count > 1
      BY <2>1, <1>2, <1>3 DEF Several
    <3> QED BY <2>1, <3>1 DEF TrStates, Opening
  <2>2. CASE ~Several(s)
    <3>1. s.cur.count = 1
      BY <2>2, <1>2, <1>3 DEF Several
    <3> QED BY <2>2, <3>1 DEF TrStates, Opening
  <2> QED BY <2>1, <2>2
<1>5. tr \in TrStates
  BY <1>4
<1> HIDE DEF tr, cmd, mode
<1>6. MovedOn(t, s, tr, s.left, s.idx)
  BY <1>5, StateTo
<1> HIDE DEF t
<1>7. /\ t \in SdRecord /\ Kept(t, s) /\ t.tr = tr /\ t.left = s.left /\ t.tries = s.tries
      /\ t.acked = s.acked
  BY <1>6 DEF MovedOn
<1>8. \A c \in Heard(card, cmd, t.block) : Opened(card, c, mode, s.block)
  <2>1. t.block = s.block
    BY <1>7 DEF Kept
  <2> QED BY <2>1, <1>3, <1>4, HeardOpen
<1>9. PICK c \in Heard(card, cmd, t.block) : Commands(t, c, AnswerWindow)
  <2>1. \A c \in Heard(card, cmd, t.block) : c \in CardRecord
    BY <1>8 DEF Opened
  <2> DEFINE size == AnswerWindow
  <2>2. size \in Nat /\ CmdSend(t, cmd, size)
    BY <1>1
  <2> HIDE DEF size
  <2>3. \E c \in Heard(card, cmd, t.block) : Commands(t, c, size)
    BY <2>1, <2>2, <1>7, CommandsTo
  <2> QED BY <2>3 DEF size
<1>10. /\ c.disk = card.disk /\ c.power = card.power
       /\ \/ c.mode = card.mode /\ c.addr = card.addr
          \/ c.mode = mode /\ c.addr = s.block /\ ~c.busy
  BY <1>8, <1>9 DEF Opened
<1>11. /\ sd' \in SdRecord /\ card' \in CardRecord /\ Kept(sd', t) /\ sd'.tr = tr /\ sd'.left = s.left
       /\ sd'.tries = s.tries /\ sd'.acked = s.acked /\ sd'.idx = 1 /\ Len(sd'.win) = AnswerWindow
       /\ Sends(sd'.win, card'.out, c, card')
  BY <1>7, <1>9 DEF Commands
<1>12. Kept(sd', s)
  BY <1>7, <1>11 DEF Kept
<1>13. /\ sd'.init = s.init /\ sd'.inited = s.inited /\ sd'.completed = s.completed
       /\ sd'.cur = s.cur /\ sd'.block = s.block /\ sd'.got = s.got
  BY <1>12 DEF Kept
<1>14. c.mode \notin {"read1", "readN"}
  BY <1>2, <1>4, <1>10
<1>15. /\ card'.disk = card.disk /\ card'.power = "ready" /\ card'.mode = c.mode /\ card'.addr = c.addr
       /\ card'.busy => c.busy
  BY <1>2, <1>10, <1>11, <1>14 DEF Sends
<1>16. InTransfer(sd', card')
  <2>1. (sd'.cur.count > 1) <=> (sd'.tr >= 20)
    BY <1>4, <1>11, <1>13
  <2> QED BY <2>1, <1>2, <1>11, <1>13, <1>15 DEF InTransfer
<1>17. WriteTransfer(sd', card')
  BY <1>2, <1>13, <1>16 DEF WriteTransfer
<1>18. card'.mode \in {"listen", "lost", mode} /\ (card'.mode = mode => card'.addr = sd'.block /\ ~card'.busy)
  BY <1>2, <1>4, <1>10, <1>13, <1>15
<1>19. sd'.tr \in {12, 20} /\ mode = IF sd'.tr = 12 THEN "write1" ELSE "writeN"
  BY <1>4, <1>11
<1>20. sd'.left = sd'.cur.count
  BY <1>2, <1>11, <1>13
<1>21. WriteOpens(sd', card')
  BY <1>2, <1>11, <1>17, <1>18, <1>19, <1>20 DEF WriteOpens
<1>22. Keeps(s)
  BY <1>11, <1>12, <1>15, KeptKeeps
<1> QED BY <1>11, <1>21, <1>22 DEF Inv, States

\* States 12 and 20.
LEMMA WriteResponds ==
  ASSUME NEW s \in SdRecord, card \in CardRecord, WriteOpens(s, card), WriteResponse(s)
  PROVE  Inv(sd', card') /\ Effect(s)
<1> DEFINE mode == IF s.tr = 12 THEN "write1" ELSE "writeN"
           next == IF s.tr = 12 THEN 13 ELSE 21
<1>1. /\ s.tr \in {12, 20} /\ s.acked /\ s.left = s.cur.count /\ WriteTransfer(s, card)
      /\ card.mode \in {"listen", "lost", mode} /\ (card.mode = mode => card.addr = s.block /\ ~card.busy)
  BY DEF WriteOpens
<1>2. /\ s.cur \in Requests /\ s.inited /\ s.init = 50 /\ card.power = "ready"
      /\ s.tries <= MaxUnacked /\ s.block = s.cur.start /\ ((s.cur.count > 1) <=> (s.tr >= 20))
  BY <1>1 DEF WriteTransfer, InTransfer
<1>3. s.cur.count \in Nat /\ s.cur.count >= 1 /\ s.cur.start \in Nat
  BY <1>2, RequestFits
<1>4. Sending(mode, next) /\ ((next >= 20) <=> (s.tr >= 20))
  BY <1>1 DEF Sending
<1>5. Expects(s, card, mode, s.cur.count - s.left)
  <2>1. s.cur.count - s.left = 0
    BY <1>1, <1>3
  <2>2. StoredUpTo(s, card, 0)
    BY DEF StoredUpTo
  <2>3. mode = "write1" => s.left = 1
    BY <1>1, <1>2, <1>3
  <2>4. s.cur.start \in s.cur.start .. s.cur.start + 0 /\ s.cur.start = s.cur.start + 0
    BY <1>3
  <2>5. Expects(s, card, mode, 0)
    BY <1>1, <1>2, <2>2, <2>3, <2>4 DEF Expects
  <2> QED BY <2>1, <2>5
<1>6. CASE ~GoodResponse(s)
  <2>1. FinishTransfer(s, "write")
    BY <1>6 DEF WriteResponse
  <2> QED BY <2>1, <1>2, Finish
<1>7. CASE GoodResponse(s) /\ s.tr = 12
  <2>1. SendBlock(s, mode, next)
    BY <1>7 DEF WriteResponse
  <2>2. s.left \in 1 .. s.cur.count
    BY <1>1, <1>3
  <2> HIDE DEF mode, next
  <2>3. Inv(sd', card') /\ Writes(s)
    BY <2>1, <2>2, <1>1, <1>4, <1>5, SendsBlock
  <2> QED BY <2>3 DEF Effect
<1>8. CASE GoodResponse(s) /\ s.tr # 12
  <2> DEFINE t == [s EXCEPT !.tries = 0]
  <2>1. SendBlock(t, mode, next)
    BY <1>8 DEF WriteResponse
  <2>2. t \in SdRecord /\ Kept(t, s) /\ t.tr = s.tr /\ t.left = s.left /\ t.acked = s.acked
    BY DEF SdRecord, Kept
  <2>3. t.tries = 0
    BY DEF SdRecord
  <2> HIDE DEF mode, next, t
  <2>4. t.cur = s.cur /\ t.got = s.got /\ t.completed = s.completed /\ t.error = s.error
    BY <2>2 DEF Kept
  <2>5. WriteTransfer(t, card)
    <3>1. InTransfer(t, card)
      <4>1. t.tries <= MaxUnacked /\ InTransfer(s, card) /\ ((t.tr >= 20) <=> (s.tr >= 20))
        BY <1>1, <2>2, <2>3 DEF WriteTransfer
      <4> QED BY <4>1, <2>2, TransferSame
    <3> QED BY <3>1, <2>4, <1>1 DEF WriteTransfer
  <2>6. Expects(t, card, mode, t.cur.count - t.left)
    BY <2>2, <2>4, <1>5 DEF Expects, StoredUpTo
  <2>7. t.left \in 1 .. t.cur.count
    BY <2>2, <2>4, <1>1, <1>3
  <2>8. (next >= 20) <=> (t.tr >= 20)
    BY <2>2, <1>4
  <2>9. Inv(sd', card') /\ Writes(t)
    BY <2>1, <2>2, <2>5, <2>6, <2>7, <2>8, <1>4, SendsBlock
  <2>10. Effect(t)
    BY <2>9 DEF Effect
  <2> QED BY <2>2, <2>4, <2>9, <2>10, EffectSame
<1> QED BY <1>6, <1>7, <1>8

\* The places of a window and what is behind it are numbered.
LEMMA AheadNat ==
  ASSUME NEW w \in Seq(ByteType), NEW o \in Seq(ByteType)
  PROVE  Ahead(w, o) \in Nat /\ Ahead(w, o) = Len(w) + Len(o) /\ Len(w) \in Nat /\ Len(o) \in Nat
BY DEF Ahead

\* A byte that is not zero was found: the card is not busy.
LEMMA FoundHonest ==
  ASSUME NEW s, s.win \in Seq(ByteType), s.idx \in Nat \ {0}, NEW o \in Seq(ByteType), NEW c,
         Honest(s.win, s.idx, o, c), Found(s, FindNotBusy(s))
  PROVE  ~c.busy
<1> DEFINE classes == Class \ {"zero"}
           i == Find(s, classes)
<1> HIDE DEF classes
<1>1. Found(s, i)
  BY DEF FindNotBusy, classes
<1>2. i \in 1 .. Len(s.win) /\ s.idx <= i
  BY <1>1, FindPlace
<1>3. s.win[i].class \in classes
  BY <1>1, FindIs
<1> HIDE DEF i
<1>4. s.win[i].class # "zero"
  BY <1>3 DEF classes
<1>5. At(s.win, o, i).class # "zero"
  BY <1>2, <1>4 DEF At
<1>6. i \in s.idx .. Ahead(s.win, o)
  <2>1. Ahead(s.win, o) = Len(s.win) + Len(o) /\ Len(s.win) \in Nat /\ Len(o) \in Nat
    BY AheadNat
  <2> QED BY <2>1, <1>2
<1> QED BY <1>5, <1>6 DEF Honest

\* Fields of what is clocked.
LEMMA PollsFields ==
  ASSUME NEW s \in SdRecord, NEW n, Polls(s, n)
  PROVE  /\ sd' \in SdRecord /\ card' \in CardRecord /\ Kept(sd', s)
         /\ sd'.tr = s.tr /\ sd'.left = s.left /\ sd'.tries = s.tries /\ sd'.acked = s.acked
         /\ sd'.idx = 1 /\ Len(sd'.win) = n
         /\ sd'.cur = s.cur /\ sd'.got = s.got /\ sd'.completed = s.completed /\ sd'.error = s.error
         /\ Sends(sd'.win, card'.out, card, card')
         /\ card'.disk = card.disk /\ card'.power = card.power
         /\ card.mode \notin {"read1", "readN"} => card'.mode = card.mode /\ card'.addr = card.addr
BY DEF Polls, Kept, Sends

\* The transfer is kept when a window is clocked.
LEMMA PollsTransfer ==
  ASSUME NEW s \in SdRecord, NEW n, Polls(s, n), NEW r, WriteTransfer(r, card), Kept(s, r),
         s.tries <= MaxUnacked, (s.tr >= 20) <=> (r.tr >= 20)
  PROVE  WriteTransfer(sd', card')
<1>1. /\ Kept(sd', s) /\ sd'.tr = s.tr /\ sd'.tries = s.tries /\ card'.power = card.power
  BY PollsFields
<1>2. Kept(sd', r)
  BY <1>1 DEF Kept
<1>3. InTransfer(r, card) /\ sd'.tries <= MaxUnacked /\ ((sd'.tr >= 20) <=> (r.tr >= 20))
  BY <1>1 DEF WriteTransfer
<1>4. InTransfer(sd', card')
  BY <1>1, <1>2, <1>3, TransferSame
<1> QED BY <1>2, <1>4 DEF WriteTransfer, Kept

\* States 15 and 25: the end of the busy signal is the end of the transfer.
LEMMA WritesWait ==
  ASSUME NEW s \in SdRecord, card \in CardRecord, s.tr \in {15, 25}, WriteWaits(s, card),
         s.idx <= Len(s.win) + 1, WriteBusy(s)
  PROVE  Inv(sd', card') /\ Effect(s)
<1>1. /\ s.win \in Seq(ByteType) /\ s.idx \in Nat \ {0} /\ card.out \in Seq(ByteType)
  BY SdFields, CardFields
<1>2. /\ WriteTransfer(s, card) /\ s.left \in {0, 1}
      /\ s.acked => /\ card.mode = "listen" /\ StoredUpTo(s, card, s.cur.count)
                    /\ Honest(s.win, s.idx, card.out, card)
  BY DEF WriteWaits
<1>3. /\ s.cur \in Requests /\ s.cur.write /\ s.inited /\ s.init = 50 /\ card.power = "ready"
      /\ s.tries <= MaxUnacked
  BY <1>2 DEF WriteTransfer, InTransfer
<1>4. CASE Found(s, FindNotBusy(s))
  <2>1. FinishTransfer(s, "ok")
    BY <1>4 DEF WriteBusy
  <2>2. s.acked => Done(s)
    <3> SUFFICES ASSUME s.acked PROVE Done(s)
      OBVIOUS
    <3>1. ~card.busy
      BY <1>1, <1>2, <1>4, FoundHonest
    <3>2. s.cur.start \in Nat /\ s.cur.count \in Nat
      BY <1>3, RequestFits
    <3>3. ASSUME NEW b \in Card!BlocksOf(s.cur) PROVE card.disk[b] = Card!Written(b - s.cur.start + 1)
      <4> DEFINE i == b - s.cur.start + 1
      <4>1. i \in 1 .. s.cur.count /\ s.cur.start + i - 1 = b
        <5>1. b \in s.cur.start .. s.cur.start + s.cur.count - 1
          BY DEF Card!BlocksOf
        <5> QED BY ONLY <3>2, <5>1
      <4> HIDE DEF i
      <4>2. card.disk[s.cur.start + i - 1] = Card!Written(i)
        BY <4>1, <1>2 DEF StoredUpTo
      <4> QED BY <4>1, <4>2 DEF i
    <3> QED BY <3>1, <3>3, <1>2, <1>3 DEF Done, Card!Stored
  <2> QED BY <2>1, <2>2, <1>3, Finish
<1>5. CASE ~Found(s, FindNotBusy(s))
  <2>1. Polls(s, PollWindow)
    <3>1. SpiStartRead(s, PollWindow)
      BY <1>5 DEF WriteBusy
    <3> QED BY <3>1, PollsTo
  <2>2. /\ sd' \in SdRecord /\ card' \in CardRecord /\ Kept(sd', s)
        /\ sd'.tr = s.tr /\ sd'.left = s.left /\ sd'.tries = s.tries /\ sd'.acked = s.acked
        /\ sd'.idx = 1 /\ Len(sd'.win) = PollWindow /\ sd'.cur = s.cur
        /\ Sends(sd'.win, card'.out, card, card') /\ card'.disk = card.disk
        /\ card.mode \notin {"read1", "readN"} => card'.mode = card.mode
    BY <2>1, PollsFields
  <2>3. WriteTransfer(sd', card')
    <3>1. Kept(s, s)
      BY DEF Kept
    <3> QED BY <3>1, <2>1, <1>2, <1>3, PollsTransfer
  <2>4. ASSUME s.acked PROVE Honest(sd'.win, 1, card'.out, card')
    <3>1. Honest(<<>>, 1, card.out, card)
      BY <2>4, <1>1, <1>2, ShiftHonest
    <3>2. Ahead(sd'.win, card'.out) \in Nat
      BY <2>2, SdFields, CardFields, AheadNat
    <3>3. 1 \in Nat \ {0}
      OBVIOUS
    <3> QED BY <3>1, <3>2, <3>3, <2>2, ClockHonest, Zenon
  <2>5. StoredUpTo(s, card, s.cur.count) => StoredUpTo(sd', card', sd'.cur.count)
    BY <2>2 DEF StoredUpTo
  <2>6. WriteWaits(sd', card')
    BY <2>2, <2>3, <2>4, <2>5, <1>2 DEF WriteWaits
  <2>7. WriteEnds(sd', card')
    BY <2>2, <2>6 DEF WriteEnds
  <2>8. Keeps(s)
    BY <2>2, KeptKeeps
  <2> QED BY <2>2, <2>7, <2>8 DEF Inv, States, Effect
<1> QED BY <1>4, <1>5

\* States 13 and 21: the answer to a block is clocked.
LEMMA WritesPoll ==
  ASSUME NEW s \in SdRecord, card \in CardRecord, WriteOne(s, card) \/ WriteMany(s, card),
         s.tr \in {13, 21}, WritePoll(s)
  PROVE  Inv(sd', card') /\ Keeps(s)
<1> DEFINE tr == s.tr + 1
           t == [s EXCEPT !.tr = tr]
<1>1. WriteTransfer(s, card) /\ s.win = <<>> /\ s.tries <= MaxUnacked
  <2>1. WriteTransfer(s, card) /\ Len(s.win) = 0
    BY DEF WriteOne, WriteMany, WriteN
  <2>2. s.win \in Seq(ByteType)
    BY SdFields
  <2> QED BY <2>1, <2>2 DEF WriteTransfer, InTransfer
<1>2. SpiStartRead(t, PollWindow)
  BY DEF WritePoll
<1>3. tr \in TrStates /\ ((tr >= 20) <=> (s.tr >= 20)) /\ tr \in {14, 22} /\ (tr = 14 <=> s.tr = 13)
  BY DEF TrStates
<1> HIDE DEF tr
<1>4. MovedOn(t, s, tr, s.left, s.idx)
  BY <1>3, StateTo
<1> HIDE DEF t
<1>5. t \in SdRecord /\ Kept(t, s) /\ t.tr = tr /\ t.left = s.left /\ t.tries = s.tries /\ t.acked = s.acked
  BY <1>4 DEF MovedOn
<1>6. Polls(t, PollWindow)
  BY <1>2, <1>5, PollsTo
<1>7. /\ sd' \in SdRecord /\ card' \in CardRecord /\ Kept(sd', t)
      /\ sd'.tr = tr /\ sd'.left = s.left /\ sd'.tries = s.tries /\ sd'.acked = s.acked
      /\ sd'.idx = 1 /\ Len(sd'.win) = PollWindow
      /\ Sends(sd'.win, card'.out, card, card') /\ card'.disk = card.disk
      /\ card.mode \notin {"read1", "readN"} => card'.mode = card.mode /\ card'.addr = card.addr
  BY <1>5, <1>6, PollsFields
<1>8. Kept(sd', s) /\ sd'.cur = s.cur
  BY <1>5, <1>7 DEF Kept
<1>9. WriteTransfer(sd', card')
  BY <1>1, <1>3, <1>5, <1>6, PollsTransfer
<1>10. card.mode \in {"listen", "lost", "writeN", "refuse"} /\ HonestAfter(<<>>, card.out, card)
  BY <1>1 DEF WriteOne, WriteMany, WriteN
<1>11. card'.mode = card.mode /\ card'.addr = card.addr
  BY <1>7, <1>10
<1>12. /\ Taken(sd'.win, card'.out) => Taken(<<>>, card.out)
       /\ HonestAfter(sd'.win, card'.out, card')
  <2>1. Ahead(sd'.win, card'.out) \in Nat
    BY <1>7, SdFields, CardFields, AheadNat
  <2> QED BY <2>1, <1>7, <1>10, ClockTaken
<1>13. \A n : StoredUpTo(s, card, n) => StoredUpTo(sd', card', n)
  BY <1>7, <1>8 DEF StoredUpTo
<1>14. Keeps(s)
  BY <1>7, <1>8, KeptKeeps
<1>15. CASE s.tr = 13
  <2>1. WriteOne(s, card)
    BY <1>15 DEF WriteMany
  <2>2. s.acked /\ s.left = 1 /\ card.mode \in {"listen", "lost"}
        /\ (Taken(<<>>, card.out) => card.mode = "listen" /\ StoredUpTo(s, card, 1))
    BY <2>1, <1>1 DEF WriteOne
  <2>3. WriteOne(sd', card')
    BY <2>2, <1>3, <1>7, <1>9, <1>11, <1>12, <1>13, <1>15 DEF WriteOne
  <2> QED BY <2>3, <1>7, <1>14 DEF Inv, States
<1>16. CASE s.tr = 21
  <2>1. WriteMany(s, card)
    BY <1>16 DEF WriteOne
  <2>2. /\ s.left \in 1 .. s.cur.count
        /\ card.mode = "writeN" => card.addr \in s.cur.start .. s.cur.start + Sent(s)
        /\ s.acked /\ Taken(<<>>, card.out) => AllSent(s, card, Sent(s))
    BY <2>1, <1>1 DEF WriteMany, WriteN
  <2>3. Sent(sd') = Sent(s)
    BY <1>7, <1>8 DEF Sent
  <2>4. AllSent(s, card, Sent(s)) => AllSent(sd', card', Sent(sd'))
    BY <2>3, <1>8, <1>11, <1>13 DEF AllSent
  <2>5. WriteN(sd', card')
    BY <2>2, <2>3, <1>7, <1>8, <1>9, <1>10, <1>11 DEF WriteN
  <2>6. sd'.tr = 22
    BY <1>3, <1>7, <1>16
  <2>7. WriteMany(sd', card')
    BY <2>2, <2>4, <2>5, <2>6, <1>7, <1>12 DEF WriteMany
  <2> QED BY <2>7, <1>7, <1>14 DEF Inv, States
<1> QED BY <1>15, <1>16

\* State 14.
LEMMA WritesAck ==
  ASSUME NEW s \in SdRecord, card \in CardRecord, WriteOne(s, card), s.tr = 14, WriteAck(s)
  PROVE  Inv(sd', card') /\ Effect(s)
<1> DEFINE classes == {"accept"}
           i == Find(s, classes)
           next == i + 1
           t == [s EXCEPT !.idx = next, !.tr = 15]
<1>1. /\ s.win \in Seq(ByteType) /\ s.idx \in Nat \ {0} /\ card.out \in Seq(ByteType)
      /\ s.left \in 0 .. NBlocks /\ s.left = 1
  BY SdFields, CardFields DEF WriteOne
<1>2. /\ WriteTransfer(s, card) /\ s.acked
      /\ Taken(s.win, card.out) => card.mode = "listen" /\ StoredUpTo(s, card, 1)
      /\ HonestAfter(s.win, card.out, card)
  BY DEF WriteOne
<1>3. /\ s.cur \in Requests /\ s.inited /\ s.init = 50 /\ card.power = "ready"
      /\ s.tries <= MaxUnacked /\ ~(s.cur.count > 1)
  BY <1>2 DEF WriteTransfer, InTransfer, WriteOne
<1>4. WriteAck(s) <=> IF Found(s, i) THEN WriteBusy(t) ELSE FinishTransfer(s, "write")
  BY DEF WriteAck
<1>5. CASE Found(s, i)
  <2>1. WriteBusy(t)
    BY <1>4, <1>5
  <2> HIDE DEF classes
  <2>2. i \in 1 .. Len(s.win)
    BY <1>1, <1>5, FindPlace
  <2>3. s.win[i].class \in classes
    BY <1>1, <1>5, FindIs
  <2>4. s.win[i].class \in Accepts
    BY <2>3 DEF classes, Accepts
  <2> HIDE DEF i
  <2>5. i \in 1 .. Ahead(s.win, card.out) /\ At(s.win, card.out, i).class \in Accepts
    <3>1. Ahead(s.win, card.out) = Len(s.win) + Len(card.out) /\ Len(s.win) \in Nat /\ Len(card.out) \in Nat
      BY <1>1, AheadNat
    <3>2. i \in 1 .. Ahead(s.win, card.out)
      <4>1. \A x, y \in Nat : \A z \in 1 .. x : z \in 1 .. x + y
        OBVIOUS
      <4> QED BY <2>2, <3>1, <4>1, Zenon
    <3>3. At(s.win, card.out, i) = s.win[i]
      BY <2>2 DEF At
    <3> QED BY <2>4, <3>2, <3>3
  <2>6. card.mode = "listen" /\ StoredUpTo(s, card, 1) /\ Honest(s.win, next, card.out, card)
    BY <2>5, <1>2 DEF Taken, HonestAfter
  <2>7. t = Moves(s, 15, s.left, next)
    <3> HIDE DEF next
    <3> QED BY DEF SdRecord, Moves
  <2>8. next \in Nat \ {0} /\ next <= Len(s.win) + 1
    BY <2>2, <1>1
  <2> HIDE DEF t, next
  <2>9. MovedOn(t, s, 15, s.left, next)
    <3>1. 15 \in TrStates /\ s.left \in 0 .. NBlocks /\ next \in Nat \ {0}
      BY <2>8, <1>1 DEF TrStates
    <3> QED BY <2>7, <3>1, MovesTo, Zenon
  <2>10. /\ t \in SdRecord /\ t.tr = 15 /\ t.left = 1 /\ t.idx = next /\ Kept(t, s)
         /\ t.tries = s.tries /\ t.acked = s.acked /\ t.win = s.win
    BY <2>9, <1>1 DEF MovedOn
  <2>11. t.cur = s.cur /\ t.got = s.got /\ t.completed = s.completed /\ t.error = s.error
    BY <2>10 DEF Kept
  <2>12. WriteTransfer(t, card)
    <3>1. (t.tr >= 20) <=> (s.tr >= 20)
      BY <2>10 DEF WriteOne
    <3>2. InTransfer(s, card) /\ t.tries <= MaxUnacked
      BY <1>2, <1>3, <2>10 DEF WriteTransfer
    <3>3. InTransfer(t, card)
      BY <3>1, <3>2, <2>10, TransferSame
    <3> QED BY <3>3, <2>11, <1>2 DEF WriteTransfer
  <2>13. StoredUpTo(t, card, t.cur.count)
    <3>1. s.cur.count = 1
      BY <1>3, RequestFits
    <3> QED BY <3>1, <2>6, <2>11 DEF StoredUpTo
  <2>14. WriteWaits(t, card)
    BY <2>6, <2>10, <2>12, <2>13 DEF WriteWaits
  <2>15. Inv(sd', card') /\ Effect(t)
    BY <2>1, <2>8, <2>10, <2>14, WritesWait
  <2> QED BY <2>10, <2>11, <2>15, EffectSame
<1>6. CASE ~Found(s, i)
  <2>1. FinishTransfer(s, "write")
    BY <1>4, <1>6
  <2> QED BY <2>1, <1>3, Finish
<1> QED BY <1>5, <1>6

\* The beginning of a window shows less.
LEMMA CutHonest ==
  ASSUME NEW v \in Seq(ByteType), NEW w \in Seq(ByteType), NEW o \in Seq(ByteType),
         Len(w) <= Len(v), \A p \in 1 .. Len(w) : w[p] = v[p],
         NEW i \in Nat \ {0}, NEW c, Honest(v, i, o, c)
  PROVE  Honest(w, i, o, c)
<1> DEFINE m == Len(v)
           n == Len(w)
<1>1. m \in Nat /\ n \in Nat /\ Len(o) \in Nat /\ n <= m
  OBVIOUS
<1> SUFFICES ASSUME NEW p \in i .. Ahead(w, o), At(w, o, p).class # "zero" PROVE ~c.busy
  BY DEF Honest
<1>2. p \in Int /\ p >= i /\ p <= n + Len(o)
  BY <1>1 DEF Ahead
<1>3. CASE p <= n
  <2>1. p \in 1 .. n
    BY <1>1, <1>2, <1>3
  <2>2. p \in i .. m + Len(o) /\ p <= m
    BY <1>1, <1>2, <1>3
  <2>3. At(v, o, p) = v[p] /\ At(w, o, p) = w[p] /\ p \in i .. Ahead(v, o)
    BY <2>2, <1>3 DEF At, Ahead
  <2> QED BY <2>1, <2>3 DEF Honest
<1>4. CASE ~(p <= n)
  <2> DEFINE q == p - n + m
  <2>1. q \in i .. m + Len(o) /\ ~(q <= m) /\ q - m = p - n
    BY <1>1, <1>2, <1>4
  <2>2. At(w, o, p) = o[p - n]
    BY <1>4 DEF At
  <2> HIDE DEF q
  <2>3. At(v, o, q) = o[p - n] /\ q \in i .. Ahead(v, o)
    BY <2>1 DEF At, Ahead
  <2> QED BY <2>2, <2>3 DEF Honest
<1> QED BY <1>3, <1>4

\* The stop token ends the sending of blocks.
LEMMA SendsStop ==
  ASSUME NEW s \in SdRecord, card \in CardRecord, WriteTransfer(s, card), s.left = 1, s.tr >= 20,
         s.acked => AllSent(s, card, Sent(s)) /\ ~card.busy,
         SendStop([s EXCEPT !.left = 0])
  PROVE  Inv(sd', card') /\ Keeps(s)
<1>1. PICK c \in Stopped(card) : \E e \in Clock(c, StopWindow) :
        /\ card' = e.card
        /\ sd' = [[s EXCEPT !.left = 0] EXCEPT !.tr = 25, !.tries = 0,
                                               !.win = SubSeq(e.win, 1, PollWindow), !.idx = 3]
  BY DEF SendStop, StopIdx
<1>2. PICK e \in Clock(c, StopWindow) :
        /\ card' = e.card
        /\ sd' = [[s EXCEPT !.left = 0] EXCEPT !.tr = 25, !.tries = 0,
                                               !.win = SubSeq(e.win, 1, PollWindow), !.idx = 3]
  BY <1>1
<1>3. /\ c \in CardRecord /\ c.disk = card.disk /\ c.power = card.power
      /\ c.out \in Seq(ByteType) /\ Len(c.out) \in Nat
      /\ card.mode = "writeN" /\ ~card.busy => c.mode = "listen" /\ Len(c.out) <= 2
  <2>1. CASE (card.busy \/ card.mode \notin {"writeN", "refuse"}) /\ c = [card EXCEPT !.out = <<>>]
    <3>1. <<>> \in Seq(ByteType)
      OBVIOUS
    <3>2. c \in CardRecord /\ c.disk = card.disk /\ c.power = card.power
      BY <2>1, <3>1 DEF CardRecord
    <3> QED BY <2>1, <3>2, CardFields
  <2>2. ASSUME NEW g \in 0 .. 1,
               c = [card EXCEPT !.mode = "listen", !.busy = TRUE, !.out = Bytes("ff", 1 + g)]
        PROVE  c \in CardRecord /\ c.disk = card.disk /\ c.power = card.power
               /\ c.mode = "listen" /\ Len(c.out) <= 2
    <3> DEFINE u == Bytes("ff", 1 + g)
    <3>1. u \in Seq(ByteType) /\ Len(u) = 1 + g
      <4>1. "ff" \in Class /\ 1 + g \in Nat
        BY DEF Class
      <4> QED BY <4>1, BytesType
    <3>2. Len(u) <= 2
      BY <3>1, SMTT(30)
    <3>3. c = [card EXCEPT !.mode = "listen", !.busy = TRUE, !.out = u]
      BY <2>2
    <3> HIDE DEF u
    <3>4. c \in CardRecord /\ c.disk = card.disk /\ c.power = card.power /\ c.mode = "listen" /\ c.out = u
      BY <3>1, <3>3 DEF CardRecord
    <3> QED BY <3>2, <3>4
  <2>3. \/ (card.busy \/ card.mode \notin {"writeN", "refuse"}) /\ c = [card EXCEPT !.out = <<>>]
        \/ \E g \in 0 .. 1 : c = [card EXCEPT !.mode = "listen", !.busy = TRUE, !.out = Bytes("ff", 1 + g)]
    BY DEF Stopped
  <2> QED BY <2>1, <2>2, <2>3, CardFields
<1> DEFINE w == SubSeq(e.win, 1, PollWindow)
<1>4. /\ e.card \in CardRecord /\ e.win \in Seq(ByteType) /\ Len(e.win) = StopWindow
      /\ Sends(e.win, e.card.out, c, e.card)
  BY <1>3, ClockSends
<1>5. w \in Seq(ByteType) /\ Len(w) = PollWindow /\ \A p \in 1 .. PollWindow : w[p] = e.win[p]
  <2> DEFINE v == e.win
  <2>3. v \in Seq(ByteType) /\ Len(v) = StopWindow
    BY <1>4
  <2> HIDE DEF v
  <2>4. \A p \in 1 .. Len(v) : v[p] \in ByteType
    BY <2>3, SMTT(30)
  <2>1. \A p \in 1 .. PollWindow : e.win[p] \in ByteType
    BY <2>3, <2>4 DEF v
  <2>2. /\ w \in Seq(ByteType)
        /\ Len(w) = IF 1 <= PollWindow THEN PollWindow - 1 + 1 ELSE 0
        /\ \A p \in 1 .. PollWindow - 1 + 1 : w[p] = e.win[1 + p - 1]
    BY <2>1, SubSeqProperties
  <2> QED BY <2>2
<1>6. sd' = [s EXCEPT !.left = 0, !.tr = 25, !.tries = 0, !.win = w, !.idx = 3]
  BY <1>2 DEF SdRecord
<1> HIDE DEF w
<1>7. sd' \in SdRecord
  <2>1. 25 \in TrStates /\ 0 \in 0 .. NBlocks /\ 0 \in Nat /\ 3 \in Nat \ {0}
    BY DEF TrStates
  <2> QED BY <2>1, <1>5, <1>6 DEF SdRecord
<1>8. /\ sd'.tr = 25 /\ sd'.win = w /\ sd'.idx = 3 /\ sd'.left = 0 /\ sd'.tries = 0
      /\ sd'.acked = s.acked
  BY <1>6 DEF SdRecord
<1>9. Kept(sd', s)
  BY <1>6 DEF SdRecord, Kept
<1>10. sd'.cur = s.cur /\ sd'.got = s.got
  BY <1>9 DEF Kept
<1>11. /\ card' \in CardRecord /\ card'.disk = card.disk /\ card'.power = card.power
       /\ c.mode = "listen" => card'.mode = "listen"
  BY <1>2, <1>3, <1>4 DEF Sends
<1>12. WriteTransfer(sd', card')
  <2>1. (sd'.tr >= 20) <=> (s.tr >= 20)
    BY <1>8
  <2>2. InTransfer(s, card) /\ sd'.tries <= MaxUnacked
    BY <1>8 DEF WriteTransfer
  <2>3. InTransfer(sd', card')
    BY <2>1, <2>2, <1>9, <1>11, TransferSame
  <2> QED BY <2>3, <1>10 DEF WriteTransfer
<1>13. ASSUME s.acked PROVE card'.mode = "listen" /\ StoredUpTo(sd', card', sd'.cur.count)
                            /\ Honest(w, 3, card'.out, card')
  <2>1. card.mode = "writeN" /\ ~card.busy /\ StoredUpTo(s, card, Sent(s))
    BY <1>13 DEF AllSent
  <2>2. Sent(s) = s.cur.count
    <3>1. s.cur \in Requests
      BY DEF WriteTransfer, InTransfer
    <3>2. s.cur.count \in Nat
      BY <3>1, RequestFits
    <3> QED BY <3>2 DEF Sent
  <2>3. c.mode = "listen" /\ Len(c.out) <= 2
    BY <2>1, <1>3
  <2>4. StoredUpTo(sd', card', sd'.cur.count)
    BY <2>1, <2>2, <1>10, <1>11 DEF StoredUpTo
  <2> DEFINE o == e.card.out
  <2>5. o \in Seq(ByteType) /\ Len(o) \in Nat /\ Ahead(e.win, o) \in Nat
    BY <1>4, CardFields, AheadNat
  <2> HIDE DEF o
  <2>6. ASSUME NEW p \in 3 .. Ahead(e.win, o), At(e.win, o, p).class # "zero" PROVE ~e.card.busy
    <3>1. p \in Len(c.out) + 1 .. Ahead(e.win, o)
      <4>1. \A x, y \in Nat : \A z \in 3 .. x : y <= 2 => z \in y + 1 .. x
        OBVIOUS
      <4> QED BY <4>1, <2>3, <2>5, <1>3, Zenon
    <3> QED BY <3>1, <2>6, <1>4 DEF Sends, o
  <2>7. Honest(e.win, 3, o, e.card)
    BY <2>6 DEF Honest
  <2>8. Honest(w, 3, o, e.card)
    <3>1. Len(w) <= Len(e.win) /\ \A p \in 1 .. Len(w) : w[p] = e.win[p]
      BY <1>4, <1>5
    <3> DEFINE i == 3
    <3>2. i \in Nat \ {0} /\ Honest(e.win, i, o, e.card)
      BY <2>7
    <3>3. e.win \in Seq(ByteType) /\ w \in Seq(ByteType) /\ o \in Seq(ByteType)
      BY <1>4, <1>5, <2>5
    <3> HIDE DEF i
    <3>4. Honest(w, i, o, e.card)
      BY <3>1, <3>2, <3>3, CutHonest
    <3> QED BY <3>4 DEF i
  <2> QED BY <2>3, <2>4, <2>8, <1>2, <1>11 DEF o
<1>14. WriteWaits(sd', card')
  BY <1>8, <1>12, <1>13 DEF WriteWaits
<1>15. WriteEnds(sd', card')
  BY <1>5, <1>8, <1>14 DEF WriteEnds
<1>16. Keeps(s)
  BY <1>8, <1>9, <1>11, KeptKeeps
<1> QED BY <1>7, <1>11, <1>15, <1>16 DEF Inv, States

\* State 23, and the end of 22: the next block, or the stop token.
LEMMA WritesNext ==
  ASSUME NEW s \in SdRecord, card \in CardRecord, s.tr \in {22, 23}, WriteLooks(s, card),
         s.acked => s.idx <= Len(s.win) + 1, WriteNext(s)
  PROVE  /\ Inv(sd', card') /\ (Keeps(s) \/ Writes(s))
         /\ ~Found(s, FindNotBusy(s)) => Keeps(s) /\ sd'.tr = 23
         /\ s.acked /\ sd'.tr \in {21, 25} => AwaitsNext(s, card)
<1>1. /\ s.win \in Seq(ByteType) /\ s.idx \in Nat \ {0} /\ card.out \in Seq(ByteType) /\ s.left \in 0 .. NBlocks
  BY SdFields, CardFields
<1>2. /\ s.left \in 1 .. s.cur.count /\ WriteTransfer(s, card)
      /\ card.mode \in {"listen", "lost", "writeN", "refuse"}
      /\ card.mode = "writeN" => card.addr \in s.cur.start .. s.cur.start + Sent(s)
      /\ s.acked => AllSent(s, card, Sent(s)) /\ Honest(s.win, s.idx, card.out, card)
  BY DEF WriteLooks, WriteN
<1>3. /\ s.cur \in Requests /\ s.tries <= MaxUnacked /\ InTransfer(s, card)
  BY <1>2 DEF WriteTransfer, InTransfer
<1>4. s.cur.count \in Nat /\ s.cur.start \in Nat /\ s.left \in Nat
  BY <1>1, <1>3, RequestFits
<1>5. CASE ~Found(s, FindNotBusy(s))
  <2> DEFINE t == [s EXCEPT !.tr = 23]
  <2>1. SpiStartRead(t, PollWindow)
    BY <1>5 DEF WriteNext
  <2>2. MovedOn(t, s, 23, s.left, s.idx)
    <3> DEFINE tr == 23
    <3>1. tr \in TrStates
      BY DEF TrStates
    <3>2. t = [s EXCEPT !.tr = tr]
      OBVIOUS
    <3> HIDE DEF t, tr
    <3>3. MovedOn(t, s, tr, s.left, s.idx)
      BY <3>1, <3>2, StateTo
    <3> QED BY <3>3 DEF tr
  <2> HIDE DEF t
  <2>3. t \in SdRecord /\ Kept(t, s) /\ t.tr = 23 /\ t.left = s.left /\ t.tries = s.tries /\ t.acked = s.acked
    BY <2>2 DEF MovedOn
  <2>4. Polls(t, PollWindow)
    BY <2>1, <2>3, PollsTo
  <2>5. /\ sd' \in SdRecord /\ card' \in CardRecord /\ Kept(sd', t)
        /\ sd'.tr = 23 /\ sd'.left = s.left /\ sd'.tries = s.tries /\ sd'.acked = s.acked
        /\ sd'.idx = 1 /\ Len(sd'.win) = PollWindow
        /\ Sends(sd'.win, card'.out, card, card') /\ card'.disk = card.disk
        /\ card.mode \notin {"read1", "readN"} => card'.mode = card.mode /\ card'.addr = card.addr
    BY <2>3, <2>4, PollsFields
  <2>6. Kept(sd', s) /\ sd'.cur = s.cur /\ Sent(sd') = Sent(s)
    BY <2>3, <2>5 DEF Kept, Sent
  <2>7. WriteTransfer(sd', card')
    <3>1. (t.tr >= 20) <=> (s.tr >= 20)
      BY <2>3
    <3> QED BY <3>1, <2>3, <2>4, <1>2, <1>3, PollsTransfer
  <2>8. card'.mode = card.mode /\ card'.addr = card.addr
    BY <2>5, <1>2
  <2>9. WriteN(sd', card')
    BY <2>5, <2>6, <2>7, <2>8, <1>2 DEF WriteN
  <2>10. ASSUME s.acked PROVE Honest(sd'.win, 1, card'.out, card')
    <3>1. Honest(<<>>, 1, card.out, card)
      BY <2>10, <1>1, <1>2, ShiftHonest
    <3>2. Ahead(sd'.win, card'.out) \in Nat
      BY <2>5, SdFields, CardFields, AheadNat
    <3>3. 1 \in Nat \ {0}
      OBVIOUS
    <3> QED BY <3>1, <3>2, <3>3, <2>5, ClockHonest, Zenon
  <2>11. AllSent(s, card, Sent(s)) => AllSent(sd', card', Sent(sd'))
    BY <2>5, <2>6, <2>8 DEF AllSent, StoredUpTo
  <2>12. WriteLooks(sd', card')
    BY <2>5, <2>9, <2>10, <2>11, <1>2 DEF WriteLooks
  <2>13. WriteMore(sd', card')
    BY <2>5, <2>12 DEF WriteMore
  <2>14. Keeps(s)
    BY <2>5, <2>6, KeptKeeps
  <2> QED BY <2>5, <2>13, <2>14, <1>5 DEF Inv, States
<1>8. Found(s, FindNotBusy(s)) /\ s.acked => AwaitsNext(s, card)
  <2> SUFFICES ASSUME Found(s, FindNotBusy(s)), s.acked PROVE AwaitsNext(s, card)
    OBVIOUS
  <2>1. ~card.busy
    BY <1>1, <1>2, FoundHonest
  <2> QED BY <2>1, <1>2 DEF AllSent, Sent, AwaitsNext
<1>6. CASE Found(s, FindNotBusy(s)) /\ s.left > 1
  <2> DEFINE left == s.left - 1
             t == [s EXCEPT !.left = left]
  <2>1. SendBlock(t, "writeN", 21)
    BY <1>6 DEF WriteNext
  <2>2. left \in 0 .. NBlocks /\ left \in 1 .. s.cur.count
    BY <1>1, <1>2, <1>4, <1>6
  <2>3. s.cur.count - left = Sent(s)
    BY <1>4 DEF Sent
  <2> HIDE DEF left
  <2>4. t = Moves(s, s.tr, left, s.idx)
    BY DEF SdRecord, Moves
  <2> HIDE DEF t
  <2>5. MovedOn(t, s, s.tr, left, s.idx)
    <3>1. s.tr \in TrStates /\ left \in 0 .. NBlocks /\ s.idx \in Nat \ {0}
      BY <2>2, <1>1, SdFields
    <3> QED BY <2>4, <3>1, MovesTo, Zenon
  <2>6. /\ t \in SdRecord /\ Kept(t, s) /\ t.tr = s.tr /\ t.left = left /\ t.tries = s.tries
        /\ t.acked = s.acked
    BY <2>5 DEF MovedOn
  <2>7. t.cur = s.cur /\ t.got = s.got /\ t.completed = s.completed /\ t.error = s.error
    BY <2>6 DEF Kept
  <2>8. WriteTransfer(t, card)
    <3>1. (t.tr >= 20) <=> (s.tr >= 20)
      BY <2>6
    <3>2. t.tries <= MaxUnacked
      BY <2>6, <1>3
    <3>3. InTransfer(t, card)
      BY <3>1, <3>2, <2>6, <1>3, TransferSame
    <3> QED BY <3>3, <2>7, <1>2 DEF WriteTransfer
  <2>9. Expects(t, card, "writeN", t.cur.count - t.left)
    <3>1. t.cur.count - t.left = Sent(s)
      BY <2>3, <2>6, <2>7
    <3>2. s.acked => card.addr = s.cur.start + Sent(s) /\ StoredUpTo(t, card, Sent(s))
      BY <1>2, <2>7 DEF AllSent, StoredUpTo
    <3>3. Expects(t, card, "writeN", Sent(s))
      BY <3>2, <1>2, <2>6, <2>7 DEF Expects
    <3> QED BY <3>1, <3>3
  <2>10. Sending("writeN", 21) /\ ((21 >= 20) <=> (t.tr >= 20)) /\ t.left \in 1 .. t.cur.count
    BY <2>2, <2>6, <2>7 DEF Sending
  <2>11. Inv(sd', card') /\ Writes(t)
    <3> DEFINE next == 21
    <3>1. Sending("writeN", next) /\ ((next >= 20) <=> (t.tr >= 20)) /\ SendBlock(t, "writeN", next)
      BY <2>1, <2>10
    <3> HIDE DEF next
    <3> QED BY <3>1, <2>6, <2>8, <2>9, <2>10, SendsBlock
  <2>12. Writes(s)
    BY <2>6, <2>7, <2>11 DEF Writes, Goes
  <2> QED BY <2>11, <2>12, <1>6, <1>8
<1>7. CASE Found(s, FindNotBusy(s)) /\ ~(s.left > 1)
  <2>1. SendStop([s EXCEPT !.left = 0])
    BY <1>7 DEF WriteNext
  <2>2. s.left = 1 /\ s.tr >= 20
    BY <1>2, <1>4, <1>7
  <2>3. s.acked => AllSent(s, card, Sent(s)) /\ ~card.busy
    BY <1>1, <1>2, <1>7, FoundHonest
  <2> QED BY <2>1, <2>2, <2>3, <1>2, <1>7, <1>8, SendsStop
<1> QED BY <1>5, <1>6, <1>7

\* State 22.
LEMMA WritesAckSeveral ==
  ASSUME NEW s \in SdRecord, card \in CardRecord, WriteMany(s, card), s.tr = 22, WriteAckSeveral(s)
  PROVE  /\ Inv(sd', card') /\ Effect(s)
         /\ s.acked /\ sd'.tr \in {21, 25} => AwaitsNext(s, card)
<1> DEFINE classes == {"accept", "accept2"}
           i == Find(s, classes)
           next == i + 1
           after == [s EXCEPT !.idx = next]
<1>1. /\ s.win \in Seq(ByteType) /\ s.idx \in Nat \ {0} /\ s.idx = 1 /\ card.out \in Seq(ByteType)
      /\ s.left \in 0 .. NBlocks /\ Len(s.win) \in Nat
  BY SdFields, CardFields DEF WriteMany
<1>2. /\ WriteN(s, card)
      /\ s.acked /\ Taken(s.win, card.out) => AllSent(s, card, Sent(s))
      /\ HonestAfter(s.win, card.out, card)
  BY DEF WriteMany
<1>3. /\ s.inited /\ s.init = 50 /\ card.power = "ready" /\ s.tries <= MaxUnacked /\ InTransfer(s, card)
      /\ s.cur.write
  BY <1>2 DEF WriteN, WriteTransfer, InTransfer
<1>4. WriteAckSeveral(s) <=>
        IF Found(s, i) THEN WriteNext(after)
        ELSE IF s.tries + 1 > MaxUnacked THEN FinishTransfer(s, "write")
        ELSE WriteNext([after EXCEPT !.tries = @ + 1, !.acked = FALSE])
  BY DEF WriteAckSeveral
<1> HIDE DEF classes
<1>5. i \in Nat \ {0} /\ next \in Nat \ {0}
  BY <1>1, FindIs
<1>6. WriteN(after, card) /\ after \in SdRecord /\ Kept(after, s) /\ after.tr = 22 /\ after.left = s.left
      /\ after.idx = next /\ after.win = s.win /\ after.tries = s.tries /\ after.acked = s.acked
  <2>1. MovedOn(after, s, s.tr, s.left, next)
    <3> HIDE DEF next
    <3> QED BY <1>5, IndexTo
  <2> HIDE DEF after
  <2>2. /\ after \in SdRecord /\ Kept(after, s) /\ after.tr = 22 /\ after.left = s.left
        /\ after.idx = next /\ after.win = s.win /\ after.tries = s.tries /\ after.acked = s.acked
    BY <2>1 DEF MovedOn
  <2>3. InTransfer(after, card)
    <3>1. (after.tr >= 20) <=> (s.tr >= 20)
      BY <2>2
    <3> QED BY <3>1, <2>2, <1>3, TransferSame
  <2>4. WriteN(after, card)
    BY <2>2, <2>3, <1>2 DEF WriteN, WriteTransfer, Kept, Sent
  <2> QED BY <2>2, <2>4
<1> HIDE DEF after
<1>7. after.cur = s.cur /\ after.got = s.got /\ after.completed = s.completed /\ after.error = s.error
  BY <1>6 DEF Kept
<1>8. CASE Found(s, i)
  <2>1. WriteNext(after)
    BY <1>4, <1>8
  <2>2. i \in 1 .. Len(s.win)
    BY <1>1, <1>8, FindPlace
  <2>3. s.win[i].class \in classes
    BY <1>1, <1>8, FindIs
  <2>4. s.win[i].class \in Accepts
    BY <2>3 DEF classes, Accepts
  <2> HIDE DEF i
  <2>5. i \in 1 .. Ahead(s.win, card.out) /\ At(s.win, card.out, i).class \in Accepts
    <3>1. Ahead(s.win, card.out) = Len(s.win) + Len(card.out) /\ Len(s.win) \in Nat /\ Len(card.out) \in Nat
      BY <1>1, AheadNat
    <3>2. i \in 1 .. Ahead(s.win, card.out)
      <4>1. \A x, y \in Nat : \A z \in 1 .. x : z \in 1 .. x + y
        OBVIOUS
      <4> QED BY <2>2, <3>1, <4>1, Zenon
    <3>3. At(s.win, card.out, i) = s.win[i]
      BY <2>2 DEF At
    <3> QED BY <2>4, <3>2, <3>3
  <2>6. (s.acked => AllSent(s, card, Sent(s))) /\ Honest(s.win, next, card.out, card)
    BY <2>5, <1>2 DEF Taken, HonestAfter
  <2>7. AllSent(s, card, Sent(s)) => AllSent(after, card, Sent(after))
    BY <1>6, <1>7 DEF AllSent, Sent, StoredUpTo
  <2>8. WriteLooks(after, card)
    BY <1>6, <2>6, <2>7 DEF WriteLooks
  <2>9. after.idx <= Len(after.win) + 1
    BY <1>1, <1>6, <2>2
  <2>10. /\ Inv(sd', card') /\ (Keeps(after) \/ Writes(after))
         /\ after.acked /\ sd'.tr \in {21, 25} => AwaitsNext(after, card)
    BY <2>1, <2>8, <2>9, <1>6, WritesNext
  <2>11. Effect(after)
    BY <2>10 DEF Effect
  <2>12. s.acked /\ sd'.tr \in {21, 25} => AwaitsNext(s, card)
    BY <2>10, <1>6, <1>7 DEF AwaitsNext
  <2> QED BY <2>10, <2>11, <2>12, <1>6, <1>7, EffectSame
<1>9. CASE ~Found(s, i) /\ s.tries + 1 > MaxUnacked
  <2>1. FinishTransfer(s, "write")
    BY <1>4, <1>9
  <2>2. sd'.tr = 0
    BY <2>1 DEF FinishTransfer, SdRecord
  <2> QED BY <2>1, <2>2, <1>3, Finish
<1>10. CASE ~Found(s, i) /\ ~(s.tries + 1 > MaxUnacked)
  <2> DEFINE t == [after EXCEPT !.tries = @ + 1, !.acked = FALSE]
  <2>1. WriteNext(t)
    BY <1>4, <1>10
  <2>2. i = Len(s.win) + 1
    BY <1>1, <1>10, FindIs
  <2>3. s.tries \in Nat /\ s.tries + 1 \in Nat
    BY SdFields
  <2>4. t \in SdRecord
    BY <1>6, <2>3 DEF SdRecord
  <2>5. /\ t.tr = 22 /\ t.left = s.left /\ t.idx = next /\ t.win = s.win /\ t.acked = FALSE
    BY <1>6 DEF SdRecord
  <2>6. t.tries = s.tries + 1
    BY <1>6 DEF SdRecord
  <2>7. Kept(t, after)
    BY <1>6 DEF SdRecord, Kept
  <2> HIDE DEF t
  <2>8. t.cur = s.cur /\ t.got = s.got /\ t.completed = s.completed /\ t.error = s.error /\ Kept(t, s)
    BY <1>6, <1>7, <2>7 DEF Kept
  <2>9. InTransfer(t, card)
    <3>1. (t.tr >= 20) <=> (s.tr >= 20)
      BY <2>5
    <3>2. t.tries <= MaxUnacked
      BY <2>3, <2>6, <1>10
    <3> QED BY <3>1, <3>2, <2>8, <1>3, TransferSame
  <2>10. WriteN(t, card)
    BY <2>5, <2>8, <2>9, <1>2 DEF WriteN, WriteTransfer, Sent
  <2>11. WriteLooks(t, card)
    BY <2>5, <2>10 DEF WriteLooks
  <2>12. ~Found(t, FindNotBusy(t))
    <3> DEFINE j == FindNotBusy(t)
               busy == Class \ {"zero"}
    <3>1. t.win \in Seq(ByteType) /\ t.idx \in Nat \ {0}
      BY <2>4, SdFields
    <3> SUFFICES ASSUME Found(t, j) PROVE FALSE
      OBVIOUS
    <3>2. j = Find(t, busy)
      BY DEF FindNotBusy
    <3> HIDE DEF j, busy
    <3>3. j \in 1 .. Len(t.win) /\ t.idx <= j
      BY <3>1, <3>2, FindPlace
    <3>4. t.idx = Len(s.win) + 2 /\ Len(t.win) = Len(s.win)
      BY <2>2, <2>5, <1>1
    <3> QED BY <3>3, <3>4, <1>1
  <2>13. Inv(sd', card') /\ Keeps(t) /\ sd'.tr = 23
    BY <2>1, <2>4, <2>5, <2>11, <2>12, WritesNext
  <2>14. Writes(s)
    BY <2>5, <2>8, <2>13, <1>3 DEF Writes, Keeps, Goes
  <2> QED BY <2>13, <2>14 DEF Effect
<1> QED BY <1>8, <1>9, <1>10

\* The initialisation leaves the transfer that may wait for it alone.
Stays(s) ==
  /\ sd' \in SdRecord /\ card' \in CardRecord /\ card'.disk = card.disk /\ sd'.idx = 1
  /\ sd'.tr = s.tr /\ sd'.completed = s.completed /\ sd'.error = s.error /\ sd'.cur = s.cur
  /\ sd'.block = s.block /\ sd'.left = s.left /\ sd'.got = s.got /\ sd'.acked = s.acked
\* Then the invariant is kept.
LEMMA StaysRest ==
  ASSUME NEW s, Rest(s, card), Stays(s),
         IF sd'.inited THEN Listens(sd', card') ELSE Initializes(sd', card')
  PROVE  Inv(sd', card') /\ Keeps(s)
<1>1. Rest(sd', card')
  BY DEF Rest, Stays
<1>2. Keeps(s)
  BY DEF Stays, Keeps, Goes
<1> QED BY <1>1, <1>2 DEF Stays, Inv, States

\* The members in the next state of the initialisation.
Inits(s, next, tries) == [s EXCEPT !.init = next, !.tries = tries]
\* They are these, and the others stay.
LEMMA InitsFields ==
  ASSUME NEW s \in SdRecord, NEW next \in InitStates, NEW tries \in Nat
  PROVE  LET t == Inits(s, next, tries)
         IN  /\ t \in SdRecord /\ t.init = next /\ t.tries = tries /\ t.inited = s.inited
             /\ t.tr = s.tr /\ t.completed = s.completed /\ t.error = s.error /\ t.cur = s.cur
             /\ t.block = s.block /\ t.left = s.left /\ t.got = s.got /\ t.acked = s.acked
             /\ t.win = s.win /\ t.idx = s.idx
<1> DEFINE t == Inits(s, next, tries)
<1>1. t \in SdRecord
  BY DEF SdRecord, Inits
<1>2. t.init = next /\ t.tries = tries
  BY DEF SdRecord, Inits
<1>3. /\ t.inited = s.inited
      /\ t.tr = s.tr /\ t.completed = s.completed /\ t.error = s.error /\ t.cur = s.cur
  BY DEF SdRecord, Inits
<1>4. /\ t.block = s.block /\ t.left = s.left /\ t.got = s.got /\ t.acked = s.acked
      /\ t.win = s.win /\ t.idx = s.idx
  BY DEF SdRecord, Inits
<1> QED BY <1>1, <1>2, <1>3, <1>4

\* A command of the initialisation is sent.
Asks(s, cmd, n, next, tries) == CmdSend(Inits(s, next, tries), cmd, n)
\* The card hears it or not, and the initialisation waits for the answer.
LEMMA InitSends ==
  ASSUME NEW s \in SdRecord, card \in CardRecord, Rest(s, card), ~s.inited,
         NEW cmd \in {0, 8, 9, 41, 55, 58}, NEW n \in Nat, n \in Windows,
         NEW next \in InitStates, next \notin {9, 50}, NEW tries \in Nat,
         tries <= IF next \in {5, 6} THEN MaxTry ELSE MaxTry + 1,
         next \in {7, 8} => cmd # 0 /\ card.power = "ready", next = 6 => cmd = 41,
         Asks(s, cmd, n, next, tries)
  PROVE  Inv(sd', card') /\ Keeps(s)
<1> DEFINE t == Inits(s, next, tries)
<1>1. /\ t \in SdRecord /\ t.init = next /\ t.tries = tries /\ t.inited = s.inited
      /\ t.tr = s.tr /\ t.completed = s.completed /\ t.error = s.error /\ t.cur = s.cur
      /\ t.block = s.block /\ t.left = s.left /\ t.got = s.got /\ t.acked = s.acked
  BY InitsFields
<1>2. CmdSend(t, cmd, n)
  BY DEF Asks
<1> HIDE DEF t
<1>3. card.mode = "listen" /\ ~card.busy
  BY DEF Rest, Initializes
<1>4. \A c \in Heard(card, cmd, t.block) :
        /\ c \in CardRecord /\ c.mode = "listen" /\ ~c.busy /\ c.disk = card.disk
        /\ cmd # 0 /\ card.power = "ready" => c.power = "ready"
        /\ cmd = 41 => c.power = "ready" \/ \A p \in 1 .. Len(c.out) : c.out[p].class # "zero"
  BY <1>3, HeardInit
<1>5. PICK c \in Heard(card, cmd, t.block) : Commands(t, c, n)
  <2>1. \A c \in Heard(card, cmd, t.block) : c \in CardRecord
    BY <1>4
  <2> QED BY <2>1, <1>1, <1>2, CommandsTo
<1>6. /\ c \in CardRecord /\ c.mode = "listen" /\ ~c.busy /\ c.disk = card.disk
      /\ cmd # 0 /\ card.power = "ready" => c.power = "ready"
      /\ cmd = 41 => c.power = "ready" \/ \A p \in 1 .. Len(c.out) : c.out[p].class # "zero"
  BY <1>4
<1>7. /\ sd' \in SdRecord /\ card' \in CardRecord /\ Kept(sd', t) /\ sd'.tr = t.tr /\ sd'.left = t.left
      /\ sd'.tries = t.tries /\ sd'.acked = t.acked /\ sd'.idx = 1 /\ Len(sd'.win) = n
      /\ Sends(sd'.win, card'.out, c, card')
  BY <1>5 DEF Commands
<1>8. card'.disk = card.disk /\ card'.mode = "listen" /\ ~card'.busy /\ card'.power = c.power
  BY <1>6, <1>7 DEF Sends
<1>9. Stays(s)
  BY <1>1, <1>7, <1>8 DEF Stays, Kept
<1>10. sd'.init = next /\ sd'.tries = tries /\ ~sd'.inited
  BY <1>1, <1>7 DEF Kept
<1>11. ASSUME next = 6, ~Without(sd'.win, 1, card'.out, {"zero"}) PROVE card'.power = "ready"
  <2>1. PICK p \in 1 .. Ahead(sd'.win, card'.out) : At(sd'.win, card'.out, p).class = "zero"
    BY <1>11 DEF Without
  <2>2. c.out \in Seq(ByteType) /\ Len(c.out) \in Nat
    BY <1>6, CardFields
  <2>3. CASE p <= Len(c.out)
    <3>1. p \in 1 .. Len(c.out)
      BY <2>2, <2>3
    <3>2. c.out[p].class = "zero"
      BY <3>1, <2>1, <1>7 DEF Sends
    <3> QED BY <3>1, <3>2, <1>6, <1>8, <1>11
  <2>4. CASE ~(p <= Len(c.out))
    <3>1. p \in Len(c.out) + 1 .. Ahead(sd'.win, card'.out)
      BY <2>2, <2>4
    <3> QED BY <3>1, <2>1, <1>6, <1>7 DEF Sends
  <2> QED BY <2>3, <2>4
<1>12. Initializes(sd', card')
  <2>1. sd'.init \in {7, 8, 9} => card'.power = "ready"
    BY <1>6, <1>8, <1>10
  <2>2. sd'.init # 50 /\ sd'.init # 9
    BY <1>10
  <2>3. sd'.tries <= IF sd'.init \in {5, 6} THEN MaxTry ELSE MaxTry + 1
    BY <1>10
  <2>4. Len(sd'.win) \in Windows \cup {0}
    BY <1>7
  <2> QED BY <2>1, <2>2, <2>3, <2>4, <1>8, <1>10, <1>11 DEF Initializes
<1> QED BY <1>9, <1>10, <1>12, StaysRest

\* Nothing is sent.
LEMMA InitWaits ==
  ASSUME NEW s \in SdRecord, card \in CardRecord, Rest(s, card), ~s.inited,
         NEW next \in {0, 2, 100}, NEW tries \in Nat, tries <= MaxTry + 1,
         Quiet(Inits(s, next, tries))
  PROVE  Inv(sd', card') /\ Keeps(s)
<1> DEFINE t == Inits(s, next, tries)
<1>1. /\ t \in SdRecord /\ t.init = next /\ t.tries = tries /\ t.inited = s.inited
      /\ t.tr = s.tr /\ t.completed = s.completed /\ t.error = s.error /\ t.cur = s.cur
      /\ t.block = s.block /\ t.left = s.left /\ t.got = s.got /\ t.acked = s.acked
      /\ t.win = s.win /\ t.idx = s.idx
  <2>1. next \in InitStates
    BY DEF InitStates
  <2> QED BY <2>1, InitsFields
<1>2. sd' = t /\ card' = card
  BY DEF Quiet
<1> HIDE DEF t
<1>3. s.idx = 1 /\ card.mode = "listen" /\ ~card.busy /\ Len(s.win) \in Windows \cup {0}
  BY DEF Rest, Initializes
<1>4. Stays(s)
  BY <1>1, <1>2, <1>3 DEF Stays
<1>5. /\ sd'.init = next /\ sd'.tries = tries /\ sd'.win = s.win /\ ~sd'.inited
      /\ card'.mode = "listen" /\ ~card'.busy
  BY <1>1, <1>2, <1>3
<1>6. Initializes(sd', card')
  <2>1. next \notin {5, 6, 7, 8, 9} /\ next # 50
    OBVIOUS
  <2>2. sd'.init \notin {5, 6, 7, 8, 9} /\ sd'.init # 50 /\ sd'.init # 6 /\ sd'.init # 9
        /\ sd'.init \notin {7, 8, 9} /\ sd'.init \notin {5, 6}
    BY <2>1, <1>5
  <2> QED BY ONLY <2>2, <1>3, <1>5, tries <= MaxTry + 1 DEF Initializes
<1> QED BY <1>4, <1>5, <1>6, StaysRest

\* The card is deselected.
Parting == {1, 9, 101}
Left(s, next, tries) == [s EXCEPT !.win = <<>>, !.idx = 1, !.init = next, !.tries = tries]
\* Then the initialisation goes on or begins again.
LEMMA InitLeaves ==
  ASSUME NEW s \in SdRecord, card \in CardRecord, Rest(s, card), ~s.inited,
         NEW next \in Parting, NEW tries \in Nat, tries <= MaxTry + 1,
         next = 9 => card.power = "ready",
         sd' = Left(s, next, tries),
         card' \in Deselect(card)
  PROVE  Inv(sd', card') /\ Keeps(s)
<1>1. card.mode = "listen" /\ ~card.busy
  BY DEF Rest, Initializes
<1>2. card' = [card EXCEPT !.out = <<>>]
  BY <1>1 DEF Deselect
<1>3. <<>> \in Seq(ByteType) /\ 1 \in Nat \ {0} /\ next \in InitStates
  BY DEF InitStates, Parting
<1>4. /\ card' \in CardRecord /\ card'.disk = card.disk /\ card'.out = <<>>
      /\ card'.mode = card.mode /\ card'.busy = card.busy /\ card'.power = card.power
  BY <1>2, <1>3 DEF CardRecord
<1>5. sd' \in SdRecord
  BY <1>3 DEF SdRecord, Left
<1>6. sd'.win = <<>> /\ sd'.idx = 1 /\ sd'.init = next /\ sd'.tries = tries
  BY DEF SdRecord, Left
<1>7. /\ sd'.tr = s.tr /\ sd'.completed = s.completed /\ sd'.error = s.error /\ sd'.cur = s.cur
      /\ sd'.block = s.block /\ sd'.left = s.left /\ sd'.got = s.got /\ sd'.acked = s.acked
      /\ sd'.inited = s.inited
  BY DEF SdRecord, Left
<1>8. Stays(s)
  BY <1>4, <1>5, <1>6, <1>7 DEF Stays
<1>9. Initializes(sd', card')
  <2>1. next \notin {5, 6, 7, 8} /\ next # 50
    BY DEF Parting
  <2>2. /\ sd'.init # 50 /\ sd'.init # 6 /\ sd'.init \notin {5, 6}
        /\ sd'.init \in {7, 8, 9} => next = 9
    BY <2>1, <1>6
  <2>3. card'.mode = "listen" /\ ~card'.busy /\ card'.power = card.power
    BY <1>1, <1>4
  <2>4. sd'.win = <<>> /\ card'.out = <<>> /\ Len(sd'.win) = 0
    BY <1>4, <1>6
  <2>5. sd'.tries <= MaxTry + 1
    BY <1>6
  <2> QED BY ONLY <2>2, <2>3, <2>4, <2>5, next = 9 => card.power = "ready" DEF Initializes
<1> QED BY <1>7, <1>8, <1>9, StaysRest

\* What a command of the initialisation must satisfy.
Proper(s, cmd, n, next, tries) ==
  /\ cmd \in {0, 8, 9, 41, 55, 58} /\ n \in Nat /\ n \in Windows
  /\ next \in InitStates /\ next \notin {9, 50} /\ tries \in Nat
  /\ tries <= IF next \in {5, 6} THEN MaxTry ELSE MaxTry + 1
  /\ next \in {7, 8} => cmd # 0 /\ card.power = "ready"
  /\ next = 6 => cmd = 41
\* Then the initialisation goes on.
LEMMA InitAsks ==
  ASSUME NEW s \in SdRecord, card \in CardRecord, Rest(s, card), ~s.inited,
         NEW cmd, NEW n, NEW next, NEW tries, Proper(s, cmd, n, next, tries),
         Asks(s, cmd, n, next, tries)
  PROVE  Inv(sd', card') /\ Keeps(s)
BY InitSends DEF Proper

\* The commands as the machine writes them.
LEMMA AsksIs ==
  ASSUME NEW s \in SdRecord, NEW cmd, NEW n, NEW next, NEW tries
  PROVE  /\ InitCmd(s, cmd, n, next) => Asks(s, cmd, n, next, s.tries)
         /\ InitCmd([s EXCEPT !.tries = tries], cmd, n, next) => Asks(s, cmd, n, next, tries)
<1>1. [s EXCEPT !.init = next] = Inits(s, next, s.tries)
  BY DEF SdRecord, Inits
<1>2. [[s EXCEPT !.tries = tries] EXCEPT !.init = next] = Inits(s, next, tries)
  BY DEF SdRecord, Inits
<1> QED BY <1>1, <1>2 DEF InitCmd, Asks

\* The first response of the card, if it is a good one, is 0.
LEMMA LeftIdleReady ==
  ASSUME NEW s \in SdRecord, NEW c \in CardRecord, Rest(s, c), ~s.inited, s.init = 6, LeftIdle(s)
  PROVE  c.power = "ready"
<1> DEFINE i == FindResponseCode(s)
<1>1. s.idx = 1 /\ (~Without(s.win, 1, c.out, {"zero"}) => c.power = "ready")
  BY DEF Rest, Initializes
<1>2. s.win \in Seq(ByteType) /\ c.out \in Seq(ByteType) /\ s.idx \in Nat \ {0}
  BY SdFields, CardFields
<1>3. Found(s, i) /\ s.win[i].class = "zero"
  BY DEF LeftIdle, GoodResponse
<1>4. i \in 1 .. Len(s.win)
  BY <1>2, <1>3, FindPlace DEF FindResponseCode
<1> HIDE DEF i
<1>5. Ahead(s.win, c.out) = Len(s.win) + Len(c.out) /\ Len(s.win) \in Nat /\ Len(c.out) \in Nat
  BY <1>2, AheadNat
<1>6. i \in 1 .. Ahead(s.win, c.out)
  <2>1. \A x, y \in Nat : \A z \in 1 .. x : z \in 1 .. x + y
    OBVIOUS
  <2> QED BY <2>1, <1>4, <1>5, Zenon
<1>7. At(s.win, c.out, i) = s.win[i]
  BY <1>4, <1>5 DEF At
<1> QED BY <1>1, <1>3, <1>6, <1>7 DEF Without

\* Each step of the initialisation keeps the invariant, and means nothing to the
\* users of the card.
LEMMA Initializing ==
  ASSUME NEW s \in SdRecord, card \in CardRecord, Rest(s, card), ~s.inited, RunInitialization(s)
  PROVE  Inv(sd', card') /\ Keeps(s)
<1> DEFINE answered == Found(s, FindResponseCode(s))
           csd == [s EXCEPT !.idx = FindResponseCode(s) + 1]
           rest == [s EXCEPT !.win = <<>>, !.idx = 1]
<1>0. /\ s.tries \in Nat /\ s.tries <= MaxTry + 1
      /\ s.init \in {5, 6} => s.tries <= MaxTry
      /\ s.init \in {7, 8, 9} => card.power = "ready"
      /\ s.idx = 1 /\ s.tries + 1 \in Nat /\ MaxTry <= MaxTry + 1
  <2>1. s.tries \in Nat /\ s.idx = 1 /\ Initializes(s, card)
    BY SdFields DEF Rest
  <2>2. s.tries <= IF s.init \in {5, 6} THEN MaxTry ELSE MaxTry + 1
    BY <2>1 DEF Initializes
  <2>3. s.init \in {7, 8, 9} => card.power = "ready"
    BY <2>1 DEF Initializes
  <2> QED BY <2>1, <2>2, <2>3
<1>1. ASSUME NEW next, next \in {0, 2, 100}, NEW tries, tries \in Nat, tries <= MaxTry + 1,
             Quiet(Inits(s, next, tries))
      PROVE  Inv(sd', card') /\ Keeps(s)
  BY <1>1, InitWaits
<1>2. ASSUME NEW next, next \in Parting, NEW tries, tries \in Nat, tries <= MaxTry + 1,
             next = 9 => card.power = "ready", sd' = Inits(rest, next, tries), card' \in Deselect(card)
      PROVE  Inv(sd', card') /\ Keeps(s)
  <2>1. sd' = Left(s, next, tries)
    BY <1>2 DEF SdRecord, Inits, Left
  <2> HIDE DEF rest, answered, csd
  <2> QED BY <2>1, <1>2, InitLeaves
<1>3. ASSUME NEW cmd, NEW n, NEW next, Proper(s, cmd, n, next, s.tries), InitCmd(s, cmd, n, next)
      PROVE  Inv(sd', card') /\ Keeps(s)
  <2>1. Asks(s, cmd, n, next, s.tries)
    BY <1>3, AsksIs
  <2> QED BY <2>1, <1>3, InitAsks
<1>4. ASSUME NEW cmd, NEW n, NEW next, NEW tries, Proper(s, cmd, n, next, tries),
             InitCmd([s EXCEPT !.tries = tries], cmd, n, next)
      PROVE  Inv(sd', card') /\ Keeps(s)
  <2>1. Asks(s, cmd, n, next, tries)
    BY <1>4, AsksIs
  <2> QED BY <2>1, <1>4, InitAsks
<1>5. Again(s) = Inits(s, 100, s.tries) /\ Again([s EXCEPT !.tries = @ + 1]) = Inits(s, 100, s.tries + 1)
  BY DEF Again, Inits, SdRecord
<1>6. ASSUME Quiet(Again(s)) PROVE Inv(sd', card') /\ Keeps(s)
  <2>1. Quiet(Inits(s, 100, s.tries)) /\ 100 \in {0, 2, 100}
    BY <1>5, <1>6
  <2> QED BY <2>1, <1>0, <1>1, Zenon
<1>10. CASE s.init = 0 /\ Leaves([rest EXCEPT !.init = 1])
  <2>1. sd' = Inits(rest, 1, s.tries) /\ card' \in Deselect(card)
    BY <1>10 DEF Leaves, Inits, SdRecord
  <2>2. 1 \in Parting /\ 1 # 9
    BY DEF Parting
  <2> QED BY <2>1, <2>2, <1>0, <1>2, Zenon
<1>11. CASE s.init = 1 /\ Quiet([s EXCEPT !.init = 2])
  <2>1. [s EXCEPT !.init = 2] = Inits(s, 2, s.tries)
    BY DEF Inits, SdRecord
  <2>2. Quiet(Inits(s, 2, s.tries)) /\ 2 \in {0, 2, 100}
    BY <2>1, <1>11
  <2> QED BY <2>2, <1>0, <1>1, Zenon
<1>12. CASE s.init = 2 /\ InitCmd(s, 0, AnswerWindow, 3)
  <2>1. Proper(s, 0, AnswerWindow, 3, s.tries)
    BY <1>0 DEF Proper, Windows, InitStates
  <2> QED BY <2>1, <1>3, <1>12, Zenon
<1>13. CASE s.init = 3 /\ IF answered THEN InitCmd(s, 8, AnswerWindow, 4) ELSE Quiet(Again(s))
  <2>1. Proper(s, 8, AnswerWindow, 4, s.tries)
    BY <1>0 DEF Proper, Windows, InitStates
  <2>2. InitCmd(s, 8, AnswerWindow, 4) \/ Quiet(Again(s))
    BY <1>13
  <2> QED BY <2>1, <2>2, <1>3, <1>6, Zenon
<1>14. CASE s.init = 4 /\ InitCmd([s EXCEPT !.tries = 0], 55, AppWindow, 5)
  <2>1. Proper(s, 55, AppWindow, 5, 0)
    BY <1>0 DEF Proper, Windows, InitStates
  <2> QED BY <2>1, <1>4, <1>14, Zenon
<1>15. CASE s.init = 5 /\ IF answered THEN InitCmd(s, 41, AnswerWindow, 6) ELSE Quiet(Again(s))
  <2>1. Proper(s, 41, AnswerWindow, 6, s.tries)
    BY <1>0, <1>15 DEF Proper, Windows, InitStates
  <2>2. InitCmd(s, 41, AnswerWindow, 6) \/ Quiet(Again(s))
    BY <1>15
  <2> QED BY <2>1, <2>2, <1>3, <1>6, Zenon
<1>16. CASE s.init = 6 /\ IF LeftIdle(s) THEN InitCmd(s, 58, AnswerWindow, 7)
                      ELSE IF TooManyTries(s) THEN Quiet(Again([s EXCEPT !.tries = @ + 1]))
                      ELSE InitCmd([s EXCEPT !.tries = @ + 1], 55, AppWindow, 5)
  <2>1. CASE LeftIdle(s) /\ InitCmd(s, 58, AnswerWindow, 7)
    <3>1. card.power = "ready"
      BY <1>16, <2>1, LeftIdleReady
    <3>2. Proper(s, 58, AnswerWindow, 7, s.tries)
      BY <3>1, <1>0 DEF Proper, Windows, InitStates
    <3> QED BY <3>2, <2>1, <1>3, Zenon
  <2>2. CASE Quiet(Again([s EXCEPT !.tries = @ + 1]))
    <3>1. Quiet(Inits(s, 100, s.tries + 1)) /\ 100 \in {0, 2, 100}
      BY <1>5, <2>2
    <3>2. s.tries + 1 <= MaxTry + 1
      BY <1>0, <1>16
    <3> QED BY <3>1, <3>2, <1>0, <1>1, Zenon
  <2>3. CASE ~TooManyTries(s) /\ InitCmd([s EXCEPT !.tries = @ + 1], 55, AppWindow, 5)
    <3>1. s.tries + 1 <= MaxTry
      BY <2>3, <1>0 DEF TooManyTries
    <3>2. Proper(s, 55, AppWindow, 5, s.tries + 1)
      BY <3>1, <1>0 DEF Proper, Windows, InitStates
    <3>3. InitCmd([s EXCEPT !.tries = s.tries + 1], 55, AppWindow, 5)
      BY <2>3
    <3> QED BY <3>2, <3>3, <1>4, Zenon
  <2> QED BY <1>16, <2>1, <2>2, <2>3
<1>17. CASE s.init = 7 /\ InitCmd(s, 9, CmdWindow, 8)
  <2>1. Proper(s, 9, CmdWindow, 8, s.tries)
    BY <1>0, <1>17 DEF Proper, Windows, InitStates
  <2> QED BY <2>1, <1>3, <1>17, Zenon
<1>18. CASE s.init = 8 /\ IF answered /\ Found(csd, FindDataStart(csd))
                      THEN Leaves([rest EXCEPT !.init = 9]) ELSE Quiet(Again(s))
  <2>1. CASE Leaves([rest EXCEPT !.init = 9])
    <3>1. sd' = Inits(rest, 9, s.tries) /\ card' \in Deselect(card)
      BY <2>1 DEF Leaves, Inits, SdRecord
    <3>2. 9 \in Parting /\ card.power = "ready"
      BY <1>0, <1>18 DEF Parting
    <3> QED BY <3>1, <3>2, <1>0, <1>2, Zenon
  <2> QED BY <1>18, <2>1, <1>6
<1>19. CASE s.init = 9 /\ Quiet([s EXCEPT !.init = 50, !.inited = TRUE, !.tries = 0])
  <2>1. /\ sd' = [s EXCEPT !.init = 50, !.inited = TRUE, !.tries = 0] /\ card' = card
        /\ 50 \in InitStates /\ 0 \in Nat
    BY <1>19 DEF Quiet, InitStates
  <2>2. sd' \in SdRecord
    BY <2>1 DEF SdRecord
  <2>3. sd'.init = 50 /\ sd'.inited /\ sd'.tries = 0 /\ sd'.win = s.win
    BY <2>1 DEF SdRecord
  <2>4. Stays(s)
    <3>1. /\ sd'.tr = s.tr /\ sd'.completed = s.completed /\ sd'.error = s.error /\ sd'.cur = s.cur
          /\ sd'.block = s.block /\ sd'.left = s.left /\ sd'.got = s.got /\ sd'.acked = s.acked
          /\ sd'.idx = s.idx
      BY <2>1 DEF SdRecord
    <3> QED BY <3>1, <2>1, <2>2, <1>0 DEF Stays
  <2>5. Listens(sd', card')
    <3>1. s.win = <<>> /\ card.out = <<>> /\ card.power = "ready" /\ card.mode = "listen"
      BY <1>19 DEF Rest, Initializes
    <3> QED BY <3>1, <2>1, <2>3, SMTT(30) DEF Listens
  <2> QED BY <2>3, <2>4, <2>5, StaysRest
<1>20. CASE s.init = 100 /\ Leaves([rest EXCEPT !.init = 101, !.tries = 0])
  <2>1. sd' = Inits(rest, 101, 0) /\ card' \in Deselect(card)
    BY <1>20 DEF Leaves, Inits, SdRecord
  <2>2. 101 \in Parting /\ 101 # 9 /\ 0 \in Nat /\ 0 <= MaxTry + 1
    BY DEF Parting
  <2> QED BY <2>1, <2>2, <1>2, Zenon
<1>21. CASE s.init = 101 /\ Quiet([s EXCEPT !.init = 0])
  <2>1. [s EXCEPT !.init = 0] = Inits(s, 0, s.tries)
    BY DEF Inits, SdRecord
  <2>2. Quiet(Inits(s, 0, s.tries)) /\ 0 \in {0, 2, 100}
    BY <2>1, <1>21
  <2> QED BY <2>2, <1>0, <1>1, Zenon
<1> HIDE DEF answered, csd, rest
<1> QED BY <1>10, <1>11, <1>12, <1>13, <1>14, <1>15, <1>16, <1>17, <1>18, <1>19, <1>20, <1>21
        DEF RunInitialization, answered, csd, rest

-----------------------------------------------------------------------------
(* The calls. *)

\* Each step of a transfer keeps the invariant, and means something to the users of
\* the card only while there is a transfer.
LEMMA Transferring ==
  ASSUME NEW s, Inv(s, card), s.inited, RunTransfer(s)
  PROVE  Inv(sd', card') /\ Effect(s) /\ (Keeps(s) \/ s.cur \in Requests)
<1>1. s \in SdRecord /\ card \in CardRecord /\ States(s, card)
  BY DEF Inv
<1>2. ASSUME InTransfer(s, card), Inv(sd', card'), Effect(s)
      PROVE  Inv(sd', card') /\ Effect(s) /\ (Keeps(s) \/ s.cur \in Requests)
  BY <1>2 DEF InTransfer
<1>3. ASSUME Inv(sd', card'), Keeps(s)
      PROVE  Inv(sd', card') /\ Effect(s) /\ (Keeps(s) \/ s.cur \in Requests)
  BY <1>3 DEF Effect
<1>4. CASE Rest(s, card)
  <2>1. s.tr \in {0, 1, 11}
    BY <1>4 DEF Rest
  <2>2. CASE s.tr = 0
    <3>1. sd' = s /\ card' = card
      BY <2>2 DEF RunTransfer, Quiet
    <3>2. Inv(sd', card') /\ Keeps(s)
      BY <3>1 DEF Keeps, Goes
    <3> QED BY <3>2, <1>3
  <2>3. CASE s.tr = 1
    <3>1. ReadStart(s)
      BY <2>3 DEF RunTransfer
    <3> QED BY <3>1, <2>3, <1>1, <1>3, <1>4, ReadOpens
  <2>4. CASE s.tr = 11
    <3>1. WriteStart(s)
      BY <2>4 DEF RunTransfer
    <3> QED BY <3>1, <2>4, <1>1, <1>3, <1>4, WritesOpen
  <2> QED BY <2>1, <2>2, <2>3, <2>4
<1>5. CASE ReadLook(s, card)
  <2>1. /\ s.tr \in {2, 3, 30, 33} /\ s.idx = 1 /\ ReadLooks(s, card)
        /\ Len(s.win) = IF s.tr \in {2, 30} THEN CmdWindow ELSE PollWindow
    BY <1>5 DEF ReadLook
  <2>2. InTransfer(s, card)
    BY <2>1 DEF ReadLooks, ReadTransfer
  <2>3. CASE s.tr \in {2, 30}
    <3>1. ReadResponse(s)
      BY <2>3 DEF RunTransfer
    <3> QED BY <3>1, <2>3, <2>2, <1>1, <1>2, <1>5, ReadResponds
  <2>4. CASE s.tr \in {3, 33}
    <3>1. ReadWait(s)
      BY <2>4 DEF RunTransfer
    <3>2. s.idx <= Len(s.win) + 1 /\ Len(s.win) - s.idx < BlockBytes
      BY <2>1, <2>4
    <3> QED BY <3>1, <3>2, <2>1, <2>2, <1>1, <1>2, ReadWaits
  <2> QED BY <2>1, <2>3, <2>4
<1>6. CASE ReadHas(s, card)
  <2>1. s.tr \in {5, 35}
    BY <1>6 DEF ReadHas
  <2>2. ReadCrc(s)
    BY <2>1 DEF RunTransfer
  <2> QED BY <2>2, <1>1, <1>3, <1>6, ReadsCrc
<1>7. CASE ReadMore(s, card)
  <2>1. s.tr = 36 /\ InTransfer(s, card)
    BY <1>7 DEF ReadMore, ReadTransfer
  <2>2. ReadNext(s)
    BY <2>1 DEF RunTransfer
  <2> QED BY <2>1, <2>2, <1>1, <1>2, <1>7, ReadsNext
<1>8. CASE ReadEnds(s, card)
  <2>1. s.tr \in {6, 37} /\ InTransfer(s, card)
    BY <1>8 DEF ReadEnds, ReadTransfer
  <2>2. FinishTransfer(s, "ok") \/ ReadStop(s)
    BY <2>1 DEF RunTransfer
  <2>3. FinishTransfer(s, "ok") \/ FinishTransfer(s, "read")
    BY <2>2 DEF ReadStop
  <2> QED BY <2>1, <2>3, <1>1, <1>2, <1>8, ReadsEnd
<1>9. CASE WriteOpens(s, card)
  <2>1. s.tr \in {12, 20} /\ InTransfer(s, card)
    BY <1>9 DEF WriteOpens, WriteTransfer
  <2>2. WriteResponse(s)
    BY <2>1 DEF RunTransfer
  <2> QED BY <2>1, <2>2, <1>1, <1>2, <1>9, WriteResponds
<1>10. CASE WriteOne(s, card)
  <2>1. s.tr \in {13, 14} /\ InTransfer(s, card)
    BY <1>10 DEF WriteOne, WriteTransfer
  <2>2. CASE s.tr = 13
    <3>1. WritePoll(s) /\ s.tr \in {13, 21}
      BY <2>2 DEF RunTransfer
    <3> QED BY <3>1, <1>1, <1>3, <1>10, WritesPoll
  <2>3. CASE s.tr = 14
    <3>1. WriteAck(s)
      BY <2>3 DEF RunTransfer
    <3> QED BY <3>1, <2>1, <2>3, <1>1, <1>2, <1>10, WritesAck
  <2> QED BY <2>1, <2>2, <2>3
<1>11. CASE WriteMany(s, card)
  <2>1. s.tr \in {21, 22} /\ InTransfer(s, card)
    BY <1>11 DEF WriteMany, WriteN, WriteTransfer
  <2>2. CASE s.tr = 21
    <3>1. WritePoll(s) /\ s.tr \in {13, 21}
      BY <2>2 DEF RunTransfer
    <3> QED BY <3>1, <1>1, <1>3, <1>11, WritesPoll
  <2>3. CASE s.tr = 22
    <3>1. WriteAckSeveral(s)
      BY <2>3 DEF RunTransfer
    <3> QED BY <3>1, <2>1, <2>3, <1>1, <1>2, <1>11, WritesAckSeveral
  <2> QED BY <2>1, <2>2, <2>3
<1>12. CASE WriteMore(s, card)
  <2>1. s.tr = 23 /\ s.idx = 1 /\ WriteLooks(s, card) /\ InTransfer(s, card)
    BY <1>12 DEF WriteMore, WriteLooks, WriteN, WriteTransfer
  <2>2. WriteNext(s)
    BY <2>1 DEF RunTransfer
  <2>3. s.tr \in {22, 23} /\ (s.acked => s.idx <= Len(s.win) + 1)
    BY <2>1, <1>1, SdFields
  <2>4. Inv(sd', card') /\ Effect(s)
    BY <2>1, <2>2, <2>3, <1>1, WritesNext DEF Effect
  <2> QED BY <2>1, <2>4, <1>2
<1>13. CASE WriteEnds(s, card)
  <2>1. s.tr \in {15, 25} /\ WriteWaits(s, card) /\ InTransfer(s, card)
    BY <1>13 DEF WriteEnds, WriteWaits, WriteTransfer
  <2>2. WriteBusy(s)
    BY <2>1 DEF RunTransfer
  <2>3. s.idx <= Len(s.win) + 1
    BY <1>13 DEF WriteEnds
  <2>4. Inv(sd', card') /\ Effect(s)
    BY <2>1, <2>2, <2>3, <1>1, WritesWait
  <2> QED BY <2>1, <2>4, <1>2
<1> QED BY <1>1, <1>4, <1>5, <1>6, <1>7, <1>8, <1>9, <1>10, <1>11, <1>12, <1>13 DEF States

\* Time that passes, and an error that is noted, do not matter.
Alike(t, s) ==
  /\ t \in SdRecord /\ t.tr = s.tr /\ t.init = s.init /\ t.inited = s.inited
  /\ t.completed = s.completed /\ t.cur = s.cur /\ t.block = s.block /\ t.left = s.left
  /\ t.tries = s.tries /\ t.win = s.win /\ t.idx = s.idx /\ t.got = s.got /\ t.acked = s.acked
\* They keep the invariant.
LEMMA AlikeInv ==
  ASSUME NEW s, Inv(s, card), NEW t, Alike(t, s)
  PROVE  Inv(t, card)
<1>1. s \in SdRecord /\ card \in CardRecord /\ States(s, card)
  BY DEF Inv
<1>2. t \in SdRecord
  BY DEF Alike
<1>3. /\ t.tr = s.tr /\ t.init = s.init /\ t.inited = s.inited /\ t.completed = s.completed
      /\ t.cur = s.cur /\ t.block = s.block
  BY DEF Alike
<1>4. /\ t.left = s.left /\ t.tries = s.tries /\ t.win = s.win /\ t.idx = s.idx
      /\ t.got = s.got /\ t.acked = s.acked
  BY DEF Alike
<1>5. Rest(s, card) => Rest(t, card)
  BY <1>3, <1>4 DEF Rest, Initializes, Listens
<1>6. InTransfer(s, card) => InTransfer(t, card)
  BY <1>3, <1>4 DEF InTransfer
<1>7. /\ \A n : ReadTransfer(s, card, n) => ReadTransfer(t, card, n)
      /\ WriteTransfer(s, card) => WriteTransfer(t, card)
      /\ \A n : StoredUpTo(s, card, n) => StoredUpTo(t, card, n)
  BY <1>3, <1>4, <1>6 DEF ReadTransfer, WriteTransfer, Got, StoredUpTo
<1>8. Kind(t) = Kind(s) /\ BlockOf(t) = BlockOf(s) /\ Sent(t) = Sent(s)
  BY <1>3, <1>4 DEF Kind, BlockOf, Sent
<1>9. /\ ReadLook(s, card) => ReadLook(t, card)
      /\ ReadHas(s, card) => ReadHas(t, card)
      /\ ReadMore(s, card) => ReadMore(t, card)
      /\ ReadEnds(s, card) => ReadEnds(t, card)
  BY <1>3, <1>4, <1>7, <1>8 DEF ReadLook, ReadLooks, ReadHas, ReadMore, ReadEnds
<1>10. /\ WriteOpens(s, card) => WriteOpens(t, card)
       /\ WriteOne(s, card) => WriteOne(t, card)
  BY <1>3, <1>4, <1>7 DEF WriteOpens, WriteOne
<1>11. \A n : AllSent(s, card, n) => AllSent(t, card, n)
  BY <1>3, <1>7 DEF AllSent
<1>12. WriteN(s, card) => WriteN(t, card)
  BY <1>3, <1>4, <1>7, <1>8 DEF WriteN
<1>13. /\ WriteMany(s, card) => WriteMany(t, card)
       /\ WriteMore(s, card) => WriteMore(t, card)
       /\ WriteEnds(s, card) => WriteEnds(t, card)
  BY <1>3, <1>4, <1>7, <1>8, <1>11, <1>12 DEF WriteMany, WriteMore, WriteLooks, WriteEnds, WriteWaits
<1>14. States(t, card)
  BY <1>1, <1>5, <1>9, <1>10, <1>13 DEF States
<1> QED BY <1>1, <1>2, <1>3, <1>4, <1>14 DEF Inv

\* The card that has stored what it got is no longer busy, and nothing else.
LEMMA RestsInv ==
  ASSUME Inv(sd, card), CardRests
  PROVE  Inv(sd', card') /\ Keeps(sd)
<1>1. sd \in SdRecord /\ card \in CardRecord /\ States(sd, card)
  BY DEF Inv
<1>2. card.busy /\ card' = [card EXCEPT !.busy = FALSE] /\ sd' = sd
  BY DEF CardRests
<1>3. /\ card' \in CardRecord /\ ~card'.busy /\ card'.disk = card.disk /\ card'.mode = card.mode
      /\ card'.power = card.power /\ card'.addr = card.addr /\ card'.out = card.out
  BY <1>1, <1>2 DEF CardRecord
<1>4. Rest(sd, card) => Rest(sd, card')
  BY <1>2, <1>3 DEF Rest, Initializes, Listens
<1>5. InTransfer(sd, card) => InTransfer(sd, card')
  BY <1>3 DEF InTransfer
<1>6. /\ \A n : ReadTransfer(sd, card, n) => ReadTransfer(sd, card', n)
      /\ WriteTransfer(sd, card) => WriteTransfer(sd, card')
      /\ \A n : StoredUpTo(sd, card, n) => StoredUpTo(sd, card', n)
  BY <1>3, <1>5 DEF ReadTransfer, WriteTransfer, Got, StoredUpTo
<1>7. \A w, i, o, kind, b : Coming(w, i, o, card, kind, b) => Coming(w, i, o, card', kind, b)
  BY <1>3 DEF Coming, Nothing, Something
<1>8. /\ ReadLook(sd, card) => ReadLook(sd, card')
      /\ ~ReadHas(sd, card) /\ ~ReadMore(sd, card) /\ ~ReadEnds(sd, card)
  BY <1>2, <1>3, <1>6, <1>7 DEF ReadLook, ReadLooks, ReadHas, ReadMore, ReadEnds
<1>9. \A w, i, o : Honest(w, i, o, card') /\ HonestAfter(w, o, card')
  BY <1>3 DEF Honest, HonestAfter
<1>10. /\ WriteOpens(sd, card) => WriteOpens(sd, card')
       /\ WriteOne(sd, card) => WriteOne(sd, card')
  BY <1>3, <1>6, <1>9 DEF WriteOpens, WriteOne
<1>11. \A n : AllSent(sd, card, n) => AllSent(sd, card', n)
  BY <1>3, <1>6 DEF AllSent
<1>12. WriteN(sd, card) => WriteN(sd, card')
  BY <1>3, <1>6 DEF WriteN
<1>13. /\ WriteMany(sd, card) => WriteMany(sd, card')
       /\ WriteMore(sd, card) => WriteMore(sd, card')
       /\ WriteEnds(sd, card) => WriteEnds(sd, card')
  BY <1>3, <1>6, <1>9, <1>11, <1>12
     DEF WriteMany, WriteMore, WriteLooks, WriteEnds, WriteWaits
<1>14. States(sd, card')
  BY <1>1, <1>4, <1>8, <1>10, <1>13 DEF States
<1> QED BY <1>1, <1>2, <1>3, <1>14 DEF Inv, Keeps, Goes

\* A client starts a transfer only between two of them.
LEMMA CompletedRests ==
  ASSUME Inv(sd, card), sd.completed
  PROVE  Rest(sd, card) /\ sd.tr = 0
<1>1. ~InTransfer(sd, card)
  BY DEF InTransfer
<1>2. \A n : ~ReadTransfer(sd, card, n)
  BY <1>1 DEF ReadTransfer
<1>3. ~WriteTransfer(sd, card)
  BY <1>1 DEF WriteTransfer
<1>4. ~ReadLook(sd, card) /\ ~ReadHas(sd, card) /\ ~ReadMore(sd, card) /\ ~ReadEnds(sd, card)
  BY <1>2 DEF ReadLook, ReadLooks, ReadHas, ReadMore, ReadEnds
<1>5. ~WriteOpens(sd, card) /\ ~WriteOne(sd, card) /\ ~WriteMany(sd, card) /\ ~WriteMore(sd, card)
      /\ ~WriteEnds(sd, card)
  BY <1>3 DEF WriteOpens, WriteOne, WriteMany, WriteMore, WriteEnds, WriteLooks, WriteWaits, WriteN
<1>6. Rest(sd, card)
  BY <1>4, <1>5 DEF Inv, States
<1> QED BY <1>6 DEF Rest

\* The start of a transfer.
LEMMA Starting ==
  ASSUME Inv(sd, card), NEW rq \in Requests, Start(rq)
  PROVE  Inv(sd', card') /\ Card!Start(rq) /\ ~sd'.completed
<1> DEFINE tr == IF rq.write THEN 11 ELSE 1
           start == rq.start
           count == rq.count
           s == [sd EXCEPT !.cur = rq, !.block = start, !.left = count, !.error = "ok",
                           !.completed = FALSE, !.tr = tr]
<1>1. sd \in SdRecord /\ card \in CardRecord /\ sd.completed /\ Rest(sd, card) /\ sd.tr = 0
  BY CompletedRests DEF Inv, Start
<1>2. tr \in TrStates /\ start \in Card!Block /\ count \in 0 .. NBlocks /\ rq \in Card!Request
      /\ tr \in {1, 11} /\ (rq.write <=> tr = 11)
  BY RequestFits DEF TrStates
<1>3. \/ RunMachine(s)
      \/ ~sd.inited /\ Quiet(s)
  BY DEF Start
<1> HIDE DEF tr, start, count
<1>4. s \in SdRecord
  BY <1>1, <1>2 DEF SdRecord
<1>5. /\ s.tr = tr /\ s.cur = rq /\ s.block = start /\ s.left = count /\ s.error = "ok"
      /\ s.completed = FALSE
  BY <1>1 DEF SdRecord
<1>6. /\ s.init = sd.init /\ s.inited = sd.inited /\ s.tries = sd.tries /\ s.win = sd.win
      /\ s.idx = sd.idx /\ s.got = sd.got /\ s.acked = sd.acked
  BY <1>1 DEF SdRecord
<1> HIDE DEF s
<1>7. Rest(s, card)
  <2>1. s.cur.start = start /\ s.cur.count = count /\ (s.cur.write <=> s.tr = 11) /\ s.tr # 0
    BY <1>2, <1>5 DEF start, count
  <2>2. IF s.inited THEN Listens(s, card) ELSE Initializes(s, card)
    BY <1>1, <1>6 DEF Rest, Listens, Initializes
  <2>3. s.idx = 1 /\ s.acked /\ s.got = <<>>
    BY <1>1, <1>6 DEF Rest
  <2> QED BY <2>1, <2>2, <2>3, <1>2, <1>5 DEF Rest
<1>8. Inv(s, card)
  BY <1>1, <1>4, <1>7 DEF Inv, States
<1>9. Inv(sd', card') /\ Keeps(s)
  <2>1. CASE Quiet(s)
    <3>1. sd' = s /\ card' = card
      BY <2>1 DEF Quiet
    <3> QED BY <3>1, <1>8 DEF Keeps, Goes
  <2>2. CASE ~s.inited /\ RunInitialization(s)
    BY <2>2, <1>1, <1>4, <1>7, Initializing
  <2>3. CASE s.inited /\ RunTransfer(s)
    <3>1. CASE s.tr = 1
      <4>1. ReadStart(s)
        BY <2>3, <3>1 DEF RunTransfer
      <4> QED BY <4>1, <2>3, <3>1, <1>1, <1>4, <1>7, ReadOpens
    <3>2. CASE s.tr = 11
      <4>1. WriteStart(s)
        BY <2>3, <3>2 DEF RunTransfer
      <4> QED BY <4>1, <2>3, <3>2, <1>1, <1>4, <1>7, WritesOpen
    <3> QED BY <3>1, <3>2, <1>2, <1>5
  <2> QED BY <2>1, <2>2, <2>3, <1>3 DEF RunMachine
<1>10. sd.cur = Card!NoRequest
  BY <1>1 DEF Rest
<1>11. /\ sd'.cur = rq /\ ~sd'.completed /\ card'.disk = card.disk
       /\ sd'.got = sd.got /\ sd'.acked = sd.acked
  BY <1>5, <1>6, <1>9 DEF Keeps, Goes
<1> QED BY <1>9, <1>10, <1>11 DEF Card!Start

\* A call of Run.
LEMMA Running ==
  ASSUME Inv(sd, card), NEW late \in BOOLEAN, Run(late)
  PROVE  Inv(sd', card') /\ Effect(sd) /\ (Keeps(sd) \/ sd.cur \in Requests)
<1> DEFINE s == [sd EXCEPT !.expired = @ \/ late]
<1>1. sd \in SdRecord /\ card \in CardRecord
  BY DEF Inv
<1>3. RunMachine(s)
  BY DEF Run
<1>4. /\ Inv(s, card) /\ s.inited = sd.inited /\ s.cur = sd.cur /\ s.completed = sd.completed
      /\ s.got = sd.got /\ s.acked = sd.acked /\ s.error = sd.error
  <2>1. s \in SdRecord /\ s.error = sd.error
    BY <1>1 DEF SdRecord
  <2>2. Alike(s, sd)
    BY <1>1, <2>1 DEF SdRecord, Alike
  <2> HIDE DEF s
  <2>3. Inv(s, card)
    BY <2>2, AlikeInv
  <2> QED BY <2>1, <2>2, <2>3 DEF Alike
<1> HIDE DEF s
<1>5. Inv(sd', card') /\ Effect(s) /\ (Keeps(s) \/ s.cur \in Requests)
  <2>1. CASE s.inited /\ RunTransfer(s)
    BY <2>1, <1>4, Transferring
  <2>2. CASE ~s.inited /\ RunInitialization(s)
    <3>1. ~InTransfer(s, card)
      BY <2>2 DEF InTransfer
    <3>2. Rest(s, card)
      BY <3>1, <1>4 DEF Inv, States, ReadLook, ReadLooks, ReadHas, ReadMore, ReadEnds, ReadTransfer,
                        WriteOpens, WriteOne, WriteMany, WriteMore, WriteEnds, WriteLooks, WriteWaits,
                        WriteN, WriteTransfer
    <3>3. Inv(sd', card') /\ Keeps(s)
      BY <3>2, <2>2, <1>4, Initializing DEF Inv
    <3> QED BY <3>3 DEF Effect
  <2> QED BY <2>1, <2>2, <1>3 DEF RunMachine
<1>6. Effect(sd)
  BY <1>4, <1>5, EffectSame
<1>7. Keeps(s) => Keeps(sd)
  BY <1>4 DEF Keeps, Goes
<1> QED BY <1>4, <1>5, <1>6, <1>7

\* There is a transfer in every state but those between two of them.
LEMMA Transfers ==
  ASSUME NEW s, NEW c, Inv(s, c)
  PROVE  Rest(s, c) \/ InTransfer(s, c)
BY DEF Inv, States, ReadLook, ReadLooks, ReadHas, ReadMore, ReadEnds, ReadTransfer,
       WriteOpens, WriteOne, WriteMany, WriteMore, WriteEnds, WriteLooks, WriteWaits,
       WriteN, WriteTransfer

-----------------------------------------------------------------------------
(* The theorems. *)

SdInv == Inv(sd, card)

\* The invariant holds when the power comes on.
LEMMA SdInvInit ==
  ASSUME Init
  PROVE  SdInv
<1> DEFINE none == Card!NoRequest
           disk == [b \in Card!Block |-> Card!Original(b)]
<1>1. /\ none \in Card!Request \cup {Card!NoRequest} /\ disk \in [Card!Block -> Card!Content]
      /\ 0 \in Card!Block /\ 0 \in 0 .. NBlocks /\ 0 \in TrStates /\ 0 \in InitStates
      /\ 0 \in Nat /\ 1 \in Nat \ {0} /\ <<>> \in Seq(ByteType) /\ <<>> \in Seq(MovedByte)
  BY DEF Card!Block, Card!Original, Card!Content, TrStates, InitStates
<1>2. /\ sd = [tr |-> 0, init |-> 0, inited |-> FALSE, completed |-> TRUE, error |-> "ok",
               cur |-> none, block |-> 0, left |-> 0, tries |-> 0,
               win |-> <<>>, idx |-> 1, expired |-> FALSE, got |-> <<>>, acked |-> TRUE]
      /\ card = [disk |-> disk, mode |-> "listen", power |-> "off",
                 busy |-> FALSE, addr |-> 0, out |-> <<>>]
  BY DEF Init
<1> HIDE DEF none, disk
<1>3. sd \in SdRecord
  BY ONLY <1>1, <1>2 DEF SdRecord
<1>4. card \in CardRecord
  BY ONLY <1>1, <1>2 DEF CardRecord
<1>5. Initializes(sd, card)
  <2>1. card.mode = "listen" /\ ~card.busy /\ sd.init = 0 /\ sd.tries = 0 /\ sd.win = <<>>
    BY <1>2
  <2>2. Len(sd.win) = 0
    BY <2>1
  <2> QED BY <2>1, <2>2 DEF Initializes
<1>6. Rest(sd, card)
  <2>1. /\ sd.tr = 0 /\ sd.idx = 1 /\ sd.acked /\ sd.got = <<>> /\ sd.completed
        /\ sd.cur = none /\ sd.block = 0 /\ sd.left = 0 /\ ~sd.inited
    BY <1>2
  <2> QED BY <2>1, <1>5 DEF Rest, none
<1> QED BY <1>3, <1>4, <1>6 DEF SdInv, Inv, States

\* Every step keeps it, and is a step of the card that its users see, or none.
LEMMA SdInvNext ==
  ASSUME SdInv, [Next]_vars
  PROVE  /\ SdInv'
         /\ \/ Effect(sd) /\ (Keeps(sd) \/ sd.cur \in Requests)
            \/ \E rq \in Requests : Card!Start(rq) /\ ~sd'.completed
            \/ StartRefused
<1>1. CASE UNCHANGED vars
  BY <1>1 DEF vars, SdInv, Keeps, Goes, Effect
<1>2. ASSUME NEW late \in BOOLEAN, Run(late)
      PROVE  SdInv' /\ Effect(sd) /\ (Keeps(sd) \/ sd.cur \in Requests)
  BY <1>2, Running DEF SdInv
<1>3. ASSUME NEW rq \in Requests, Start(rq)
      PROVE  SdInv' /\ Card!Start(rq) /\ ~sd'.completed
  BY <1>3, Starting DEF SdInv
<1>4. CASE StartRefused
  <2>1. sd \in SdRecord /\ Inv(sd, card)
    BY DEF SdInv, Inv
  <2>2. sd' = [sd EXCEPT !.error = "busy"] /\ card' = card
    BY <1>4 DEF StartRefused
  <2>3. sd' \in SdRecord
    BY <2>1, <2>2 DEF SdRecord
  <2>4. Alike(sd', sd)
    BY <2>1, <2>2, <2>3 DEF SdRecord, Alike
  <2>5. Inv(sd', card)
    BY <2>1, <2>4, AlikeInv
  <2> QED BY <1>4, <2>2, <2>5 DEF SdInv
<1>5. CASE CardRests
  BY <1>5, RestsInv DEF SdInv, Effect
<1> QED BY <1>1, <1>2, <1>3, <1>4, <1>5 DEF Next

\* The invariant of the machine and its card holds always.
THEOREM InvariantHolds == Spec => []SdInv
<1>1. Init => SdInv
  BY SdInvInit
<1>2. SdInv /\ [Next]_vars => SdInv'
  BY SdInvNext
<1> QED BY <1>1, <1>2, PTL DEF Spec

\* Every step of the machine is one of the card its users see: what was read grows by
\* the right bytes, only the blocks of the transfer are written, and a transfer that
\* succeeds has moved them all.
LEMMA StepsAsCard ==
  ASSUME SdInv, [Next]_vars
  PROVE  [Card!Next]_(Card!vars)
<1>1. CASE \E rq \in Requests : Card!Start(rq)
  BY <1>1 DEF Card!Next
<1>2. CASE StartRefused
  <2>1. sd \in SdRecord /\ ~sd.completed
    BY <1>2 DEF StartRefused, SdInv, Inv
  <2>2. sd'.got = sd.got /\ sd'.cur = sd.cur /\ sd'.completed = sd.completed /\ sd'.acked = sd.acked
        /\ card' = card
    BY <1>2, <2>1 DEF StartRefused, SdRecord
  <2> QED BY <2>1, <2>2 DEF Card!vars
<1>3. CASE Keeps(sd)
  BY <1>3 DEF Keeps, Goes, Card!vars
<1>4. ASSUME sd.cur \in Requests, Reads(sd)
      PROVE  Card!MoveRead
  <2>1. Card!IsPrefix(sd.got, sd'.got) /\ Card!IsPrefix(sd'.got, Card!BytesOf(sd.cur, card.disk))
    BY <1>4 DEF Reads, IsPrefix, Card!IsPrefix
  <2> QED BY <2>1, <1>4, RequestFits DEF Reads, Goes, Card!MoveRead
<1>5. ASSUME sd.cur \in Requests, Writes(sd)
      PROVE  Card!MoveWrite
  BY <1>5, RequestFits DEF Writes, Goes, Card!MoveWrite
<1>6. ASSUME sd.cur \in Requests, Finishes(sd)
      PROVE  Card!End
  BY <1>6, RequestFits DEF Finishes, Done, Card!End
<1> QED BY <1>1, <1>2, <1>3, <1>4, <1>5, <1>6, SdInvNext DEF Effect, Card!Next

\* ImplementsCard: TSdCardSpi is the card that the users of TSdCard see, whatever windows
\* the bytes come in and wherever in them.
THEOREM SpiImplementsCard == Spec => ImplementsCard
<1>1. Init => Card!Init
  BY DEF Init, Card!Init
<1>2. SdInv /\ [Next]_vars => [Card!Next]_(Card!vars)
  BY StepsAsCard
<1> QED BY <1>1, <1>2, InvariantHolds, PTL DEF Spec, ImplementsCard, Card!Spec

\* LeavesListening: after a transfer that succeeded, with every block acknowledged, the
\* card is not busy, and not in the middle of a transfer.
THEOREM SuccessLeavesListening == Spec => LeavesListening
<1>1. ASSUME SdInv, [Next]_vars, Succeeds, sd.acked
      PROVE  card.mode = "listen" /\ ~card.busy
  <2>1. ~sd.completed /\ sd'.completed /\ sd'.error = "ok"
    BY <1>1 DEF Succeeds, Ends
  <2>2. ~StartRefused
    <3>1. sd \in SdRecord
      BY <1>1 DEF SdInv, Inv
    <3> QED BY <3>1, <2>1 DEF StartRefused, SdRecord
  <2>3. Effect(sd)
    BY <1>1, <2>1, <2>2, SdInvNext
  <2>4. Finishes(sd)
    BY <2>1, <2>3 DEF Effect, Keeps, Reads, Writes, Goes
  <2> QED BY <1>1, <2>1, <2>4 DEF Finishes, Done
<1>2. SdInv /\ [Next]_vars => [Succeeds /\ sd.acked => card.mode = "listen" /\ ~card.busy]_vars
  BY <1>1
<1> QED BY <1>2, InvariantHolds, PTL DEF Spec, LeavesListening

\* What a call of Run sends in the middle of a transfer, the card waits for.
LEMMA RunSends ==
  ASSUME SdInv, NEW late \in BOOLEAN, Run(late), sd.acked
  PROVE  /\ sd.tr \in {22, 23} /\ sd'.tr \in {21, 25} => AwaitsNext(sd, card)
         /\ sd.tr = 36 => card.mode = "readN"
<1> DEFINE s == [sd EXCEPT !.expired = @ \/ late]
<1>1. sd \in SdRecord /\ card \in CardRecord
  BY DEF SdInv, Inv
<1>2. RunMachine(s)
  BY DEF Run
<1>3. Alike(s, sd) /\ s \in SdRecord /\ s.acked
  BY <1>1 DEF SdRecord, Alike
<1> HIDE DEF s
<1>4. s.tr = sd.tr /\ s.cur = sd.cur /\ s.left = sd.left /\ States(s, card)
  BY <1>3, AlikeInv DEF SdInv, Inv, Alike
<1>5. CASE s.tr = 36
  <2>1. ReadMore(s, card)
    BY <1>4, <1>5 DEF States, Rest, ReadLook, ReadHas, ReadEnds, WriteOpens, WriteOne, WriteMany,
                      WriteMore, WriteEnds
  <2> QED BY <2>1, <1>4, <1>5 DEF ReadMore
<1>6. CASE s.tr = 22
  <2>1. WriteMany(s, card)
    BY <1>4, <1>6 DEF States, Rest, ReadLook, ReadHas, ReadMore, ReadEnds, WriteOpens, WriteOne,
                      WriteMore, WriteEnds
  <2>2. s.inited
    BY <2>1 DEF WriteMany, WriteN, WriteTransfer, InTransfer
  <2>3. WriteAckSeveral(s)
    BY <2>2, <1>2, <1>6 DEF RunMachine, RunTransfer
  <2>4. sd'.tr \in {21, 25} => AwaitsNext(s, card)
    BY <2>1, <2>3, <1>1, <1>3, <1>6, WritesAckSeveral
  <2> QED BY <2>4, <1>4, <1>6 DEF AwaitsNext
<1>7. CASE s.tr = 23
  <2>1. WriteMore(s, card)
    BY <1>4, <1>7 DEF States, Rest, ReadLook, ReadHas, ReadMore, ReadEnds, WriteOpens, WriteOne,
                      WriteMany, WriteEnds
  <2>2. s.inited /\ WriteLooks(s, card) /\ s.idx <= Len(s.win) + 1
    BY <2>1, Sizes DEF WriteMore, WriteLooks, WriteN, WriteTransfer, InTransfer
  <2>3. WriteNext(s)
    BY <2>2, <1>2, <1>7 DEF RunMachine, RunTransfer
  <2>4. sd'.tr \in {21, 25} => AwaitsNext(s, card)
    BY <2>2, <2>3, <1>1, <1>3, <1>7, WritesNext
  <2> QED BY <2>4, <1>4, <1>7 DEF AwaitsNext
<1> QED BY <1>4, <1>5, <1>6, <1>7

\* SentWhenAwaited: the next block, the stop token and CMD12 reach a card that waits for
\* them, wherever in the windows the answers and the busy signal came.
THEOREM AwaitedWhenSent == Spec => SentWhenAwaited
<1> DEFINE Awaited ==
      sd.acked =>
        /\ sd.tr \in {22, 23} /\ sd'.tr \in {21, 25} => AwaitsNext(sd, card)
        /\ sd.tr = 36 /\ sd'.tr = 37 => card.mode = "readN"
<1>1. SdInv /\ [Next]_vars => [Awaited]_vars
  <2> SUFFICES ASSUME SdInv, [Next]_vars, sd.acked, sd' # sd PROVE Awaited
    BY DEF vars
  <2>1. ASSUME NEW late \in BOOLEAN, Run(late) PROVE Awaited
    BY <2>1, RunSends
  <2>2. ASSUME NEW rq \in Requests, Start(rq) PROVE Awaited
    <3>1. sd.tr = 0
      BY <2>2, CompletedRests DEF SdInv, Start
    <3> QED BY <3>1
  <2>3. CASE StartRefused
    <3>1. sd'.tr = sd.tr
      BY <2>3 DEF StartRefused, SdInv, Inv, SdRecord
    <3> QED BY <3>1
  <2>4. CASE CardRests \/ UNCHANGED vars
    <3>1. sd' = sd
      BY <2>4 DEF CardRests, vars
    <3> QED BY <3>1
  <2> QED BY <2>1, <2>2, <2>3, <2>4 DEF Next
<1> QED BY <1>1, InvariantHolds, PTL DEF Spec, SentWhenAwaited

\* UsedWhenReady: the machine works with the card when it has left the idle state.
THEOREM ReadyWhenUsed == Spec => []UsedWhenReady
<1>1. ASSUME SdInv PROVE UsedWhenReady
  <2>1. CASE Rest(sd, card)
    BY <2>1 DEF Rest, Listens, UsedWhenReady
  <2>2. CASE InTransfer(sd, card)
    BY <2>2 DEF InTransfer, UsedWhenReady
  <2>3. Rest(sd, card) \/ InTransfer(sd, card)
    BY <1>1, Transfers DEF SdInv
  <2> QED BY <2>1, <2>2, <2>3
<1> QED BY <1>1, InvariantHolds, PTL

\* A set of numbers has a greatest one.
HasMax(S) == \E x \in S : \A y \in S : x >= y
\* One more number keeps that.
LEMMA HasMaxMore ==
  ASSUME NEW S \in SUBSET Nat, HasMax(S), NEW a \in Nat
  PROVE  S \cup {a} \in SUBSET Nat /\ HasMax(S \cup {a})
<1>1. PICK x \in S : \A y \in S : x >= y
  BY DEF HasMax
<1>2. CASE x >= a
  BY <1>1, <1>2 DEF HasMax
<1>3. CASE a >= x
  <2>1. \A y \in S : a >= y
    BY <1>1, <1>3
  <2> QED BY <2>1 DEF HasMax
<1> QED BY <1>1, <1>2, <1>3

\* The greatest one is at least as great as the others.
LEMMA MaxBounds ==
  ASSUME NEW S \in SUBSET Nat, HasMax(S)
  PROVE  Max(S) \in Nat /\ \A y \in S : y <= Max(S)
<1>1. Max(S) \in S /\ \A y \in S : Max(S) >= y
  BY DEF Max, HasMax
<1> QED BY <1>1

\* The bounds of the tries and of the windows.
LEMMA Bounds ==
  /\ Max({MaxTry + 1, MaxUnacked}) \in Nat
  /\ MaxTry + 1 <= Max({MaxTry + 1, MaxUnacked}) /\ MaxUnacked <= Max({MaxTry + 1, MaxUnacked})
  /\ Max(Windows) \in Nat /\ 3 <= Max(Windows)
<1>1. \A a \in Nat : {a} \in SUBSET Nat /\ HasMax({a})
  BY DEF HasMax
<1>2. HasMax({MaxTry + 1, MaxUnacked})
  <2> DEFINE a == MaxTry + 1
  <2>1. a \in Nat
    OBVIOUS
  <2> HIDE DEF a
  <2>2. HasMax({a} \cup {MaxUnacked})
    BY <2>1, <1>1, HasMaxMore
  <2>3. {a} \cup {MaxUnacked} = {a, MaxUnacked}
    OBVIOUS
  <2> QED BY <2>2, <2>3 DEF a
<1>3. Windows \in SUBSET Nat /\ HasMax(Windows)
  <2> DEFINE a == {CmdWindow}
             b == a \cup {AnswerWindow}
             c == b \cup {AppWindow}
             d == c \cup {PollWindow}
             e == d \cup {CrcWindow}
             f == e \cup {NextWindow}
             g == f \cup {StopWindow}
  <2>1. a \in SUBSET Nat /\ HasMax(a)
    BY <1>1
  <2>2. b \in SUBSET Nat /\ HasMax(b)
    BY <2>1, HasMaxMore
  <2>3. c \in SUBSET Nat /\ HasMax(c)
    <3> HIDE DEF b
    <3> QED BY <2>2, HasMaxMore
  <2>4. d \in SUBSET Nat /\ HasMax(d)
    <3> HIDE DEF c
    <3> QED BY <2>3, HasMaxMore
  <2>5. e \in SUBSET Nat /\ HasMax(e)
    <3> HIDE DEF d
    <3> QED BY <2>4, HasMaxMore
  <2>6. f \in SUBSET Nat /\ HasMax(f)
    <3> HIDE DEF e
    <3> QED BY <2>5, HasMaxMore
  <2>7. g \in SUBSET Nat /\ HasMax(g)
    <3> HIDE DEF f
    <3> QED BY <2>6, HasMaxMore
  <2>8. Windows = g
    BY DEF Windows
  <2> HIDE DEF g
  <2> QED BY <2>7, <2>8
<1>4. \A y \in Windows : y <= Max(Windows)
  BY <1>3, MaxBounds
<1>5. PollWindow <= Max(Windows) /\ Max(Windows) \in Nat
  BY <1>3, <1>4, MaxBounds DEF Windows
<1>6. {MaxTry + 1, MaxUnacked} \in SUBSET Nat
  OBVIOUS
<1>7. /\ Max({MaxTry + 1, MaxUnacked}) \in Nat
      /\ \A y \in {MaxTry + 1, MaxUnacked} : y <= Max({MaxTry + 1, MaxUnacked})
  BY <1>2, <1>6, MaxBounds
<1> QED BY <1>5, <1>7

\* The window, its index and what was read, in every state.
LEMMA Sized ==
  ASSUME NEW s, NEW c, Inv(s, c)
  PROVE  /\ Len(s.win) \in Windows \cup {0} /\ s.idx \in {1, 3}
         /\ Len(s.got) <= s.cur.count * BlockBytes
         /\ s.tries <= MaxTry + 1 \/ s.tries <= MaxUnacked
<1>1. s \in SdRecord /\ c \in CardRecord
  BY DEF Inv
<1>2. {CmdWindow, AnswerWindow, PollWindow, NextWindow} \subseteq Windows
  BY DEF Windows
<1>3. Len(<<>>) = 0
  OBVIOUS
<1>4. s.tries <= MaxTry + 1 \/ s.tries <= MaxUnacked
  <2>1. CASE Rest(s, c)
    <3>1. Listens(s, c) \/ Initializes(s, c)
      BY <2>1 DEF Rest
    <3>2. CASE Listens(s, c)
      BY <3>2 DEF Listens
    <3>3. CASE Initializes(s, c)
      <4>1. s.tries \in Nat
        BY <1>1, SdFields
      <4> QED BY <3>3, <4>1 DEF Initializes
    <3> QED BY <3>1, <3>2, <3>3
  <2>2. CASE InTransfer(s, c)
    BY <2>2 DEF InTransfer
  <2> QED BY <2>1, <2>2, Transfers
<1>5. ASSUME NEW n, ReadTransfer(s, c, n) PROVE Len(s.got) <= s.cur.count * BlockBytes
  <2>1. s.cur \in Requests /\ n \in 0 .. s.cur.count /\ Got(s, c, n)
    BY <1>5 DEF ReadTransfer, InTransfer
  <2> QED BY <2>1, <1>1, GotPrefix
<1>6. ASSUME s.got = <<>> PROVE Len(s.got) <= s.cur.count * BlockBytes
  <2>1. s.cur.count \in Nat
    BY <1>1, SdFields DEF Card!Request, Card!NoRequest
  <2>2. s.cur.count * BlockBytes \in Nat
    BY <2>1
  <2> QED BY <2>2, <1>3, <1>6
<1>7. ASSUME WriteTransfer(s, c) PROVE Len(s.got) <= s.cur.count * BlockBytes
  BY <1>6, <1>7 DEF WriteTransfer
<1>8. CASE Rest(s, c)
  <2>1. s.idx = 1 /\ s.got = <<>> /\ (Listens(s, c) \/ Initializes(s, c))
    BY <1>8 DEF Rest
  <2>2. Len(s.win) \in Windows \cup {0}
    BY <2>1, <1>3 DEF Listens, Initializes
  <2> QED BY <2>1, <2>2, <1>4, <1>6
<1>9. CASE ReadLook(s, c)
  BY <1>9, <1>2, <1>4, <1>5 DEF ReadLook, ReadLooks
<1>10. CASE ReadHas(s, c)
  BY <1>10, <1>3, <1>4, <1>5 DEF ReadHas
<1>11. CASE ReadMore(s, c)
  BY <1>11, <1>2, <1>4, <1>5 DEF ReadMore
<1>12. CASE ReadEnds(s, c)
  BY <1>12, <1>4, <1>5 DEF ReadEnds
<1>13. CASE WriteOpens(s, c)
  BY <1>13, <1>2, <1>4, <1>7 DEF WriteOpens
<1>14. CASE WriteOne(s, c)
  BY <1>14, <1>2, <1>4, <1>7 DEF WriteOne
<1>15. CASE WriteMany(s, c)
  BY <1>15, <1>2, <1>4, <1>7 DEF WriteMany, WriteN
<1>16. CASE WriteMore(s, c)
  BY <1>16, <1>2, <1>4, <1>7 DEF WriteMore, WriteLooks, WriteN
<1>17. CASE WriteEnds(s, c)
  BY <1>17, <1>2, <1>4, <1>7 DEF WriteEnds, WriteWaits
<1> QED BY <1>8, <1>9, <1>10, <1>11, <1>12, <1>13, <1>14, <1>15, <1>16, <1>17 DEF Inv, States

\* TypeOK: every member and what is known of the card has its type, the windows are as
\* long as the machine's arrays hold, and no more is read than was asked for.
THEOREM SpiTypeCorrect == Spec => []TypeOK
<1>1. ASSUME SdInv PROVE TypeOK
  <2>1. sd \in SdRecord /\ card \in CardRecord /\ Inv(sd, card)
    BY <1>1 DEF SdInv, Inv
  <2>2. /\ sd.tr \in {0, 1, 2, 3, 5, 6, 11, 12, 13, 14, 15, 20, 21, 22, 23, 25, 30, 33, 35, 36, 37}
        /\ sd.init \in (0 .. 9) \cup {50, 100, 101}
    BY <2>1 DEF SdRecord, TrStates, InitStates
  <2>3. /\ sd.inited \in BOOLEAN /\ sd.completed \in BOOLEAN /\ sd.expired \in BOOLEAN
        /\ sd.acked \in BOOLEAN /\ sd.error \in {"ok", "read", "write", "timeout", "busy"}
        /\ sd.cur \in Card!Request \cup {Card!NoRequest}
        /\ sd.block \in Card!Block /\ sd.left \in 0 .. NBlocks /\ sd.win \in Seq(ByteType)
        /\ sd.tries \in Nat
    BY <2>1 DEF SdRecord
  <2>4. /\ card.disk \in [Card!Block -> Card!Content] /\ card.addr \in 0 .. NBlocks
        /\ card.mode \in {"listen", "read1", "readN", "write1", "writeN", "refuse", "lost"}
        /\ card.power \in {"off", "idle", "ready"} /\ card.busy \in BOOLEAN
        /\ card.out \in Seq(ByteType)
    BY <2>1 DEF CardRecord
  <2>5. /\ Len(sd.win) \in Windows \cup {0} /\ sd.idx \in {1, 3}
        /\ Len(sd.got) <= sd.cur.count * BlockBytes
        /\ sd.tries <= MaxTry + 1 \/ sd.tries <= MaxUnacked
    BY <2>1, Sized
  <2>6. sd.tries \in 0 .. Max({MaxTry + 1, MaxUnacked})
    BY <2>3, <2>5, Bounds
  <2>7. sd.idx \in 1 .. Max(Windows) + 1
    BY <2>5, Bounds
  <2> QED BY <2>2, <2>3, <2>4, <2>5, <2>6, <2>7 DEF TypeOK
<1> QED BY <1>1, InvariantHolds, PTL
=============================================================================
