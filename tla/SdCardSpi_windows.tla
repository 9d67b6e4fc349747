-------------------------- MODULE SdCardSpi_windows --------------------------
(***************************************************************************)
(* Lemmas about the bytes between the machine of SdCardSpi and its card:   *)
(* what a window of any size shows of what the card sends, where a block   *)
(* comes, and what is left to come behind the window.                      *)
(***************************************************************************)
EXTENDS SdCardSpi, SequenceTheorems, TLAPS

\* The parameters are numbers, related as the code's are.
LEMMA Sizes ==
  /\ NBlocks \in Nat /\ NBlocks > 0
  /\ BlockBytes \in Nat /\ BlockBytes > 3
  /\ CmdWindow \in Nat /\ CmdWindow > 0 /\ BlockBytes > CmdWindow - 2
  /\ AnswerWindow \in Nat /\ AnswerWindow > 0
  /\ AppWindow \in Nat /\ AppWindow > 0
  /\ PollWindow \in Nat /\ PollWindow > 3 /\ BlockBytes >= PollWindow
  /\ CrcWindow \in Nat /\ CrcWindow > 1
  /\ NextWindow \in Nat /\ NextWindow > 1 /\ BlockBytes > NextWindow - 3
  /\ StopWindow \in Nat /\ StopWindow >= PollWindow
  /\ MaxTry \in Nat /\ MaxTry > 0 /\ MaxUnacked \in Nat /\ MaxUnacked > 0 /\ MaxGap \in Nat
BY WindowAssumption, BlockAssumption

USE Sizes
-----------------------------------------------------------------------------
(* Types. *)

TrStates   == {0, 1, 2, 3, 5, 6, 11, 12, 13, 14, 15, 20, 21, 22, 23, 25, 30, 33, 35, 36, 37}
InitStates == (0 .. 9) \cup {50, 100, 101}
MovedByte  == [of : Card!Content \cup {0}, at : 0 .. BlockBytes]

\* The members of TSdCardSpi and the card, as records.
SdRecord ==
  [tr : TrStates, init : InitStates, inited : BOOLEAN, completed : BOOLEAN,
   error : {"ok", "read", "write", "timeout", "busy"},
   cur : Card!Request \cup {Card!NoRequest}, block : Card!Block, left : 0 .. NBlocks,
   tries : Nat, win : Seq(ByteType), idx : Nat \ {0}, expired : BOOLEAN,
   got : Seq(MovedByte), acked : BOOLEAN]
CardRecord ==
  [disk : [Card!Block -> Card!Content],
   mode : {"listen", "read1", "readN", "write1", "writeN", "refuse", "lost"},
   power : {"off", "idle", "ready"}, busy : BOOLEAN, addr : 0 .. NBlocks, out : Seq(ByteType)]

\* The places of a concatenation u of s and t.
Joined(u, s, t) ==
  /\ Len(u) = Len(s) + Len(t)
  /\ \A p \in 1 .. Len(s) : u[p] = s[p]
  /\ \A k \in 1 .. Len(t) : u[Len(s) + k] = t[k]

\* A concatenation by its places.
LEMMA Concat ==
  ASSUME NEW S, NEW s \in Seq(S), NEW t \in Seq(S)
  PROVE  s \o t \in Seq(S) /\ Joined(s \o t, s, t)
<1>1. Len(s) \in Nat /\ Len(t) \in Nat
  OBVIOUS
<1>2. /\ s \o t \in Seq(S) /\ Len(s \o t) = Len(s) + Len(t)
      /\ \A i \in 1 .. Len(s) + Len(t) : (s \o t)[i] = IF i <= Len(s) THEN s[i] ELSE t[i - Len(s)]
  BY ConcatProperties
<1>3. \A p \in 1 .. Len(s) : (s \o t)[p] = s[p]
  BY <1>1, <1>2
<1>4. \A k \in 1 .. Len(t) : (s \o t)[Len(s) + k] = t[k]
  BY <1>1, <1>2
<1> QED BY <1>2, <1>3, <1>4 DEF Joined

\* What the card sends are bytes.
LEMMA BytesType ==
  ASSUME NEW class \in Class, NEW n \in Nat
  PROVE  /\ Byte(class) \in ByteType
         /\ Bytes(class, n) \in Seq(ByteType)
         /\ Len(Bytes(class, n)) = n
         /\ \A k \in 1 .. n : Bytes(class, n)[k] = Byte(class)
<1>1. Byte(class) \in ByteType
  BY DEF Byte, ByteType
<1>2. Bytes(class, n) \in [1 .. n -> ByteType]
  BY <1>1 DEF Bytes
<1> QED BY <1>1, <1>2 DEF Bytes

\* A block that is sent: its token, its data, its CRC.
LEMMA SectorType ==
  ASSUME NEW content \in Card!Content
  PROVE  /\ Sector(content) \in Seq(ByteType)
         /\ Len(Sector(content)) = BlockBytes + 3
         /\ Sector(content)[1].class = "start"
         /\ \A k \in 1 .. BlockBytes :
              Sector(content)[1 + k] = [class |-> "data", of |-> content, at |-> k]
         /\ \A k \in 1 .. 2 : Sector(content)[1 + BlockBytes + k].class = "ff"
<1> DEFINE data == [k \in 1 .. BlockBytes |-> [class |-> "data", of |-> content, at |-> k]]
           head == <<Byte("start")>>
           crc == Bytes("ff", 2)
<1>1. head \in Seq(ByteType) /\ Len(head) = 1 /\ head[1].class = "start"
  <2>1. Byte("start") \in ByteType /\ Byte("start").class = "start"
    BY DEF ByteType, Class, Byte
  <2> QED BY <2>1
<1>2. data \in Seq(ByteType) /\ Len(data) = BlockBytes
  <2>1. data \in [1 .. BlockBytes -> ByteType]
    BY DEF ByteType, Class
  <2> QED BY <2>1
<1>3. crc \in Seq(ByteType) /\ Len(crc) = 2 /\ \A k \in 1 .. 2 : crc[k].class = "ff"
  <2>1. "ff" \in Class /\ Byte("ff").class = "ff"
    BY DEF Class, Byte
  <2> QED BY <2>1, BytesType
<1>4. Sector(content) = (head \o data) \o crc
  BY DEF Sector
<1>5. \A k \in 1 .. BlockBytes : data[k] = [class |-> "data", of |-> content, at |-> k]
  OBVIOUS
<1> HIDE DEF data, head, crc
<1> DEFINE front == head \o data
<1>6. front \in Seq(ByteType) /\ Joined(front, head, data)
  BY <1>1, <1>2, Concat
<1>7. Sector(content) \in Seq(ByteType) /\ Joined(Sector(content), front, crc)
  BY <1>3, <1>4, <1>6, Concat
<1> HIDE DEF front
<1>8. Len(front) = 1 + BlockBytes
  BY <1>1, <1>2, <1>6 DEF Joined
<1>9. Len(Sector(content)) = BlockBytes + 3
  BY <1>3, <1>7, <1>8 DEF Joined
<1>10. \A k \in 1 .. BlockBytes : Sector(content)[1 + k] = data[k]
  <2> TAKE k \in 1 .. BlockBytes
  <2>1. 1 + k \in 1 .. Len(front) /\ k \in 1 .. Len(data)
    BY <1>2, <1>8
  <2>2. front[1 + k] = data[k]
    BY <2>1, <1>1, <1>6 DEF Joined
  <2> QED BY <2>1, <2>2, <1>7 DEF Joined
<1>11. \A k \in 1 .. 2 : Sector(content)[1 + BlockBytes + k] = crc[k]
  BY <1>3, <1>7, <1>8 DEF Joined
<1>12. Sector(content)[1] = head[1]
  BY <1>1, <1>6, <1>7, <1>8 DEF Joined
<1> QED BY <1>1, <1>3, <1>5, <1>7, <1>9, <1>10, <1>11, <1>12

\* Every field of the card has its type, and a change of one keeps the others.
LEMMA CardFields ==
  ASSUME NEW c \in CardRecord
  PROVE  /\ c.disk \in [Card!Block -> Card!Content]
         /\ c.mode \in {"listen", "read1", "readN", "write1", "writeN", "refuse", "lost"}
         /\ c.power \in {"off", "idle", "ready"} /\ c.busy \in BOOLEAN
         /\ c.addr \in 0 .. NBlocks /\ c.out \in Seq(ByteType) /\ Len(c.out) \in Nat
         /\ \A p \in 1 .. Len(c.out) : c.out[p] \in ByteType
BY DEF CardRecord
-----------------------------------------------------------------------------
(* What the card may send within a window. *)

\* The bytes of t follow those of s.
Follows(u, s, first, n) ==
  /\ Len(u) = Len(s) + n
  /\ \A p \in 1 .. Len(s) : u[p] = s[p]
  /\ \A p \in Len(s) + 1 .. Len(u) : u[p].class = first

\* A block of content at place j of u, its last bytes.
BlockIn(u, j, content) ==
  /\ Len(u) = j + BlockBytes + 2
  /\ u[j].class = "start"
  /\ \A k \in 1 .. BlockBytes : u[j + k] = [class |-> "data", of |-> content, at |-> k]
  /\ \A k \in 1 .. 2 : u[j + BlockBytes + k].class = "ff"

\* The busy signal ends after k bytes.
BusyEnds(c, d, n) ==
  /\ c.busy /\ ~d.busy /\ d.mode = c.mode /\ d.addr = c.addr
  /\ \E k \in Nat : Follows(d.out, c.out, "zero", k) /\ Len(d.out) <= n

\* A block comes after a gap.
BlockComes(c, d, n) ==
  /\ ~c.busy /\ ~d.busy /\ c.mode \in {"read1", "readN"} /\ c.addr \in Card!Block /\ Len(c.out) < n
  /\ d.addr = c.addr + 1 /\ d.mode = IF c.mode = "read1" THEN "listen" ELSE c.mode
  /\ \E j \in Nat : /\ j > Len(c.out)
                    /\ \A p \in 1 .. Len(c.out) : d.out[p] = c.out[p]
                    /\ \A p \in Len(c.out) + 1 .. j - 1 : d.out[p].class = "ff"
                    /\ BlockIn(d.out, j, c.disk[c.addr])

\* A filler between what is sent before and after it.
LEMMA Filled ==
  ASSUME NEW s \in Seq(ByteType), NEW class \in Class, NEW k \in Nat
  PROVE  s \o Bytes(class, k) \in Seq(ByteType) /\ Follows(s \o Bytes(class, k), s, class, k)
<1> DEFINE t == Bytes(class, k)
           u == s \o t
<1>0. Byte(class).class = class
  BY DEF Byte
<1>1. t \in Seq(ByteType) /\ Len(t) = k /\ \A p \in 1 .. k : t[p] = Byte(class)
  BY BytesType
<1> HIDE DEF t
<1>2. u \in Seq(ByteType) /\ Joined(u, s, t)
  BY <1>1, Concat
<1> HIDE DEF u
<1>3. Len(s) \in Nat
  OBVIOUS
<1>4. \A p \in Len(s) + 1 .. Len(u) : u[p].class = class
  <2> TAKE p \in Len(s) + 1 .. Len(u)
  <2>1. p - Len(s) \in 1 .. k /\ p = Len(s) + (p - Len(s))
    BY <1>1, <1>2, <1>3 DEF Joined
  <2>2. u[p] = t[p - Len(s)]
    BY <2>1, <1>1, <1>2 DEF Joined
  <2> QED BY <2>1, <2>2, <1>0, <1>1
<1>5. Follows(u, s, class, k)
  BY <1>1, <1>2, <1>4 DEF Joined, Follows
<1> QED BY <1>2, <1>5 DEF u, t

\* What the card decides to send within a window.
LEMMA LongerCases ==
  ASSUME NEW c \in CardRecord, NEW n \in Nat, NEW d \in Longer(c, n)
  PROVE  /\ d \in CardRecord /\ d.disk = c.disk /\ d.power = c.power
         /\ d = c \/ BusyEnds(c, d, n) \/ BlockComes(c, d, n)
<1>0. /\ c.out \in Seq(ByteType) /\ Len(c.out) \in Nat /\ c.busy \in BOOLEAN /\ c.addr \in 0 .. NBlocks
      /\ c.disk \in [Card!Block -> Card!Content]
  BY CardFields
<1> DEFINE quiet == {[c EXCEPT !.busy = FALSE, !.out = @ \o Bytes("zero", k)] : k \in 0 .. n - Len(c.out)}
           blocks == {[c EXCEPT !.out = @ \o Bytes("ff", g) \o Sector(c.disk[c.addr]),
                               !.addr = @ + 1, !.mode = IF @ = "read1" THEN "listen" ELSE @] : g \in Gap}
<1>1. d \in {c} \cup IF Len(c.out) >= n THEN {} ELSE IF c.busy THEN quiet
                       ELSE IF c.mode \in {"read1", "readN"} /\ c.addr < NBlocks THEN blocks ELSE {}
  BY DEF Longer
<1> HIDE DEF quiet, blocks
<1>2. CASE d = c
  BY <1>2
<1>3. CASE /\ c.busy /\ Len(c.out) < n
           /\ d \in quiet
  <2>1. PICK k \in 0 .. n - Len(c.out) : d = [c EXCEPT !.busy = FALSE, !.out = @ \o Bytes("zero", k)]
    BY <1>3 DEF quiet
  <2> DEFINE u == c.out \o Bytes("zero", k)
  <2>2. u \in Seq(ByteType) /\ Follows(u, c.out, "zero", k)
    <3>1. "zero" \in Class /\ k \in Nat
      BY <1>0 DEF Class
    <3> QED BY <3>1, <1>0, Filled
  <2> HIDE DEF u
  <2>3. d = [c EXCEPT !.busy = FALSE, !.out = u]
    BY <2>1 DEF u
  <2>4. /\ d \in CardRecord /\ d.disk = c.disk /\ d.power = c.power
        /\ ~d.busy /\ d.mode = c.mode /\ d.addr = c.addr /\ d.out = u
    BY <2>2, <2>3 DEF CardRecord
  <2>5. Len(u) <= n
    BY <1>0, <2>2 DEF Follows
  <2>6. k \in Nat /\ Follows(d.out, c.out, "zero", k) /\ Len(d.out) <= n
    BY <1>0, <2>2, <2>4, <2>5
  <2>7. BusyEnds(c, d, n)
    BY <1>3, <2>4, <2>6 DEF BusyEnds
  <2> QED BY <2>4, <2>7
<1>4. CASE /\ ~c.busy /\ Len(c.out) < n /\ c.mode \in {"read1", "readN"} /\ c.addr < NBlocks
           /\ d \in blocks
  <2>1. PICK g \in Gap : d = [c EXCEPT !.out = @ \o Bytes("ff", g) \o Sector(c.disk[c.addr]),
                               !.addr = @ + 1, !.mode = IF @ = "read1" THEN "listen" ELSE @]
    BY <1>4 DEF blocks
  <2> DEFINE gap == c.out \o Bytes("ff", g)
             content == c.disk[c.addr]
             sector == Sector(content)
             u == gap \o sector
             j == Len(c.out) + g + 1
  <2>2. c.addr \in Card!Block /\ content \in Card!Content /\ g \in Nat
    <3>1. c.addr \in Card!Block
      BY <1>0, <1>4 DEF Card!Block
    <3>2. g \in Nat
      BY DEF Gap
    <3> QED BY <3>1, <3>2, <1>0
  <2>3. gap \in Seq(ByteType) /\ Follows(gap, c.out, "ff", g)
    <3>1. "ff" \in Class
      BY DEF Class
    <3> QED BY <3>1, <1>0, <2>2, Filled
  <2>4. /\ sector \in Seq(ByteType) /\ Len(sector) = BlockBytes + 3 /\ sector[1].class = "start"
        /\ \A k \in 1 .. BlockBytes : sector[1 + k] = [class |-> "data", of |-> content, at |-> k]
        /\ \A k \in 1 .. 2 : sector[1 + BlockBytes + k].class = "ff"
    BY <2>2, SectorType
  <2>5. d = [c EXCEPT !.out = u, !.addr = @ + 1, !.mode = IF @ = "read1" THEN "listen" ELSE @]
    BY <2>1
  <2> HIDE DEF gap, sector, content
  <2>6. u \in Seq(ByteType) /\ Joined(u, gap, sector)
    BY <2>3, <2>4, Concat
  <2> HIDE DEF u
  <2>7. /\ d \in CardRecord /\ d.disk = c.disk /\ d.power = c.power /\ d.busy = c.busy
        /\ d.addr = c.addr + 1 /\ d.mode = (IF c.mode = "read1" THEN "listen" ELSE c.mode) /\ d.out = u
    <3> DEFINE addr == c.addr + 1
               mode == IF c.mode = "read1" THEN "listen" ELSE c.mode
    <3>1. addr \in 0 .. NBlocks
      BY <1>0, <1>4
    <3>2. mode \in {"listen", "readN"}
      BY <1>4
    <3>3. d = [c EXCEPT !.out = u, !.addr = addr, !.mode = mode]
      BY <2>5
    <3> HIDE DEF addr, mode
    <3>4. /\ d \in CardRecord /\ d.disk = c.disk /\ d.power = c.power /\ d.busy = c.busy
          /\ d.addr = addr /\ d.mode = mode /\ d.out = u
      BY <2>6, <3>1, <3>2, <3>3 DEF CardRecord
    <3> QED BY <3>4 DEF addr, mode
  <2>8. Len(gap) = j - 1 /\ j \in Nat /\ j > Len(c.out)
    BY <1>0, <2>2, <2>3 DEF Follows
  <2>9. \A p \in 1 .. Len(gap) : u[p] = gap[p]
    BY <2>6 DEF Joined
  <2>10. \A k \in 1 .. BlockBytes + 3 : u[j - 1 + k] = sector[k]
    BY <2>4, <2>6, <2>8 DEF Joined
  <2> HIDE DEF j
  <2>11. \A p \in 1 .. Len(c.out) : u[p] = c.out[p]
    <3> TAKE p \in 1 .. Len(c.out)
    <3>1. p \in 1 .. Len(gap)
      BY <1>0, <2>8
    <3>2. gap[p] = c.out[p]
      BY <1>0, <2>3, <2>8, <3>1 DEF Follows
    <3> QED BY <3>1, <3>2, <2>9, Zenon
  <2>12. \A p \in Len(c.out) + 1 .. j - 1 : u[p].class = "ff"
    <3> TAKE p \in Len(c.out) + 1 .. j - 1
    <3>1. p \in Len(c.out) + 1 .. Len(gap) /\ p \in 1 .. Len(gap)
      BY <1>0, <2>8
    <3>2. gap[p].class = "ff"
      BY <2>3, <3>1 DEF Follows
    <3> QED BY <3>1, <3>2, <2>9, Zenon
  <2>13. BlockIn(u, j, content)
    <3>1. Len(u) = j + BlockBytes + 2
      BY <2>4, <2>6, <2>8 DEF Joined
    <3>2. u[j].class = "start"
      <4>1. u[j - 1 + 1] = sector[1]
        BY <2>10
      <4> QED BY <4>1, <2>4, <2>8
    <3>3. ASSUME NEW k \in 1 .. BlockBytes PROVE u[j + k] = [class |-> "data", of |-> content, at |-> k]
      <4>0. 1 + k \in 1 .. BlockBytes + 3 /\ j - 1 + (1 + k) = j + k
        BY <2>8
      <4>1. u[j + k] = sector[1 + k]
        BY <4>0, <2>10
      <4> QED BY <4>1, <2>4
    <3>4. ASSUME NEW k \in 1 .. 2 PROVE u[j + BlockBytes + k].class = "ff"
      <4>0. /\ 1 + BlockBytes + k \in 1 .. BlockBytes + 3
            /\ j - 1 + (1 + BlockBytes + k) = j + BlockBytes + k
        BY <2>8
      <4>1. u[j + BlockBytes + k] = sector[1 + BlockBytes + k]
        BY <4>0, <2>10
      <4> QED BY <4>1, <2>4
    <3> QED BY <3>1, <3>2, <3>3, <3>4 DEF BlockIn
  <2>14. BlockComes(c, d, n)
    BY <1>4, <2>2, <2>7, <2>8, <2>11, <2>12, <2>13 DEF BlockComes, content
  <2> QED BY <2>7, <2>14
<1>5. \/ d = c
      \/ c.busy /\ Len(c.out) < n /\ d \in quiet
      \/ ~c.busy /\ Len(c.out) < n /\ c.mode \in {"read1", "readN"} /\ c.addr < NBlocks /\ d \in blocks
  BY <1>0, <1>1
<1> QED BY <1>2, <1>3, <1>4, <1>5
-----------------------------------------------------------------------------
(* The bytes ahead: what is left of the window w, and after it the bytes o   *)
(* that the card is going to send.                                           *)

At(w, o, p) == IF p <= Len(w) THEN w[p] ELSE o[p - Len(w)]
Ahead(w, o) == Len(w) + Len(o)

\* A window w of n bytes with what remains, o, shows what d sends.
Shows(w, o, d, n) ==
  /\ w \in Seq(ByteType) /\ Len(w) = n /\ o \in Seq(ByteType)
  /\ Ahead(w, o) = IF Len(d.out) > n THEN Len(d.out) ELSE n
  /\ \A p \in 1 .. Len(d.out) : At(w, o, p) = d.out[p]
  /\ \A p \in Len(d.out) + 1 .. Ahead(w, o) : At(w, o, p).class = IF d.busy THEN "zero" ELSE "ff"

\* The card d, but for what it is going to send.
SameCard(c, d) ==
  /\ c.disk = d.disk /\ c.power = d.power /\ c.mode = d.mode /\ c.busy = d.busy /\ c.addr = d.addr

\* A window shows what the card has decided to send.
LEMMA ClockShows ==
  ASSUME NEW c \in CardRecord, NEW n \in Nat, NEW e \in Clock(c, n)
  PROVE  /\ e.card \in CardRecord
         /\ \E d \in Longer(c, n) : SameCard(e.card, d) /\ Shows(e.win, e.card.out, d, n)
<1>1. PICK d \in Longer(c, n) :
        e = [card |-> [d EXCEPT !.out = SubSeq(@, n + 1, Len(@))],
             win |-> SubSeq(d.out \o Bytes(IF d.busy THEN "zero" ELSE "ff", n), 1, n)]
  BY DEF Clock
<1>2. d \in CardRecord
  BY LongerCases
<1>3. d.out \in Seq(ByteType) /\ Len(d.out) \in Nat
  BY <1>2, CardFields
<1> DEFINE class == IF d.busy THEN "zero" ELSE "ff"
           u == d.out \o Bytes(class, n)
           w == SubSeq(u, 1, n)
           o == SubSeq(d.out, n + 1, Len(d.out))
<1>4. class \in Class
  BY DEF Class
<1>5. e.win = w /\ e.card = [d EXCEPT !.out = o]
  BY <1>1
<1> HIDE DEF class
<1>6. u \in Seq(ByteType) /\ Follows(u, d.out, class, n)
  BY <1>3, <1>4, Filled
<1> HIDE DEF u
<1>7. Len(u) = Len(d.out) + n
  BY <1>6 DEF Follows
<1>8. w \in Seq(ByteType) /\ Len(w) = n /\ \A p \in 1 .. n : w[p] = u[p]
  <2>1. \A p \in 1 .. n : u[p] \in ByteType
    BY <1>3, <1>6, <1>7, ElementOfSeq
  <2> QED BY <2>1, SubSeqProperties
<1>9. /\ o \in Seq(ByteType)
      /\ Len(o) = IF Len(d.out) > n THEN Len(d.out) - n ELSE 0
      /\ \A k \in 1 .. Len(d.out) - n : o[k] = d.out[n + k]
  <2>1. \A p \in n + 1 .. Len(d.out) : d.out[p] \in ByteType
    BY <1>3
  <2>2. /\ o \in Seq(ByteType)
        /\ Len(o) = IF n + 1 <= Len(d.out) THEN Len(d.out) - (n + 1) + 1 ELSE 0
        /\ \A k \in 1 .. Len(d.out) - (n + 1) + 1 : o[k] = d.out[n + 1 + k - 1]
    BY <1>3, <2>1, SubSeqProperties
  <2>3. Len(o) = IF Len(d.out) > n THEN Len(d.out) - n ELSE 0
    BY <1>3, <2>2
  <2>4. \A k \in 1 .. Len(d.out) - n : o[k] = d.out[n + k]
    BY <1>3, <2>2
  <2> QED BY <2>2, <2>3, <2>4
<1> HIDE DEF w, o
<1>10. e.card \in CardRecord /\ SameCard(e.card, d) /\ e.card.out = o
  BY <1>2, <1>5, <1>9 DEF CardRecord, SameCard
<1>11. Ahead(w, o) = IF Len(d.out) > n THEN Len(d.out) ELSE n
  BY <1>3, <1>8, <1>9 DEF Ahead
<1>12. ASSUME NEW p \in 1 .. Len(d.out) PROVE At(w, o, p) = d.out[p]
  <2>1. CASE p <= n
    BY <2>1, <1>3, <1>6, <1>8 DEF At, Follows
  <2>2. CASE p > n
    <3>1. p - n \in 1 .. Len(d.out) - n /\ n + (p - n) = p
      BY <2>2, <1>3
    <3> QED BY <3>1, <2>2, <1>8, <1>9 DEF At
  <2> QED BY <2>1, <2>2
<1>13. ASSUME NEW p \in Len(d.out) + 1 .. Ahead(w, o) PROVE At(w, o, p).class = class
  <2>1. p <= n /\ p \in Len(d.out) + 1 .. Len(u) /\ p \in 1 .. n
    BY <1>3, <1>7, <1>11
  <2>2. w[p] = u[p] /\ u[p].class = class
    BY <2>1, <1>6, <1>8 DEF Follows
  <2> QED BY <2>1, <2>2, <1>8 DEF At
<1>14. Shows(w, o, d, n)
  BY <1>8, <1>9, <1>11, <1>12, <1>13 DEF Shows, class
<1> QED BY <1>5, <1>10, <1>14
\* No byte of the classes from place i on.
Without(w, i, o, classes) == \A p \in i .. Ahead(w, o) : At(w, o, p).class \notin classes

\* What a window w and its rest o, of a card that was c and is d, show of c.
Sends(w, o, c, d) ==
  /\ d.disk = c.disk /\ d.power = c.power
  /\ Ahead(w, o) >= Len(c.out)
  /\ \A p \in 1 .. Len(c.out) : At(w, o, p) = c.out[p]
  /\ \A p \in Len(c.out) + 1 .. Ahead(w, o) : At(w, o, p).class \in {"zero", "ff", "start", "data"}
  /\ d.busy => c.busy /\ \A p \in Len(c.out) + 1 .. Ahead(w, o) : At(w, o, p).class = "zero"
  /\ c.mode \notin {"read1", "readN"} =>
       /\ d.mode = c.mode /\ d.addr = c.addr
       /\ \A p \in Len(c.out) + 1 .. Ahead(w, o) : At(w, o, p).class \in {"zero", "ff"}
       /\ ~c.busy => \A p \in Len(c.out) + 1 .. Ahead(w, o) : At(w, o, p).class = "ff"

\* The classes of the bytes of a block.
LEMMA BlockClasses ==
  ASSUME NEW u, NEW j \in Nat, NEW content, BlockIn(u, j, content)
  PROVE  \A p \in j .. Len(u) : u[p].class = IF p = j THEN "start"
                                              ELSE IF p <= j + BlockBytes THEN "data" ELSE "ff"
<1> TAKE p \in j .. Len(u)
<1>1. /\ Len(u) = j + BlockBytes + 2
      /\ u[j].class = "start"
      /\ \A k \in 1 .. BlockBytes : u[j + k] = [class |-> "data", of |-> content, at |-> k]
      /\ \A k \in 1 .. 2 : u[j + BlockBytes + k].class = "ff"
  BY DEF BlockIn
<1>2. CASE p = j
  BY <1>1, <1>2
<1>3. CASE p \in j + 1 .. j + BlockBytes
  <2>1. p - j \in 1 .. BlockBytes /\ p = j + (p - j)
    BY <1>3
  <2>2. u[p] = [class |-> "data", of |-> content, at |-> p - j]
    BY <1>1, <2>1
  <2> QED BY <2>2, <1>3
<1>4. CASE p > j + BlockBytes
  <2>1. p - j - BlockBytes \in 1 .. 2 /\ p = j + BlockBytes + (p - j - BlockBytes)
    BY <1>1, <1>4, SMTT(30)
  <2> QED BY <1>1, <1>4, <2>1
<1> QED BY <1>2, <1>3, <1>4

\* What a window shows, as far as the coming of a block does not matter.
LEMMA ClockSends ==
  ASSUME NEW c \in CardRecord, NEW n \in Nat, NEW e \in Clock(c, n)
  PROVE  /\ e.card \in CardRecord /\ e.win \in Seq(ByteType) /\ Len(e.win) = n
         /\ Sends(e.win, e.card.out, c, e.card)
<1>1. PICK d \in Longer(c, n) : SameCard(e.card, d) /\ Shows(e.win, e.card.out, d, n)
  BY ClockShows
<1>2. /\ e.card \in CardRecord /\ d \in CardRecord /\ d.disk = c.disk /\ d.power = c.power
      /\ d = c \/ BusyEnds(c, d, n) \/ BlockComes(c, d, n)
  BY ClockShows, LongerCases
<1> DEFINE w == e.win
           o == e.card.out
           new == Len(c.out) + 1 .. Ahead(w, o)
<1>3. /\ Len(c.out) \in Nat /\ Len(d.out) \in Nat /\ c.busy \in BOOLEAN
  BY <1>2, CardFields
<1>4. /\ w \in Seq(ByteType) /\ Len(w) = n /\ Ahead(w, o) = (IF Len(d.out) > n THEN Len(d.out) ELSE n)
      /\ \A p \in 1 .. Len(d.out) : At(w, o, p) = d.out[p]
      /\ \A p \in Len(d.out) + 1 .. Ahead(w, o) : At(w, o, p).class = IF d.busy THEN "zero" ELSE "ff"
  BY <1>1 DEF Shows
<1>5. Ahead(w, o) \in Nat /\ Ahead(w, o) >= Len(d.out) /\ Ahead(w, o) >= n
  BY <1>3, <1>4
<1>6. e.card.disk = c.disk /\ e.card.power = c.power /\ e.card.mode = d.mode /\ e.card.busy = d.busy
      /\ e.card.addr = d.addr
  BY <1>1, <1>2 DEF SameCard
<1> HIDE DEF w, o
<1>7. ASSUME d = c PROVE Sends(w, o, c, e.card)
  <2>1. Ahead(w, o) >= Len(c.out) /\ \A p \in 1 .. Len(c.out) : At(w, o, p) = c.out[p]
    BY <1>4, <1>5, <1>7
  <2>2. \A p \in new : At(w, o, p).class = IF c.busy THEN "zero" ELSE "ff"
    BY <1>4, <1>7
  <2> HIDE DEF new
  <2> QED BY <1>6, <1>7, <2>1, <2>2 DEF Sends, new
<1>8. ASSUME BusyEnds(c, d, n) PROVE Sends(w, o, c, e.card)
  <2>1. PICK k \in Nat : Follows(d.out, c.out, "zero", k)
    BY <1>8 DEF BusyEnds
  <2>2. c.busy /\ ~d.busy /\ d.mode = c.mode /\ d.addr = c.addr
    BY <1>8 DEF BusyEnds
  <2>3. /\ Len(d.out) = Len(c.out) + k
        /\ \A p \in 1 .. Len(c.out) : d.out[p] = c.out[p]
        /\ \A p \in Len(c.out) + 1 .. Len(d.out) : d.out[p].class = "zero"
    BY <2>1 DEF Follows
  <2>4. \A p \in 1 .. Len(c.out) : At(w, o, p) = c.out[p]
    <3> TAKE p \in 1 .. Len(c.out)
    <3>1. p \in 1 .. Len(d.out)
      <4>1. Len(d.out) = Len(c.out) + k
        BY <2>3
      <4> QED BY ONLY <4>1, <1>3, k \in Nat, p \in 1 .. Len(c.out)
    <3> QED BY <3>1, <1>4, <2>3
  <2>5. \A p \in new : At(w, o, p).class \in {"zero", "ff"}
    <3> TAKE p \in new
    <3>1. CASE p <= Len(d.out)
      BY <3>1, <1>3, <1>4, <1>5, <2>3
    <3>2. CASE p > Len(d.out)
      BY <3>2, <1>3, <1>4, <1>5, <2>2
    <3> QED BY <3>1, <3>2, <1>3, <1>5
  <2> HIDE DEF new
  <2>6. Ahead(w, o) >= Len(c.out)
    BY <1>3, <1>5, <2>3
  <2> QED BY <1>6, <2>2, <2>4, <2>5, <2>6 DEF Sends, new
<1>9. ASSUME BlockComes(c, d, n) PROVE Sends(w, o, c, e.card)
  <2>1. ~c.busy /\ ~d.busy /\ c.mode \in {"read1", "readN"}
    BY <1>9 DEF BlockComes
  <2>2. PICK j \in Nat :
          /\ j > Len(c.out)
          /\ \A p \in 1 .. Len(c.out) : d.out[p] = c.out[p]
          /\ \A p \in Len(c.out) + 1 .. j - 1 : d.out[p].class = "ff"
          /\ BlockIn(d.out, j, c.disk[c.addr])
    BY <1>9 DEF BlockComes
  <2>3. \A p \in j .. Len(d.out) : d.out[p].class \in {"start", "data", "ff"}
    BY <2>2, BlockClasses
  <2>4. Len(d.out) >= Len(c.out)
    BY <1>3, <2>2 DEF BlockIn
  <2>5. \A p \in 1 .. Len(c.out) : At(w, o, p) = c.out[p]
    BY <1>3, <1>4, <2>2, <2>4
  <2>6. \A p \in new : At(w, o, p).class \in {"zero", "ff", "start", "data"}
    <3> TAKE p \in new
    <3>1. CASE p <= Len(d.out)
      <4>1. p \in Len(c.out) + 1 .. j - 1 \/ p \in j .. Len(d.out)
        BY <3>1, <1>3, <1>5, <2>2
      <4>2. d.out[p].class \in {"ff", "start", "data"}
        BY <4>1, <2>2, <2>3
      <4> QED BY <4>2, <3>1, <1>3, <1>4
    <3>2. CASE p > Len(d.out)
      BY <3>2, <1>3, <1>4, <1>5, <2>1
    <3> QED BY <3>1, <3>2, <1>3, <1>5
  <2> HIDE DEF new
  <2>7. Ahead(w, o) >= Len(c.out)
    BY <1>3, <1>5, <2>4
  <2> QED BY <1>6, <2>1, <2>5, <2>6, <2>7 DEF Sends, new
<1>10. Sends(w, o, c, e.card)
  BY <1>2, <1>7, <1>8, <1>9
<1> QED BY <1>2, <1>4, <1>10 DEF w, o
-----------------------------------------------------------------------------
(* The block that is waited for. *)

\* A block that holds content comes at place j, and nothing after it.
BlockAt(w, o, j, content) ==
  /\ Ahead(w, o) = j + BlockBytes + 2
  /\ At(w, o, j).class = "start"
  /\ \A k \in 1 .. BlockBytes : At(w, o, j + k) = [class |-> "data", of |-> content, at |-> k]
  /\ \A k \in 1 .. 2 : At(w, o, j + BlockBytes + k).class = "ff"

\* Block b is still to be sent, or no block will be.
Nothing(w, i, o, c, kind, b) ==
  /\ Without(w, i, o, {"start"})
  /\ c.mode \in {"listen", "lost", kind}
  /\ c.mode = kind => c.addr = b /\ ~c.busy

\* Block b is the first that comes from place i on.
Something(w, i, o, c, kind, b) ==
  /\ \E j \in i .. Ahead(w, o) :
       /\ \A p \in i .. j - 1 : At(w, o, p).class # "start"
       /\ BlockAt(w, o, j, c.disk[b])
  /\ b \in Card!Block /\ ~c.busy
  /\ IF kind = "read1" THEN c.mode = "listen" ELSE c.mode = kind /\ c.addr = b + 1

Coming(w, i, o, c, kind, b) ==
  Nothing(w, i, o, c, kind, b) \/ Something(w, i, o, c, kind, b)

\* The bytes of a block are no responses.
LEMMA BlockAtClasses ==
  ASSUME NEW w, NEW o, NEW j \in Nat, NEW content, BlockAt(w, o, j, content)
  PROVE  \A p \in j .. Ahead(w, o) :
           At(w, o, p).class = IF p = j THEN "start" ELSE IF p <= j + BlockBytes THEN "data" ELSE "ff"
<1> TAKE p \in j .. Ahead(w, o)
<1>1. /\ Ahead(w, o) = j + BlockBytes + 2
      /\ At(w, o, j).class = "start"
      /\ \A k \in 1 .. BlockBytes : At(w, o, j + k) = [class |-> "data", of |-> content, at |-> k]
      /\ \A k \in 1 .. 2 : At(w, o, j + BlockBytes + k).class = "ff"
  BY DEF BlockAt
<1>2. CASE p = j
  BY <1>1, <1>2
<1>3. CASE p \in j + 1 .. j + BlockBytes
  <2>1. p - j \in 1 .. BlockBytes /\ p = j + (p - j)
    BY <1>3
  <2>2. At(w, o, p) = [class |-> "data", of |-> content, at |-> p - j]
    BY <1>1, <2>1
  <2> QED BY <2>2, <1>3
<1>4. CASE p > j + BlockBytes
  <2>1. p - j - BlockBytes \in 1 .. 2 /\ p = j + BlockBytes + (p - j - BlockBytes)
    BY <1>1, <1>4
  <2> QED BY <1>1, <1>4, <2>1
<1> QED BY <1>1, <1>2, <1>3, <1>4

\* No window: what comes is what is sent.
LEMMA NoWindow ==
  ASSUME NEW o \in Seq(ByteType)
  PROVE  Ahead(<<>>, o) = Len(o) /\ \A p \in 1 .. Len(o) : At(<<>>, o, p) = o[p]
<1>1. Len(o) \in Nat /\ Len(<<>>) = 0
  OBVIOUS
<1>2. \A p \in 1 .. Len(o) : p - 0 = p
  BY <1>1
<1> QED BY <1>1, <1>2 DEF Ahead, At

\* A window without the token is left behind.
LEMMA ComingLater ==
  ASSUME NEW c \in CardRecord, NEW w \in Seq(ByteType), NEW i \in Nat \ {0}, i <= Len(w) + 1,
         NEW kind, NEW b, Coming(w, i, c.out, c, kind, b),
         \A p \in i .. Len(w) : w[p].class # "start"
  PROVE  Coming(<<>>, 1, c.out, c, kind, b)
<1> DEFINE o == c.out
           m == Len(w)
<1>1. o \in Seq(ByteType) /\ Len(o) \in Nat /\ m \in Nat /\ Ahead(w, o) = m + Len(o)
  BY CardFields DEF Ahead
<1>2. Ahead(<<>>, o) = Len(o) /\ \A p \in 1 .. Len(o) : At(<<>>, o, p) = o[p]
  BY <1>1, NoWindow
<1>3. \A p \in 1 .. Len(o) : At(w, o, m + p) = At(<<>>, o, p)
  <2> TAKE p \in 1 .. Len(o)
  <2>1. ~(m + p <= m) /\ (m + p) - m = p
    BY <1>1
  <2>2. At(w, o, m + p) = o[p]
    BY <2>1 DEF At
  <2> QED BY <2>2, <1>2
<1>4. \A p \in i .. m : At(w, o, p).class # "start"
  BY <1>1 DEF At
<1>5. ASSUME Nothing(w, i, o, c, kind, b) PROVE Nothing(<<>>, 1, o, c, kind, b)
  <2>1. \A p \in 1 .. Len(o) : At(<<>>, o, p).class # "start"
    <3> TAKE p \in 1 .. Len(o)
    <3>1. m + p \in i .. Ahead(w, o)
      BY <1>1
    <3> QED BY <3>1, <1>3, <1>5 DEF Nothing, Without
  <2>2. Without(<<>>, 1, o, {"start"})
    BY <2>1, <1>2 DEF Without
  <2> QED BY <2>2, <1>5 DEF Nothing
<1>6. ASSUME Something(w, i, o, c, kind, b) PROVE Something(<<>>, 1, o, c, kind, b)
  <2>1. PICK j \in i .. Ahead(w, o) :
          (\A p \in i .. j - 1 : At(w, o, p).class # "start") /\ BlockAt(w, o, j, c.disk[b])
    BY <1>6 DEF Something
  <2>2. j > m
    BY <2>1, <1>1, <1>4 DEF BlockAt
  <2>21. j \in Int /\ m \in Nat /\ Len(o) \in Nat
    BY <1>1
  <2> DEFINE q == j - m
             content == c.disk[b]
  <2>3. q \in 1 .. Len(o)
    BY <2>2, <1>1
  <2>4. /\ m + Len(o) = j + BlockBytes + 2
        /\ At(w, o, j).class = "start"
        /\ \A k \in 1 .. BlockBytes : At(w, o, j + k) = [class |-> "data", of |-> content, at |-> k]
        /\ \A k \in 1 .. 2 : At(w, o, j + BlockBytes + k).class = "ff"
    BY <2>1, <1>1 DEF BlockAt
  <2> HIDE DEF content
  <2>5. Len(o) = q + BlockBytes + 2
    <3>1. j \in Int /\ m + Len(o) = j + BlockBytes + 2
      BY <2>4
    <3> QED BY ONLY <3>1, <1>1, Sizes DEF q
  <2>6. At(<<>>, o, q).class = "start"
    <3>1. m + q = j
      BY <1>1
    <3> QED BY <3>1, <2>3, <2>4, <1>3
  <2>7. ASSUME NEW k \in 1 .. BlockBytes
        PROVE  At(<<>>, o, q + k) = [class |-> "data", of |-> content, at |-> k]
    <3>1. q + k \in 1 .. Len(o) /\ m + (q + k) = j + k
      BY ONLY <2>21, <2>3, <2>5, Sizes, k \in 1 .. BlockBytes DEF q
    <3> QED BY <3>1, <2>4, <1>3
  <2>8. ASSUME NEW k \in 1 .. 2
        PROVE  At(<<>>, o, q + BlockBytes + k).class = "ff"
    <3>1. q + BlockBytes + k \in 1 .. Len(o) /\ m + (q + BlockBytes + k) = j + BlockBytes + k
      BY ONLY <2>21, <2>3, <2>5, Sizes, k \in 1 .. 2 DEF q
    <3> QED BY <3>1, <2>4, <1>3
  <2>9. BlockAt(<<>>, o, q, content)
    BY <1>2, <2>5, <2>6, <2>7, <2>8 DEF BlockAt
  <2>10. \A p \in 1 .. q - 1 : At(<<>>, o, p).class # "start"
    <3> TAKE p \in 1 .. q - 1
    <3>1. p \in 1 .. Len(o) /\ m + p \in i .. j - 1
      BY <1>1, <2>3
    <3> QED BY <3>1, <2>1, <1>3
  <2>11. q \in 1 .. Ahead(<<>>, o)
    BY <1>2, <2>3
  <2> QED BY <2>9, <2>10, <2>11, <1>6 DEF Something, content
<1> QED BY <1>5, <1>6 DEF Coming

\* A response precedes the block, which comes from the byte after it on.
LEMMA ComingAfterResponse ==
  ASSUME NEW w, NEW o, NEW c, NEW kind, NEW b, Coming(w, 1, o, c, kind, b),
         Ahead(w, o) \in Nat, NEW r \in 1 .. Ahead(w, o), At(w, o, r).class = "zero"
  PROVE  Coming(w, r + 1, o, c, kind, b)
<1>1. ASSUME Nothing(w, 1, o, c, kind, b) PROVE Nothing(w, r + 1, o, c, kind, b)
  <2>1. Without(w, r + 1, o, {"start"})
    <3>1. \A p \in r + 1 .. Ahead(w, o) : p \in 1 .. Ahead(w, o)
      OBVIOUS
    <3> QED BY <3>1, <1>1 DEF Nothing, Without
  <2> QED BY <2>1, <1>1 DEF Nothing
<1>2. ASSUME Something(w, 1, o, c, kind, b) PROVE Something(w, r + 1, o, c, kind, b)
  <2>1. PICK j \in 1 .. Ahead(w, o) :
          (\A p \in 1 .. j - 1 : At(w, o, p).class # "start") /\ BlockAt(w, o, j, c.disk[b])
    BY <1>2 DEF Something
  <2>2. r < j
    <3>1. SUFFICES ASSUME r \in j .. Ahead(w, o) PROVE FALSE
      BY <2>1
    <3>2. j \in Nat
      BY <2>1
    <3> QED BY <3>1, <3>2, <2>1, BlockAtClasses
  <2>3. j \in r + 1 .. Ahead(w, o) /\ \A p \in r + 1 .. j - 1 : p \in 1 .. j - 1
    BY <2>2
  <2> QED BY <2>1, <2>3, <1>2 DEF Something
<1> QED BY <1>1, <1>2 DEF Coming

\* Clocking a window of less than a block and its token keeps the block coming.
LEMMA ClockComing ==
  ASSUME NEW c \in CardRecord, NEW n \in Nat, n <= BlockBytes + 2, NEW e \in Clock(c, n),
         NEW i \in Nat \ {0}, i <= Len(c.out) + 1, NEW kind \in {"read1", "readN"}, NEW b,
         Coming(<<>>, i, c.out, c, kind, b)
  PROVE  Coming(e.win, i, e.card.out, e.card, kind, b)
<1> DEFINE w == e.win
           o == e.card.out
           f == e.card
<1>1. PICK d \in Longer(c, n) : SameCard(f, d) /\ Shows(w, o, d, n)
  BY ClockShows
<1>2. /\ d \in CardRecord /\ f.disk = c.disk
      /\ d = c \/ BusyEnds(c, d, n) \/ BlockComes(c, d, n)
      /\ f.mode = d.mode /\ f.busy = d.busy /\ f.addr = d.addr
  BY <1>1, LongerCases DEF SameCard
<1>3. /\ c.out \in Seq(ByteType) /\ Len(c.out) \in Nat /\ Len(d.out) \in Nat /\ c.busy \in BOOLEAN
  BY <1>2, CardFields
<1>4. Ahead(<<>>, c.out) = Len(c.out) /\ \A p \in 1 .. Len(c.out) : At(<<>>, c.out, p) = c.out[p]
  BY <1>3, NoWindow
<1>5. /\ Ahead(w, o) = (IF Len(d.out) > n THEN Len(d.out) ELSE n)
      /\ \A p \in 1 .. Len(d.out) : At(w, o, p) = d.out[p]
      /\ \A p \in Len(d.out) + 1 .. Ahead(w, o) : At(w, o, p).class = IF d.busy THEN "zero" ELSE "ff"
  BY <1>1 DEF Shows
<1>6. Sends(w, o, c, f)
  BY ClockSends
<1> HIDE DEF w, o, f
<1>7. ASSUME Something(<<>>, i, c.out, c, kind, b) PROVE Something(w, i, o, f, kind, b)
  <2> DEFINE content == c.disk[b]
  <2>1. PICK j \in i .. Len(c.out) :
          /\ \A p \in i .. j - 1 : At(<<>>, c.out, p).class # "start"
          /\ BlockAt(<<>>, c.out, j, content)
    BY <1>4, <1>7 DEF Something
  <2>2. ~c.busy /\ Len(c.out) = j + BlockBytes + 2
    BY <2>1, <1>4, <1>7 DEF Something, BlockAt
  <2>3. d = c
    BY <1>2, <1>3, <2>2, SMTT(30) DEF BusyEnds, BlockComes
  <2>4. Ahead(w, o) = Len(c.out) /\ \A p \in 1 .. Len(c.out) : At(w, o, p) = At(<<>>, c.out, p)
    <3>1. j \in Nat \ {0} /\ Len(c.out) = j + BlockBytes + 2
      BY <2>2
    <3>2. Len(c.out) >= n
      BY ONLY <3>1, Sizes, n \in Nat, n <= BlockBytes + 2
    <3>3. Ahead(w, o) = Len(c.out)
      BY <3>2, <1>3, <1>5, <2>3
    <3> QED BY <3>3, <1>4, <1>5, <2>3
  <2> HIDE DEF content
  <2>5. BlockAt(w, o, j, content)
    <3>1. /\ j \in 1 .. Len(c.out)
          /\ \A k \in 1 .. BlockBytes : j + k \in 1 .. Len(c.out)
          /\ \A k \in 1 .. 2 : j + BlockBytes + k \in 1 .. Len(c.out)
      BY <2>2
    <3> QED BY <3>1, <2>1, <2>2, <2>4 DEF BlockAt
  <2>6. \A p \in i .. j - 1 : At(w, o, p).class # "start"
    BY <1>3, <2>1, <2>4
  <2>7. f.mode = c.mode /\ f.busy = c.busy /\ f.addr = c.addr
    BY <1>2, <2>3
  <2> QED BY <2>1, <2>4, <2>5, <2>6, <2>7, <1>2, <1>7 DEF Something, content
<1>8. ASSUME Nothing(<<>>, i, c.out, c, kind, b), ~BlockComes(c, d, n)
      PROVE  Nothing(w, i, o, f, kind, b)
  <2>1. \A p \in i .. Len(c.out) : c.out[p].class # "start"
    BY <1>4, <1>8 DEF Nothing, Without
  <2>2. \A p \in Len(c.out) + 1 .. Ahead(w, o) : At(w, o, p).class # "start"
    <3> TAKE p \in Len(c.out) + 1 .. Ahead(w, o)
    <3>1. CASE d = c
      BY <3>1, <1>5
    <3>2. CASE BusyEnds(c, d, n)
      <4>1. /\ \A q \in Len(c.out) + 1 .. Len(d.out) : d.out[q].class = "zero"
            /\ ~d.busy
        BY <3>2 DEF BusyEnds, Follows
      <4>2. CASE p <= Len(d.out)
        BY <4>1, <4>2, <1>3, <1>5
      <4>3. CASE p > Len(d.out)
        BY <4>1, <4>3, <1>3, <1>5
      <4> QED BY <4>2, <4>3, <1>3, <1>5
    <3> QED BY <3>1, <3>2, <1>2, <1>8
  <2>3. Without(w, i, o, {"start"})
    <3> SUFFICES ASSUME NEW p \in i .. Ahead(w, o) PROVE At(w, o, p).class # "start"
      BY DEF Without
    <3>1. Ahead(w, o) \in Nat
      BY <1>3, <1>5
    <3>2. CASE p <= Len(c.out)
      <4>1. p \in i .. Len(c.out) /\ p \in 1 .. Len(c.out)
        BY <3>1, <3>2, <1>3
      <4> QED BY <4>1, <2>1, <1>6 DEF Sends
    <3>3. CASE p > Len(c.out)
      BY <3>1, <3>3, <1>3, <2>2
    <3> QED BY <3>1, <3>2, <3>3, <1>3
  <2>4. f.mode = c.mode /\ f.addr = c.addr /\ (~c.busy => ~f.busy)
    BY <1>2, <1>8 DEF BusyEnds
  <2> QED BY <2>3, <2>4, <1>8 DEF Nothing
<1>9. ASSUME Nothing(<<>>, i, c.out, c, kind, b), BlockComes(c, d, n)
      PROVE  Something(w, i, o, f, kind, b)
  <2>1. /\ ~c.busy /\ ~d.busy /\ c.mode = kind /\ c.addr = b /\ b \in Card!Block
        /\ d.addr = b + 1 /\ d.mode = IF kind = "read1" THEN "listen" ELSE kind
    BY <1>9 DEF Nothing, BlockComes
  <2>2. PICK j \in Nat :
          /\ j > Len(c.out)
          /\ \A p \in 1 .. Len(c.out) : d.out[p] = c.out[p]
          /\ \A p \in Len(c.out) + 1 .. j - 1 : d.out[p].class = "ff"
          /\ BlockIn(d.out, j, c.disk[c.addr])
    BY <1>9 DEF BlockComes
  <2> DEFINE content == c.disk[b]
  <2>3. /\ Len(d.out) = j + BlockBytes + 2
        /\ d.out[j].class = "start"
        /\ \A k \in 1 .. BlockBytes : d.out[j + k] = [class |-> "data", of |-> content, at |-> k]
        /\ \A k \in 1 .. 2 : d.out[j + BlockBytes + k].class = "ff"
    BY <2>1, <2>2 DEF BlockIn
  <2> HIDE DEF content
  <2>31. Len(d.out) = j + BlockBytes + 2 /\ j \in Nat /\ j >= 1
    BY <2>2, <2>3, <1>3
  <2>4. Ahead(w, o) = Len(d.out)
    <3>1. Len(d.out) >= n
      BY ONLY <2>31, Sizes, n \in Nat, n <= BlockBytes + 2
    <3> QED BY <3>1, <1>3, <1>5
  <2>5. BlockAt(w, o, j, content)
    <3>1. /\ j \in 1 .. Len(d.out)
          /\ \A k \in 1 .. BlockBytes : j + k \in 1 .. Len(d.out)
          /\ \A k \in 1 .. 2 : j + BlockBytes + k \in 1 .. Len(d.out)
      BY ONLY <2>31, Sizes
    <3>2. At(w, o, j).class = "start"
      BY <3>1, <2>3, <1>5
    <3>3. \A k \in 1 .. BlockBytes : At(w, o, j + k) = [class |-> "data", of |-> content, at |-> k]
      <4> TAKE k \in 1 .. BlockBytes
      <4>1. At(w, o, j + k) = d.out[j + k]
        BY <3>1, <1>5
      <4> QED BY <4>1, <2>3
    <3>4. \A k \in 1 .. 2 : At(w, o, j + BlockBytes + k).class = "ff"
      <4> TAKE k \in 1 .. 2
      <4>1. At(w, o, j + BlockBytes + k) = d.out[j + BlockBytes + k]
        BY <3>1, <1>5
      <4> QED BY <4>1, <2>3
    <3> QED BY <3>2, <3>3, <3>4, <2>3, <2>4 DEF BlockAt
  <2>6. \A p \in i .. j - 1 : At(w, o, p).class # "start"
    <3> TAKE p \in i .. j - 1
    <3>1. p \in 1 .. Len(d.out)
      BY ONLY <2>31, Sizes, i \in Nat \ {0}, p \in i .. j - 1
    <3>2. CASE p <= Len(c.out)
      <4>1. c.out[p].class # "start"
        BY <3>2, <1>3, <1>4, <1>9 DEF Nothing, Without
      <4> QED BY <3>1, <3>2, <4>1, <2>2, <1>3, <1>5, SMTT(30)
    <3>3. CASE p > Len(c.out)
      BY <3>1, <3>3, <2>2, <1>3, <1>5, SMTT(30)
    <3> QED BY <3>2, <3>3, <1>3
  <2>7. j \in i .. Ahead(w, o)
    BY <1>3, <2>2, <2>3, <2>4
  <2> QED BY <1>2, <2>1, <2>5, <2>6, <2>7 DEF Something, content
<1> QED BY <1>7, <1>8, <1>9 DEF Coming, w, o, f
=============================================================================
