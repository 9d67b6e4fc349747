------------------------------- MODULE NetIp4 -------------------------------
(***************************************************************************)
(* The network of src/network: TNetAdapter (netadapter.cpp), the address   *)
(* resolution and the UDP sockets of TIp4Handler (net_ip4.cpp) on top of   *)
(* it, and below it the descriptor rings of an Ethernet driver             *)
(* (armm/IMXRT/src/hweth_imxrt.cpp, armm/STM32/src/hweth_stm32.cpp) and    *)
(* the MAC that works on them.                                             *)
(*                                                                         *)
(* The main loop calls Run, Send and Receive; the MAC sends and receives   *)
(* between any two calls.  A packet has one member, next, and is in one of *)
(* the lists linked by it: the free packets, the packets being sent, the   *)
(* jobs that wait for an address or, when received, the packets of a       *)
(* socket.                                                                 *)
(*                                                                         *)
(* Marks and Links tell the drivers apart.                                 *)
(***************************************************************************)
EXTENDS Arp4Table, FiniteSets

CONSTANTS
  Pool,      \* number of transmit packets: max_tx_packets less the one reserved
  MaxRx,     \* max_rx_packets
  MaxTries,  \* max_tries
  Dest,      \* the destinations datagrams are sent to
  Hop,       \* [Dest -> Ip]: the destination if it is local, else the gateway
  Socket,    \* the sockets
  Heard,     \* the announcements that may arrive: "request" or "reply", ip, mac
  Marks,     \* TryRecv marks the descriptor it returns (hweth_imxrt)
  Burst,     \* bound: frames that arrive between two calls of Run
  Links      \* the link states that PhyStatusPoll may find; {TRUE}: Stop does nothing

ASSUME NetAssumption ==
  /\ Pool \in Nat \ {0}
  /\ MaxRx \in Nat \ {0}
  /\ MaxTries \in Nat \ {0}
  /\ Hop \in [Dest -> Ip]
  /\ Heard \subseteq [kind : {"request", "reply"}, ip : Ip, mac : Mac]
  /\ Marks \in BOOLEAN
  /\ Burst \in 0 .. MaxRx
  /\ TRUE \in Links /\ Links \subseteq BOOLEAN

Sys    == Pool + 1        \* the packet of the ARP requests
Packet == 1 .. Sys
Slot   == 0 .. Pool       \* the transmit descriptors: max_tx_packets of them
RxSlot == 1 .. MaxRx      \* the receive descriptors, each with its packet

\* Mutant: the index does not wrap.
NextSlotUnwrapped(i) == i + 1

NextSlot(i)   == IF i + 1 > Pool THEN 0 ELSE i + 1
NextRxSlot(i) == IF i + 1 > MaxRx THEN 1 ELSE i + 1

\* What a packet holds: an ARP request for hop, a datagram to send by way of hop,
\* an answer to an ARP request or to an echo request.
Frame(kind, hop, mac) == [kind |-> kind, hop |-> hop, mac |-> mac]
NoFrame == Frame("none", NoIp, NoMac)
Answer  == Frame("answer", NoIp, NoMac)

VARIABLES
  tx,      \* the transmit side: packets, lists, descriptors, jobs
  table,   \* the address table
  rx,      \* the receive side: descriptors and the sockets' lists
  running, \* the MAC is started
  at,      \* the MAC: the descriptors it is at
  mru,     \* history: the announcements taken notice of, on a sequence
  asked,   \* history: the requests sent for the address of the first job
  called   \* history: flips whenever Run is called

vars == <<tx, table, rx, running, at, mru, asked, called>>

-----------------------------------------------------------------------------
(* TNetAdapter: the transmit packets. *)

Chain(t) == Follow(t.sfirst, t.next, Pool + 2)
Jobs(t)  == Follow(t.jfirst, t.next, Pool + 2)
Free(t)  == Follow(t.free, t.next, Pool + 2)

\* SendFinished: the MAC has given the descriptor back.
SendFinished(t, i) == t.ring[i] = Null

\* Mutant: a system packet is put into the free list too.
ReleaseAnyTxPacket(t, p) ==
  [t EXCEPT !.status[p] = 0, !.idx[p] = 0, !.frame[p] = NoFrame, !.next[p] = t.free, !.free = p]

\* A released packet's descriptor number and data mean nothing any more.
ReleaseTxPacket(t, p) ==
  IF p = Sys THEN [t EXCEPT !.status[p] = 0, !.idx[p] = 0]
  ELSE [t EXCEPT !.status[p] = 0, !.idx[p] = 0, !.frame[p] = NoFrame, !.next[p] = t.free, !.free = p]

\* Mutant: the number returned is that of the following descriptor.
TrySendAfter(t, p) ==
  [t EXCEPT !.ring[t.slot] = p, !.idx[p] = NextSlot(t.slot), !.slot = NextSlot(@)]

\* TrySend: the next descriptor, unless the MAC has it still.
TrySend(t, p) == [t EXCEPT !.ring[t.slot] = p, !.idx[p] = t.slot, !.slot = NextSlot(@)]

SendTxPacket(t, p) ==
  IF ~SendFinished(t, t.slot) THEN ReleaseTxPacket(t, p)
  ELSE LET s == [TrySend(t, p) EXCEPT !.status[p] = 1, !.next[p] = Null]
           chained == IF s.slast # Null THEN [s EXCEPT !.next[s.slast] = p, !.slast = p]
                                        ELSE [s EXCEPT !.sfirst = p, !.slast = p]
       IN [chained EXCEPT !.next[p] = Null]

\* How many packets at the head of the chain are sent.
Sent(t, chain) ==
  CHOOSE n \in 0 .. Len(chain) :
    /\ \A k \in 1 .. n : SendFinished(t, t.idx[chain[k]])
    /\ n < Len(chain) => ~SendFinished(t, t.idx[chain[n + 1]])

\* Run: they are released.
ReleaseSent(t) ==
  LET chain == Chain(t)
      sent  == Sent(t, chain)
      first == IF sent < Len(chain) THEN chain[sent + 1] ELSE Null
      released[k \in 0 .. sent] ==
        IF k = 0 THEN [t EXCEPT !.sfirst = first, !.slast = IF first = Null THEN Null ELSE @]
                 ELSE ReleaseTxPacket(released[k - 1], chain[k])
  IN released[sent]

\* AllocateTxPacket, when there is a free packet, and what is written to it.
Allocated(t) == t.free
Allocate(t, frame) == [t EXCEPT !.free = t.next[t.free], !.frame[t.free] = frame]

-----------------------------------------------------------------------------
(* TArp4Table: the jobs. *)

\* FinishJob
Unqueue(t) ==
  LET after == t.next[t.jfirst]
  IN [t EXCEPT !.jfirst = after, !.jlast = IF after = Null THEN Null ELSE @]

FinishJob(t, send) ==
  IF send THEN SendTxPacket(Unqueue(t), t.jfirst) ELSE ReleaseTxPacket(Unqueue(t), t.jfirst)

\* The request is sent, and the time it was sent at is noted.
SendRequest(t, tries) ==
  [SendTxPacket(t, Sys) EXCEPT !.phase = 1, !.trycnt = tries, !.expired = FALSE]

\* No job is worked on: the tries, the time and a request that is not being sent
\* mean nothing until phase 0 sets them again.
Rest(t) ==
  [t EXCEPT !.phase = 0, !.trycnt = 0, !.expired = FALSE,
            !.frame[Sys] = IF t.status[Sys] = 0 THEN NoFrame ELSE @]

\* Mutant: one try too few.
GivesUpEarly(t) == t.trycnt + 1 >= MaxTries

GivesUp(t) == t.trycnt >= MaxTries

\* Mutant: the time is not looked at.
NeverTimedOut(t) == FALSE

\* response_timeout_ms have passed since start_ms.
TimedOut(t) == t.expired

\* Run
ArpRun(t, tab) ==
  LET job  == t.jfirst
      item == FindByIp(tab, t.frame[job].hop)
  IN IF job = Null THEN t
     ELSE CASE t.phase = 0 ->
                 SendRequest([t EXCEPT !.frame[Sys] = Frame("request", t.frame[job].hop, NoMac)], 1)
            [] t.phase = 1 ->
                 [t EXCEPT !.phase = IF t.status[Sys] = 0 THEN 5 ELSE IF TimedOut(t) THEN 9 ELSE 1]
            [] t.phase = 5 /\ item # Null ->
                 Rest(FinishJob([t EXCEPT !.frame[job].mac = tab.mac[item]], TRUE))
            [] t.phase = 5 /\ item = Null ->
                 [t EXCEPT !.phase = IF TimedOut(t) THEN 9 ELSE 5]
            [] t.phase = 9 /\ GivesUp(t)  -> Rest(FinishJob(t, FALSE))
            [] t.phase = 9 /\ ~GivesUp(t) -> SendRequest(t, t.trycnt + 1)

SendWithArp(t, tab, p) ==
  LET item == FindByIp(tab, t.frame[p].hop)
      ended == [t EXCEPT !.next[p] = Null]
      queued == IF ended.jlast # Null THEN [ended EXCEPT !.next[t.jlast] = p, !.jlast = p]
                                      ELSE [ended EXCEPT !.jfirst = p, !.jlast = p]
  IN IF item # Null THEN SendTxPacket([t EXCEPT !.frame[p].mac = tab.mac[item]], p)
                    ELSE ArpRun(queued, tab)
-----------------------------------------------------------------------------
(* The receive descriptors: "empty" belongs to the MAC, "filled" holds a     *)
(* frame, "taken" is marked by TryRecv.                                      *)

Queue(r, so) == Follow(r.first[so], r.next, MaxRx + 1)

\* The MAC received n frames since the last Run, into the descriptors from its
\* own on.  What they hold matters, and is chosen, when Run looks at them.
Ring(r) == LET path[k \in 1 .. MaxRx] == IF k = 1 THEN r.at ELSE NextRxSlot(path[k - 1])
           IN [k \in 1 .. MaxRx |-> path[k]]
CanArrive(n) == \A k \in 1 .. n : rx.desc[Ring(rx)[k]] = "empty"
Arrived(r, n) ==
  [r EXCEPT !.desc = [i \in RxSlot |-> IF \E k \in 1 .. n : Ring(r)[k] = i THEN "filled" ELSE @[i]],
            !.at = IF n = MaxRx THEN @ ELSE Ring(r)[n + 1]]

\* The descriptors hweth_stm32 looks at: from the actual one to the MAC's.
Ahead(r) ==
  LET path[k \in 1 .. MaxRx] == IF k = 1 THEN r.cur ELSE NextRxSlot(path[k - 1])
      n == CHOOSE k \in 1 .. MaxRx : path[k] = r.at
  IN [k \in 1 .. n |-> path[k]]

\* The descriptor TryRecv returns the packet of, if there is one.
Received(r) ==
  IF Marks THEN SelectInSeq(r.desc, LAMBDA d: d = "filled")
  ELSE LET k == SelectInSeq(Ahead(r), LAMBDA i: r.desc[i] # "empty")
       IN IF k = 0 THEN Null ELSE Ahead(r)[k]

TryRecv(r) ==
  LET i == Received(r)
  IN IF Marks THEN IF i = Null THEN r ELSE [r EXCEPT !.desc[i] = "taken"]
              ELSE [r EXCEPT !.cur = IF i = Null THEN r.at ELSE NextRxSlot(i)]

ReleaseRxBuf(r, i) == [r EXCEPT !.desc[i] = "empty"]

\* TUdp4Socket::AddRxPacket
AddRxPacket(r, so, i) ==
  LET ended == [r EXCEPT !.next[i] = Null]
  IN IF ended.last[so] # Null THEN [ended EXCEPT !.next[ended.last[so]] = i, !.last[so] = i]
                              ELSE [ended EXCEPT !.first[so] = i, !.last[so] = i]

-----------------------------------------------------------------------------
(* TIp4Handler: what comes in. *)

Datagram(so) == [kind |-> "datagram", socket |-> so]
Arriving == Heard \cup {Datagram(so) : so \in Socket}
                  \cup {[kind |-> "echo"], [kind |-> "other"]}

Announces(f) == f.kind \in {"request", "reply"}
TableAfter(tab, f) == IF Announces(f) THEN Update(tab, f.ip, f.mac) ELSE tab

\* HandleArp, HandleIcmp: an answer needs a free packet.
Reply(t) == IF t.free = Null THEN t ELSE SendTxPacket(Allocate(t, Answer), Allocated(t))

\* HandleRxPacket.  tab: the table after the frame.
HandleRxPacket(t, tab, f) ==
  CASE f.kind \in {"request", "echo"} -> Reply(t)
    [] f.kind = "reply" -> ArpRun(t, tab)
    [] f.kind \in {"datagram", "other"} -> t

\* Mutant: the buffer is released although the datagram is kept.
KeepReleased(r, i, f) ==
  ReleaseRxBuf(IF f.kind = "datagram" THEN AddRxPacket(r, f.socket, i) ELSE r, i)

\* HandleUdp keeps a datagram; any other frame is released after its handler.
Keep(r, i, f) == IF f.kind = "datagram" THEN AddRxPacket(r, f.socket, i) ELSE ReleaseRxBuf(r, i)

-----------------------------------------------------------------------------
(* The calls of the main loop. *)

Init ==
  /\ tx = [next |-> [p \in Packet |-> IF p < Pool THEN p + 1 ELSE Null],
           free |-> 1, sfirst |-> Null, slast |-> Null, jfirst |-> Null, jlast |-> Null,
           status |-> [p \in Packet |-> 0], idx |-> [p \in Packet |-> 0],
           frame |-> [p \in Packet |-> NoFrame],
           ring |-> [i \in Slot |-> Null], slot |-> 0,
           phase |-> 0, trycnt |-> 0, expired |-> FALSE]
  /\ table = EmptyTable
  /\ rx = [desc |-> [i \in RxSlot |-> "empty"], cur |-> 1, at |-> 1, next |-> [i \in RxSlot |-> Null],
           first |-> [so \in Socket |-> Null], last |-> [so \in Socket |-> Null]]
  /\ running = TRUE
  /\ at = 0
  /\ mru = <<>>
  /\ asked = 0
  /\ called = FALSE

\* response_timeout_ms may have passed when Run reads the clock.  A MAC that was
\* running needs far less for a frame.
MayExpire ==
  /\ tx.phase \in {1, 5} /\ ~tx.expired
  /\ tx.phase = 1 => ~running \/ SendFinished(tx, tx.idx[Sys])

\* The history of the first job's requests starts again with the next job.
CountAsked == asked' = IF tx'.jfirst = tx.jfirst THEN asked ELSE 0

\* TNetAdapter::Run, when PhyStatusPoll leaves the MAC in the state up and no
\* frame is there.
RunIdle(r, t, up) ==
  /\ Received(r) = Null \/ ~up
  /\ rx' = IF up THEN TryRecv(r) ELSE r
  /\ tx' = ArpRun(t, table)
  /\ UNCHANGED <<table, mru>>

\* ... and when the frame f is.  A buffer that is still in a socket's list holds
\* the datagram it was put there with.
RunReceive(r, t, up, f) ==
  /\ Received(r) # Null /\ up
  /\ \A so \in Socket : Received(r) \in ToSet(Queue(r, so)) => f = Datagram(so)
  /\ rx' = Keep(TryRecv(r), Received(r), f)
  /\ table' = TableAfter(table, f)
  /\ mru' = IF Announces(f) THEN MruUpdate(mru, f.ip, f.mac) ELSE mru
  /\ tx' = ArpRun(HandleRxPacket(t, table', f), table')

Run(late) ==
  /\ \E up \in Links, n \in 0 .. (IF running THEN Burst ELSE 0) :
       LET r == Arrived(rx, n)
           t == ReleaseSent([tx EXCEPT !.expired = @ \/ late])
       IN /\ CanArrive(n)
          /\ late => MayExpire
          /\ running' = up
          /\ RunIdle(r, t, up) \/ \E f \in Arriving : RunReceive(r, t, up, f)
  /\ CountAsked
  /\ called' = ~called
  /\ UNCHANGED at

\* TUdp4Socket::Send, SendWithRouting: returns 0 when there is no free packet.
Send(d) ==
  /\ tx.free # Null
  /\ tx' = SendWithArp(Allocate(tx, Frame("datagram", Hop[d], NoMac)), table, Allocated(tx))
  /\ CountAsked
  /\ UNCHANGED <<table, rx, running, at, mru, called>>

\* TUdp4Socket::Receive
Receive(so) ==
  LET i == rx.first[so]
      after == rx.next[i]
  IN /\ i # Null
     /\ rx' = ReleaseRxBuf([rx EXCEPT !.first[so] = after,
                                      !.last[so] = IF after = Null THEN Null ELSE @], i)
     /\ UNCHANGED <<tx, table, running, at, mru, asked, called>>

-----------------------------------------------------------------------------
(* The MAC. *)

MacSends ==
  LET p == tx.ring[at]
  IN /\ running /\ p # Null
     /\ tx' = [tx EXCEPT !.ring[at] = Null, !.frame[p] = IF p = Sys THEN @ ELSE NoFrame]
     /\ at' = NextSlot(at)
     /\ asked' = IF p = Sys /\ tx.jfirst # Null /\ tx.frame[p].hop = tx.frame[tx.jfirst].hop
                 THEN asked + 1 ELSE asked
     /\ UNCHANGED <<table, rx, running, mru, called>>

Next ==
  \/ \E late \in BOOLEAN : Run(late)
  \/ \E d \in Dest : Send(d)
  \/ \E so \in Socket : Receive(so)
  \/ MacSends

\* The main loop calls Run for ever, the MAC sends, and a time that has been
\* running long enough is over when some Run looks at it.
Fairness ==
  /\ WF_called(called' = ~called)
  /\ WF_vars(MacSends)
  /\ []<>~MayExpire \/ []<><<tx'.expired>>_tx

Spec == Init /\ [][Next]_vars /\ Fairness

-----------------------------------------------------------------------------
(* Properties. *)

PacketOrNull == Packet \cup {Null}
TableRange == 0 .. MaxItems
FrameType == [kind : {"none", "request", "datagram", "answer"},
              hop : Ip \cup {NoIp}, mac : Mac \cup {NoMac}]

\* The type of every variable.
TypeOK ==
  /\ tx \in [next : [Packet -> PacketOrNull], free : PacketOrNull,
             sfirst : PacketOrNull, slast : PacketOrNull,
             jfirst : PacketOrNull, jlast : PacketOrNull,
             status : [Packet -> {0, 1}], idx : [Packet -> Slot],
             frame : [Packet -> FrameType], ring : [Slot -> PacketOrNull], slot : Slot,
             phase : {0, 1, 5, 9}, trycnt : 0 .. MaxTries, expired : BOOLEAN]
  /\ table \in [first : TableRange, last : TableRange, free : TableRange,
                prev : [Item -> TableRange], next : [Item -> TableRange],
                ip : [Item -> Ip \cup {NoIp}], mac : [Item -> Mac \cup {NoMac}]]
  /\ rx \in [desc : [RxSlot -> {"empty", "filled", "taken"}], cur : RxSlot, at : RxSlot,
             next : [RxSlot -> RxSlot \cup {Null}],
             first : [Socket -> RxSlot \cup {Null}], last : [Socket -> RxSlot \cup {Null}]]
  /\ running \in BOOLEAN /\ called \in BOOLEAN
  /\ at \in Slot
  /\ mru \in Seq(Announcement)
  /\ asked \in 0 .. MaxTries

EndsAt(list, p) == p = IF list = <<>> THEN Null ELSE list[Len(list)]

\* Every packet of the pool is in one place of one list (free, being sent,
\* waiting for an address), although all the lists use the packet's one next
\* pointer; the packet of the requests is in the chain while its status says so.
OnePlace ==
  LET all == Free(tx) \o Chain(tx) \o Jobs(tx)
  IN /\ ToSet(all) \ {Sys} = 1 .. Pool
     /\ Len(all) = Pool + tx.status[Sys]
     /\ tx.status[Sys] = 1 <=> Sys \in ToSet(Chain(tx))
     /\ EndsAt(Chain(tx), tx.slast) /\ EndsAt(Jobs(tx), tx.jlast)

\* A packet whose descriptor the MAC still owns is in the sending chain, under
\* that descriptor: nobody gets it, or writes to it, while the MAC reads it.
MacOwnsChain ==
  \A i \in Slot : tx.ring[i] # Null =>
    /\ tx.ring[i] \in ToSet(Chain(tx))
    /\ tx.idx[tx.ring[i]] = i

\* A received datagram waits in one place of one socket's list and its buffer
\* does not belong to the MAC until Receive takes it; a buffer that TryRecv
\* returned is in a list or was given back.
\* ("do not release this packet until it is processed", net_ip4.cpp:572)
QueuedIsKept ==
  LET Place == {w \in Socket \X (1 .. MaxRx + 1) : w[2] <= Len(Queue(rx, w[1]))}
      Of(w) == Queue(rx, w[1])[w[2]]
  IN /\ \A v, w \in Place : Of(v) = Of(w) => v = w
     /\ \A w \in Place : rx.desc[Of(w)] # "empty"
     /\ \A i \in RxSlot : rx.desc[i] = "taken" => \E w \in Place : Of(w) = i
     /\ \A so \in Socket : EndsAt(Queue(rx, so), rx.last[so])

\* The address table holds the last max_items stations that announced
\* themselves, the latest first, each with the address it announced last.
TableIsMru == WellLinked(table) /\ Contents(table) = mru

\* A datagram goes to the MAC with the hardware address of the station that
\* announced the next hop's address last, among the stations still known.
GoesToLatest ==
  [][\A p \in 1 .. Pool :
       tx.status[p] = 0 /\ tx'.status[p] = 1 /\ tx'.frame[p].kind = "datagram"
       => LET k == SelectInSeq(mru', LAMBDA a: a.ip = tx'.frame[p].hop)
          IN k # 0 /\ tx'.frame[p].mac = mru'[k].mac]_vars

\* A datagram that waits for an address is not released before max_tries
\* requests for its own next hop went out.
GivenUpLate ==
  [][\A p \in ToSet(Jobs(tx)) : tx'.frame[p] = NoFrame => asked = MaxTries]_vars

\* A datagram does not wait for an address for ever.
JobsEnd ==
  \A p \in 1 .. Pool : p \in ToSet(Jobs(tx)) ~> p \notin ToSet(Jobs(tx))
=============================================================================
