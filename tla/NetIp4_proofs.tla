---------------------------- MODULE NetIp4_proofs ----------------------------
(***************************************************************************)
(* Proofs about the IPv4 adapter, for every size of the pool, the rings    *)
(* and the table, and all sets of addresses and sockets.                   *)
(*                                                                         *)
(* Transmit: there are lists F, C and J, the free packets, those being     *)
(* sent and the jobs, that the pointers lead through; each packet is in    *)
(* one of them or in the hands of the handler that runs, and the packets   *)
(* of C have the last Len(C) descriptors filled, in their order, of which  *)
(* the MAC gave the first m back (InPlace).  The request is in C only      *)
(* while ArpRun waits for it, and the requests counted are those for the   *)
(* first job (Asking).  Every operation keeps this, if the link is up when *)
(* PhyStatusPoll reads it: while it is down the MAC sends nothing, and a   *)
(* request that times out is sent again while it is still in the chain.    *)
(*                                                                         *)
(* Table: the items in use are a list L, linked both ways, whose stations  *)
(* are the announcements kept, the latest first (Holds).                   *)
(*                                                                         *)
(* Receive: a buffer marked taken is in the list of one socket, once       *)
(* (Queued), with a driver that marks them.                                *)
(***************************************************************************)
EXTENDS NetIp4, SequenceTheorems, FiniteSetTheorems, WellFoundedInduction, TLAPS

\* A set of natural numbers that is not empty has a least element.
LEMMA Least ==
  ASSUME NEW T, T \subseteq Nat, T # {}
  PROVE  \E x \in T : \A y \in T : x <= y
<1>1. IsWellFoundedOn(OpToRel(<, Nat), Nat)
  BY NatLessThanWellFounded
<1>2. PICK x \in T : \A y \in T : ~(<<y, x>> \in OpToRel(<, Nat))
  BY <1>1, WFMin
<1>3. \A y \in T : ~(y < x)
  BY <1>2 DEF OpToRel
<1> QED BY <1>3

\* The list of the elements that the pointer first and the members next lead to.
Linked(first, next, list) ==
  /\ first = IF list = <<>> THEN Null ELSE list[1]
  /\ \A k \in 1 .. Len(list) :
       next[list[k]] = IF k = Len(list) THEN Null ELSE list[k + 1]

\* Sequences of the same length with the same elements are the same.
LEMMA SameSeq ==
  ASSUME NEW S, NEW T, NEW s \in Seq(S), NEW t \in Seq(T), Len(s) = Len(t),
         \A k \in 1 .. Len(s) : s[k] = t[k]
  PROVE  s = t
OBVIOUS

\* Following the pointers gives the list.
LEMMA FollowLinked ==
  ASSUME NEW first, NEW next, NEW n \in Nat \ {0}, NEW S, NEW list \in Seq(S), Null \notin S,
         Linked(first, next, list), Len(list) <= n
  PROVE  Follow(first, next, n) = list
<1> DEFINE Step(s) == IF s = <<>> THEN s
                      ELSE IF next[s[Len(s)]] = Null THEN s ELSE Append(s, next[s[Len(s)]])
           First == IF first = Null THEN <<>> ELSE <<first>>
           Good(path) == path = [k \in 1 .. n |-> IF k = 1 THEN First ELSE Step(path[k - 1])]
           d == Len(list)
           Cut(k) == SubSeq(list, 1, IF k < d THEN k ELSE d)
           g == [k \in 1 .. n |-> Cut(k)]
           path == CHOOSE f : Good(f)
<1>1. Follow(first, next, n) = path[n]
  BY DEF Follow
<1>2. \A k \in 1 .. n : Cut(k) \in Seq(S) /\ Len(Cut(k)) = (IF k < d THEN k ELSE d)
                        /\ \A j \in 1 .. Len(Cut(k)) : Cut(k)[j] = list[j]
  OBVIOUS
<1>3. Cut(1) = First
  <2>1. CASE list = <<>>
    BY <2>1, <1>2 DEF Linked
  <2>2. CASE list # <<>>
    <3>1. first = list[1] /\ first \in S /\ first # Null /\ d >= 1
      BY <2>2 DEF Linked
    <3>2. First = <<first>>
      BY <3>1
    <3>3. Len(Cut(1)) = 1 /\ Cut(1)[1] = list[1] /\ Cut(1) \in Seq(S)
      <4>1. 1 \in 1 .. n /\ d \in Nat
        OBVIOUS
      <4>2. Cut(1) \in Seq(S) /\ Len(Cut(1)) = (IF 1 < d THEN 1 ELSE d)
        BY <4>1, <1>2, Zenon
      <4>3. (IF 1 < d THEN 1 ELSE d) = 1
        BY <3>1, <4>1, SMTT(40)
      <4> QED BY <4>1, <4>2, <4>3, <1>2
    <3> HIDE DEF Cut, First
    <3> QED BY <3>1, <3>2, <3>3
  <2> QED BY <2>1, <2>2
<1>4. \A k \in 2 .. n : Cut(k) = Step(Cut(k - 1))
  <2> SUFFICES ASSUME NEW k \in 2 .. n PROVE Cut(k) = Step(Cut(k - 1))
    OBVIOUS
  <2>1. k - 1 \in 1 .. n /\ k \in 1 .. n
    OBVIOUS
  <2>2. CASE d = 0
    <3>1. Cut(k) = <<>> /\ Cut(k - 1) = <<>>
      BY <2>1, <2>2, <1>2
    <3> HIDE DEF Cut
    <3> QED BY <3>1
  <2>3. CASE d > 0 /\ k - 1 >= d
    <3>1. Cut(k) = Cut(k - 1) /\ Len(Cut(k - 1)) = d /\ Cut(k - 1)[d] = list[d]
      BY <2>1, <2>3, <1>2
    <3>2. next[list[d]] = Null
      BY <2>3 DEF Linked
    <3> HIDE DEF Cut
    <3> QED BY <3>1, <3>2, <2>3
  <2>4. CASE k - 1 < d
    <3>1. /\ Len(Cut(k - 1)) = k - 1 /\ Cut(k - 1)[k - 1] = list[k - 1]
          /\ Len(Cut(k)) = k /\ Cut(k) \in Seq(S) /\ Cut(k - 1) \in Seq(S)
          /\ \A j \in 1 .. k - 1 : Cut(k)[j] = Cut(k - 1)[j]
          /\ Cut(k)[k] = list[k]
      BY <2>1, <2>4, <1>2
    <3>2. next[list[k - 1]] = list[k] /\ list[k] \in S /\ list[k] # Null
      BY <2>4, <2>1 DEF Linked
    <3> HIDE DEF Cut
    <3>3. Step(Cut(k - 1)) = Append(Cut(k - 1), list[k])
      BY <3>1, <3>2, <2>1
    <3>4. Cut(k) = Append(Cut(k - 1), list[k])
      <4>1. Append(Cut(k - 1), list[k]) \in Seq(S)
        BY <3>1, <3>2
      <4>2. /\ Len(Append(Cut(k - 1), list[k])) = k
            /\ \A j \in 1 .. k : Append(Cut(k - 1), list[k])[j] = Cut(k)[j]
        BY <3>1, <3>2, <2>1
      <4> QED BY <4>1, <4>2, <3>1, SameSeq
    <3> QED BY <3>3, <3>4
  <2> QED BY <2>1, <2>2, <2>3, <2>4
<1> HIDE DEF Cut, First, Step
<1>5. Good(g)
  BY <1>3, <1>4
<1>6. Good(path)
  BY <1>5
<1>7. \A k \in 1 .. n : path[k] = Cut(k)
  <2> DEFINE Bad == {k \in 1 .. n : path[k] # Cut(k)}
  <2> HIDE DEF path
  <2>1. SUFFICES ASSUME Bad # {} PROVE FALSE
    OBVIOUS
  <2>2. PICK k \in Bad : \A j \in Bad : k <= j
    <3>1. Bad \subseteq Nat
      OBVIOUS
    <3> HIDE DEF Bad
    <3> QED BY <2>1, <3>1, Least
  <2>3. path[k] = IF k = 1 THEN First ELSE Step(path[k - 1])
    BY <1>6
  <2>4. CASE k = 1
    BY <2>2, <2>3, <2>4, <1>3
  <2>5. CASE k # 1
    <3>1. k - 1 \in 1 .. n /\ k - 1 \notin Bad /\ k \in 2 .. n
      BY <2>2, <2>5
    <3>2. path[k - 1] = Cut(k - 1)
      BY <3>1
    <3> QED BY <2>2, <2>3, <2>5, <3>1, <3>2, <1>4
  <2> QED BY <2>4, <2>5
<1>8. Cut(n) = list
  BY <1>2 DEF Cut
<1> QED BY <1>1, <1>7, <1>8

-----------------------------------------------------------------------------
(* The inductive invariant of the transmit side. *)

\* No element is in the list twice; no element is in both; an element is in the list.
Distinct(list) == \A j, k \in 1 .. Len(list) : list[j] = list[k] => j = k
Apart(some, others) ==
  \A j \in 1 .. Len(some), k \in 1 .. Len(others) : some[j] # others[k]
In(p, list) == \E k \in 1 .. Len(list) : list[k] = p

\* The descriptor n before slot in the ring.
Back(slot, n) == IF slot >= n THEN slot - n ELSE slot + Pool + 1 - n

\* The type of the transmit side.
FieldType ==
  [next : [Packet -> PacketOrNull], free : PacketOrNull,
   sfirst : PacketOrNull, slast : PacketOrNull,
   jfirst : PacketOrNull, jlast : PacketOrNull,
   status : [Packet -> {0, 1}], idx : [Packet -> Slot],
   frame : [Packet -> FrameType], ring : [Slot -> PacketOrNull], slot : Slot,
   phase : {0, 1, 5, 9}, trycnt : 0 .. MaxTries, expired : BOOLEAN]

\* F, C and J are the free packets, those being sent and those that wait for an
\* address.
Linkage(t, F, C, J) ==
  /\ Linked(t.free, t.next, F)
  /\ Linked(t.sfirst, t.next, C)
  /\ Linked(t.jfirst, t.next, J)
  /\ EndsAt(C, t.slast) /\ EndsAt(J, t.jlast)

\* Each packet is in one place; h is the packet a handler has in its hands, taken
\* out of the lists, or Null.
Places(t, F, C, J, h) ==
  /\ F \in Seq(1 .. Pool) /\ C \in Seq(Packet) /\ J \in Seq(1 .. Pool)
  /\ Distinct(F) /\ Distinct(C) /\ Distinct(J)
  /\ Apart(F, C) /\ Apart(F, J) /\ Apart(C, J)
  /\ ~In(h, F) /\ ~In(h, C) /\ ~In(h, J)
  /\ \A p \in 1 .. Pool : p = h \/ In(p, F) \/ In(p, C) \/ In(p, J)
  /\ Len(F) + Len(C) + Len(J) =
       Pool + t.status[Sys] - (IF h \in 1 .. Pool THEN 1 ELSE 0)
  /\ \A p \in Packet : t.status[p] = 1 <=> In(p, C)

\* The packets being sent have the descriptors before the next one, in their
\* order.  The MAC is at the descriptor a, and gave the first m ones back.
Sending(t, C, a, m) ==
  /\ m \in 0 .. Len(C)
  /\ a = Back(t.slot, Len(C) - m)
  /\ \A k \in 1 .. Len(C) : /\ t.idx[C[k]] = Back(t.slot, Len(C) + 1 - k)
                            /\ t.ring[Back(t.slot, Len(C) + 1 - k)] = IF k <= m THEN Null ELSE C[k]
  /\ \A i \in Slot : t.ring[i] # Null => \E k \in 1 .. Len(C) : i = Back(t.slot, Len(C) + 1 - k)

\* The request is with the MAC.
Pending(t) == \E i \in Slot : t.ring[i] = Sys

\* What is asked for is the address of the first job.
Asking(t, J, n) ==
  /\ \A k \in 1 .. Len(J) : t.frame[J[k]].kind = "datagram"
  /\ t.phase # 0 => /\ J # <<>>
                    /\ t.frame[Sys].hop = t.frame[J[1]].hop
                    /\ n + (IF Pending(t) THEN 1 ELSE 0) = t.trycnt
                    /\ t.trycnt \in 1 .. MaxTries
  /\ t.phase = 0 => n = 0
  /\ t.status[Sys] = 1 => t.phase = 1
  /\ t.phase = 1 /\ t.expired => t.status[Sys] = 0

-----------------------------------------------------------------------------
(* Lists. *)

\* What the operators on sequences do to the elements and their places.
LEMMA Empty ==
  ASSUME NEW S, NEW list \in Seq(S)
  PROVE  Len(list) \in Nat /\ (list = <<>> <=> Len(list) = 0)
OBVIOUS

\* A sequence with one more element.
LEMMA Appended ==
  ASSUME NEW S, NEW list \in Seq(S), NEW p \in S
  PROVE  LET more == Append(list, p)
         IN /\ more \in Seq(S) /\ Len(more) = Len(list) + 1 /\ Len(list) \in Nat
            /\ more # <<>>
            /\ more[Len(list) + 1] = p
            /\ \A k \in 1 .. Len(list) : more[k] = list[k]
<1> DEFINE more == Append(list, p)
<1>1. /\ more \in Seq(S) /\ Len(more) = Len(list) + 1
      /\ more[Len(list) + 1] = p
      /\ \A k \in 1 .. Len(list) : more[k] = list[k]
  BY AppendProperties
<1>2. Len(list) \in Nat
  BY Empty
<1> HIDE DEF more
<1>3. more # <<>>
  BY <1>1, <1>2, Empty
<1> QED BY <1>1, <1>2, <1>3 DEF more

\* A sequence without its first element.
LEMMA TailOf ==
  ASSUME NEW S, NEW list \in Seq(S), list # <<>>
  PROVE  LET rest == Tail(list)
         IN /\ rest \in Seq(S) /\ Len(rest) = Len(list) - 1 /\ Len(list) \in Nat /\ Len(list) > 0
            /\ \A k \in 1 .. Len(list) - 1 : rest[k] = list[k + 1]
            /\ (rest = <<>> <=> Len(list) = 1)
<1> DEFINE rest == Tail(list)
<1>1. /\ rest \in Seq(S) /\ Len(rest) = Len(list) - 1
      /\ \A k \in 1 .. Len(rest) : rest[k] = list[k + 1]
  BY HeadTailProperties
<1>2. Len(list) \in Nat /\ Len(list) > 0
  BY Empty
<1> HIDE DEF rest
<1>3. rest = <<>> <=> Len(list) = 1
  BY <1>1, <1>2, Empty
<1> QED BY <1>1, <1>2, <1>3 DEF rest

\* A list stays linked while the next members of its elements are kept.
LEMMA LinkedKept ==
  ASSUME NEW first, NEW next, NEW next2, NEW list, Linked(first, next, list),
         \A k \in 1 .. Len(list) : next2[list[k]] = next[list[k]]
  PROVE  Linked(first, next2, list)
BY DEF Linked

\* Putting an element at the end of a list, as AddLast and the drivers' Send do.
LEMMA LinkedAppend ==
  ASSUME NEW first, NEW next, NEW next2, NEW S, NEW list \in Seq(S), NEW p \in S,
         Linked(first, next, list), Distinct(list), ~In(p, list),
         next2[p] = Null,
         \A k \in 1 .. Len(list) :
           next2[list[k]] = IF k = Len(list) THEN p ELSE next[list[k]]
  PROVE  Linked(IF list = <<>> THEN p ELSE first, next2, Append(list, p))
<1> DEFINE more == Append(list, p)
<1>1. /\ more \in Seq(S) /\ Len(more) = Len(list) + 1 /\ more # <<>>
      /\ more[Len(list) + 1] = p /\ \A k \in 1 .. Len(list) : more[k] = list[k]
  BY Appended
<1>2. Len(list) \in Nat /\ (list = <<>> <=> Len(list) = 0)
  BY Empty
<1> HIDE DEF more
<1>3. (IF list = <<>> THEN p ELSE first) = more[1]
  BY <1>1, <1>2 DEF Linked
<1>4. ASSUME NEW k \in 1 .. Len(more)
      PROVE  next2[more[k]] = IF k = Len(more) THEN Null ELSE more[k + 1]
  <2>1. CASE k = Len(more)
    BY <2>1, <1>1
  <2>2. CASE k = Len(list)
    BY <2>2, <1>1, <1>2
  <2>3. CASE k < Len(list)
    BY <2>3, <1>1, <1>2 DEF Linked
  <2> QED BY <2>1, <2>2, <2>3, <1>1, <1>2
<1> QED BY <1>1, <1>3, <1>4 DEF Linked, more

\* Taking the first element of a list out.
LEMMA LinkedTail ==
  ASSUME NEW first, NEW next, NEW next2, NEW S, NEW list \in Seq(S), list # <<>>,
         Linked(first, next, list),
         \A k \in 2 .. Len(list) : next2[list[k]] = next[list[k]]
  PROVE  Linked(next[first], next2, Tail(list))
<1> DEFINE rest == Tail(list)
<1>1. /\ rest \in Seq(S) /\ Len(rest) = Len(list) - 1 /\ Len(list) \in Nat /\ Len(list) > 0
      /\ \A k \in 1 .. Len(list) - 1 : rest[k] = list[k + 1]
      /\ (rest = <<>> <=> Len(list) = 1)
  BY TailOf
<1> HIDE DEF rest
<1>2. next[first] = IF rest = <<>> THEN Null ELSE rest[1]
  BY <1>1 DEF Linked
<1>3. ASSUME NEW k \in 1 .. Len(rest)
      PROVE  next2[rest[k]] = IF k = Len(rest) THEN Null ELSE rest[k + 1]
  BY <1>1 DEF Linked
<1> QED BY <1>2, <1>3 DEF Linked, rest

\* Putting an element before a list, as ReleaseTxPacket does.
LEMMA LinkedCons ==
  ASSUME NEW first, NEW next, NEW next2, NEW S, NEW list \in Seq(S), NEW p \in S,
         Linked(first, next, list), next2[p] = first,
         \A k \in 1 .. Len(list) : next2[list[k]] = next[list[k]]
  PROVE  Linked(p, next2, <<p>> \o list)
<1> DEFINE more == <<p>> \o list
<1>1. /\ more \in Seq(S) /\ Len(more) = Len(list) + 1 /\ Len(list) \in Nat
      /\ more # <<>> /\ more[1] = p
      /\ \A k \in 1 .. Len(list) : more[k + 1] = list[k]
      /\ (list = <<>> <=> Len(list) = 0)
  OBVIOUS
<1> HIDE DEF more
<1>3. ASSUME NEW k \in 1 .. Len(more)
      PROVE  next2[more[k]] = IF k = Len(more) THEN Null ELSE more[k + 1]
  <2>1. CASE k = 1
    BY <2>1, <1>1 DEF Linked
  <2>2. CASE k # 1
    <3>1. k - 1 \in 1 .. Len(list) /\ more[k] = list[k - 1]
      BY <2>2, <1>1
    <3>2. next2[list[k - 1]] = IF k - 1 = Len(list) THEN Null ELSE list[k - 1 + 1]
      BY <3>1 DEF Linked
    <3>3. k # Len(more) => more[k + 1] = list[k - 1 + 1]
      BY <3>1, <1>1
    <3> QED BY <3>1, <3>2, <3>3, <1>1
  <2> QED BY <2>1, <2>2
<1> QED BY <1>1, <1>3 DEF Linked, more

\* The elements of a list with one more at the end.
LEMMA AppendList ==
  ASSUME NEW S, NEW list \in Seq(S), NEW p \in S, Distinct(list), ~In(p, list)
  PROVE  /\ Append(list, p) \in Seq(S) /\ Len(Append(list, p)) = Len(list) + 1
         /\ Distinct(Append(list, p))
         /\ \A q : In(q, Append(list, p)) <=> q = p \/ In(q, list)
         /\ EndsAt(Append(list, p), p)
<1> DEFINE more == Append(list, p)
<1>1. /\ more \in Seq(S) /\ Len(more) = Len(list) + 1 /\ Len(list) \in Nat /\ more # <<>>
      /\ more[Len(list) + 1] = p /\ \A k \in 1 .. Len(list) : more[k] = list[k]
  BY Appended
<1> HIDE DEF more
<1>2. Distinct(more)
  <2> SUFFICES ASSUME NEW j \in 1 .. Len(more), NEW k \in 1 .. Len(more), more[j] = more[k]
               PROVE  j = k
    BY DEF Distinct
  <2> QED BY <1>1 DEF Distinct, In
<1>3. ASSUME NEW q PROVE In(q, more) <=> q = p \/ In(q, list)
  BY <1>1 DEF In
<1>4. EndsAt(more, p)
  BY <1>1 DEF EndsAt
<1> QED BY <1>1, <1>2, <1>3, <1>4 DEF more

\* The elements of a list without the first.
LEMMA TailList ==
  ASSUME NEW S, NEW list \in Seq(S), list # <<>>, Distinct(list)
  PROVE  /\ Tail(list) \in Seq(S) /\ Len(Tail(list)) = Len(list) - 1
         /\ Distinct(Tail(list))
         /\ \A q : In(q, list) <=> q = list[1] \/ In(q, Tail(list))
         /\ ~In(list[1], Tail(list))
         /\ \A e : EndsAt(list, e) => EndsAt(Tail(list), IF Tail(list) = <<>> THEN Null ELSE e)
<1> DEFINE rest == Tail(list)
<1>1. /\ rest \in Seq(S) /\ Len(rest) = Len(list) - 1 /\ Len(list) \in Nat /\ Len(list) > 0
      /\ \A k \in 1 .. Len(list) - 1 : rest[k] = list[k + 1]
      /\ (rest = <<>> <=> Len(list) = 1)
  BY TailOf
<1> HIDE DEF rest
<1>2. Distinct(rest)
  <2> SUFFICES ASSUME NEW j \in 1 .. Len(rest), NEW k \in 1 .. Len(rest), rest[j] = rest[k]
               PROVE  j = k
    BY DEF Distinct
  <2>1. j + 1 \in 1 .. Len(list) /\ k + 1 \in 1 .. Len(list) /\ list[j + 1] = list[k + 1]
    BY <1>1
  <2> QED BY <2>1 DEF Distinct
<1>3. ASSUME NEW q PROVE In(q, list) <=> q = list[1] \/ In(q, rest)
  <2>1. ASSUME In(q, list) PROVE q = list[1] \/ In(q, rest)
    <3>1. PICK k \in 1 .. Len(list) : list[k] = q
      BY <2>1 DEF In
    <3>2. CASE k = 1
      BY <3>1, <3>2
    <3>3. CASE k # 1
      <4>1. k - 1 \in 1 .. Len(rest) /\ rest[k - 1] = q
        BY <3>1, <3>3, <1>1
      <4> QED BY <4>1 DEF In
    <3> QED BY <3>2, <3>3
  <2>2. ASSUME In(q, rest) PROVE In(q, list)
    <3>1. PICK k \in 1 .. Len(rest) : rest[k] = q
      BY <2>2 DEF In
    <3>2. k + 1 \in 1 .. Len(list) /\ list[k + 1] = q
      BY <3>1, <1>1
    <3> QED BY <3>2 DEF In
  <2>3. In(list[1], list)
    BY <1>1 DEF In
  <2> QED BY <2>1, <2>2, <2>3
<1>4. ~In(list[1], rest)
  <2> SUFFICES ASSUME NEW k \in 1 .. Len(rest), rest[k] = list[1] PROVE FALSE
    BY DEF In
  <2>1. k + 1 \in 1 .. Len(list) /\ list[k + 1] = list[1] /\ 1 \in 1 .. Len(list)
    BY <1>1
  <2> QED BY <2>1 DEF Distinct
<1>5. ASSUME NEW e, EndsAt(list, e) PROVE EndsAt(rest, IF rest = <<>> THEN Null ELSE e)
  <2>1. CASE rest = <<>>
    BY <2>1 DEF EndsAt
  <2>2. CASE rest # <<>>
    <3>1. rest[Len(rest)] = list[Len(list)]
      BY <2>2, <1>1
    <3> QED BY <3>1, <2>2, <1>1, <1>5 DEF EndsAt
  <2> QED BY <2>1, <2>2
<1> QED BY <1>1, <1>2, <1>3, <1>4, <1>5 DEF rest

\* The elements of a list with one more at the front.
LEMMA ConsList ==
  ASSUME NEW S, NEW list \in Seq(S), NEW p \in S, Distinct(list), ~In(p, list)
  PROVE  /\ <<p>> \o list \in Seq(S) /\ Len(<<p>> \o list) = Len(list) + 1
         /\ Distinct(<<p>> \o list)
         /\ \A q : In(q, <<p>> \o list) <=> q = p \/ In(q, list)
<1> DEFINE more == <<p>> \o list
<1>1. /\ more \in Seq(S) /\ Len(more) = Len(list) + 1 /\ Len(list) \in Nat
      /\ more[1] = p
      /\ \A k \in 1 .. Len(list) : more[k + 1] = list[k]
      /\ \A k \in 2 .. Len(more) : more[k] = list[k - 1]
  OBVIOUS
<1> HIDE DEF more
<1>2. Distinct(more)
  <2> SUFFICES ASSUME NEW j \in 1 .. Len(more), NEW k \in 1 .. Len(more), more[j] = more[k]
               PROVE  j = k
    BY DEF Distinct
  <2>1. CASE j = 1 /\ k # 1
    <3>1. k - 1 \in 1 .. Len(list) /\ more[k] = list[k - 1]
      BY <2>1, <1>1
    <3> QED BY <3>1, <2>1, <1>1 DEF In
  <2>2. CASE k = 1 /\ j # 1
    <3>1. j - 1 \in 1 .. Len(list) /\ more[j] = list[j - 1]
      BY <2>2, <1>1
    <3> QED BY <3>1, <2>2, <1>1 DEF In
  <2>3. CASE j # 1 /\ k # 1
    <3>1. /\ k - 1 \in 1 .. Len(list) /\ more[k] = list[k - 1]
          /\ j - 1 \in 1 .. Len(list) /\ more[j] = list[j - 1]
      BY <2>3, <1>1
    <3>2. j - 1 = k - 1
      BY <3>1 DEF Distinct
    <3> QED BY <3>2
  <2> QED BY <2>1, <2>2, <2>3
<1>3. ASSUME NEW q PROVE In(q, more) <=> q = p \/ In(q, list)
  <2>1. ASSUME In(q, more) PROVE q = p \/ In(q, list)
    <3>1. PICK k \in 1 .. Len(more) : more[k] = q
      BY <2>1 DEF In
    <3>2. CASE k = 1
      BY <3>1, <3>2, <1>1
    <3>3. CASE k # 1
      <4>1. k - 1 \in 1 .. Len(list) /\ list[k - 1] = q
        BY <3>1, <3>3, <1>1
      <4> QED BY <4>1 DEF In
    <3> QED BY <3>2, <3>3
  <2>2. ASSUME In(q, list) PROVE In(q, more)
    <3>1. PICK k \in 1 .. Len(list) : list[k] = q
      BY <2>2 DEF In
    <3>2. k + 1 \in 1 .. Len(more) /\ more[k + 1] = q
      BY <3>1, <1>1
    <3> QED BY <3>2 DEF In
  <2>3. In(p, more)
    <3>1. 1 \in 1 .. Len(more)
      BY <1>1
    <3> QED BY <3>1, <1>1 DEF In
  <2> QED BY <2>1, <2>2, <2>3
<1> QED BY <1>1, <1>2, <1>3 DEF more

\* Lists are apart when no element is in both.
LEMMA ApartIn ==
  ASSUME NEW some, NEW others
  PROVE  Apart(some, others) <=> ~ \E q : In(q, some) /\ In(q, others)
BY DEF Apart, In

-----------------------------------------------------------------------------
(* The ring. *)

\* The sizes of the pool, the rings and the table.
LEMMA Sizes ==
  /\ Pool \in Nat /\ Pool > 0 /\ Sys = Pool + 1 /\ Null = 0
  /\ MaxRx \in Nat /\ MaxRx > 0
  /\ MaxTries \in Nat /\ MaxTries > 0
  /\ MaxItems \in Nat /\ MaxItems > 1
BY NetAssumption, TableAssumption DEF Sys, Null

\* Counting back stays in the ring.
LEMMA BackSlot ==
  ASSUME NEW s \in Slot, NEW n \in 0 .. Pool + 1
  PROVE  Back(s, n) \in Slot
BY Sizes DEF Back, Slot

\* From the next descriptor on, everything is one further back.
LEMMA BackNext ==
  ASSUME NEW s \in Slot, NEW n \in 0 .. Pool
  PROVE  Back(NextSlot(s), n + 1) = Back(s, n)
BY Sizes DEF Back, Slot, NextSlot

\* The MAC moves towards the next descriptor to be filled.
LEMMA NextBack ==
  ASSUME NEW s \in Slot, NEW n \in 1 .. Pool + 1
  PROVE  NextSlot(Back(s, n)) = Back(s, n - 1)
BY Sizes DEF Back, Slot, NextSlot

\* Descriptors at different distances are different.
LEMMA BackInjective ==
  ASSUME NEW s \in Slot, NEW j \in 1 .. Pool + 1, NEW k \in 1 .. Pool + 1, Back(s, j) = Back(s, k)
  PROVE  j = k
BY Sizes DEF Back, Slot

\* Less than once around the ring is not where it started.
LEMMA BackHere ==
  ASSUME NEW s \in Slot
  PROVE  Back(s, 0) = s /\ NextSlot(s) \in Slot /\ \A n \in 1 .. Pool : Back(s, n) # s
BY Sizes DEF Back, Slot, NextSlot

-----------------------------------------------------------------------------
(* What the operations do to the members. *)

\* The members of the transmit side.
LEMMA Typed ==
  ASSUME NEW t \in FieldType
  PROVE  /\ t.next \in [Packet -> PacketOrNull] /\ t.free \in PacketOrNull
         /\ t.sfirst \in PacketOrNull /\ t.slast \in PacketOrNull
         /\ t.jfirst \in PacketOrNull /\ t.jlast \in PacketOrNull
         /\ t.status \in [Packet -> {0, 1}] /\ t.idx \in [Packet -> Slot]
         /\ t.frame \in [Packet -> FrameType] /\ t.ring \in [Slot -> PacketOrNull]
         /\ t.slot \in Slot /\ t.phase \in {0, 1, 5, 9} /\ t.trycnt \in 0 .. MaxTries
         /\ t.expired \in BOOLEAN
BY DEF FieldType

\* The frames that the adapter builds have their type.
LEMMA Frames ==
  /\ NoFrame \in FrameType /\ Answer \in FrameType
  /\ \A ip \in Ip : Frame("request", ip, NoMac) \in FrameType
                    /\ Frame("datagram", ip, NoMac) \in FrameType
  /\ NoFrame.kind = "none" /\ Answer.kind = "answer"
  /\ \A kind, ip, mac : Frame(kind, ip, mac).kind = kind /\ Frame(kind, ip, mac).hop = ip
BY DEF NoFrame, Answer, Frame, FrameType

\* r is t with the packet p in the next descriptor and at the end of the chain.
SentAs(t, p, r) ==
  /\ r \in FieldType
  /\ r.free = t.free /\ r.jfirst = t.jfirst /\ r.jlast = t.jlast
  /\ r.sfirst = (IF t.slast = Null THEN p ELSE t.sfirst) /\ r.slast = p
  /\ \A q \in Packet : r.next[q] = IF q = p THEN Null ELSE IF q = t.slast THEN p ELSE t.next[q]
  /\ r.status = [t.status EXCEPT ![p] = 1]
  /\ r.idx = [t.idx EXCEPT ![p] = t.slot]
  /\ r.ring = [t.ring EXCEPT ![t.slot] = p]
  /\ r.slot = NextSlot(t.slot)
  /\ r.frame = t.frame /\ r.phase = t.phase /\ r.trycnt = t.trycnt
  /\ r.expired = t.expired

\* SendTxPacket, member by member: the next descriptor is free, it does not reject the packet.
LEMMA SendFields ==
  ASSUME NEW t \in FieldType, NEW p \in Packet, t.ring[t.slot] = Null
  PROVE  SentAs(t, p, SendTxPacket(t, p))
<1> USE Typed, Sizes
<1> DEFINE s == [TrySend(t, p) EXCEPT !.status[p] = 1, !.next[p] = Null]
           c == IF s.slast # Null THEN [s EXCEPT !.next[s.slast] = p, !.slast = p]
                                  ELSE [s EXCEPT !.sfirst = p, !.slast = p]
           r == [c EXCEPT !.next[p] = Null]
<1>1. SendTxPacket(t, p) = r
  BY DEF SendTxPacket, SendFinished
<1>2. /\ s \in FieldType
      /\ s.free = t.free /\ s.jfirst = t.jfirst /\ s.jlast = t.jlast
      /\ s.sfirst = t.sfirst /\ s.slast = t.slast
      /\ s.next = [t.next EXCEPT ![p] = Null]
      /\ s.status = [t.status EXCEPT ![p] = 1]
      /\ s.idx = [t.idx EXCEPT ![p] = t.slot]
      /\ s.ring = [t.ring EXCEPT ![t.slot] = p]
      /\ s.slot = NextSlot(t.slot)
      /\ s.frame = t.frame /\ s.phase = t.phase /\ s.trycnt = t.trycnt
      /\ s.expired = t.expired
  BY BackHere DEF TrySend, FieldType, PacketOrNull
<1> HIDE DEF s
<1>3. /\ c \in FieldType
      /\ c.free = t.free /\ c.jfirst = t.jfirst /\ c.jlast = t.jlast
      /\ c.sfirst = (IF t.slast = Null THEN p ELSE t.sfirst) /\ c.slast = p
      /\ \A q \in Packet : c.next[q] = IF q = t.slast THEN p ELSE s.next[q]
      /\ c.status = s.status /\ c.idx = s.idx /\ c.ring = s.ring /\ c.slot = s.slot
      /\ c.frame = t.frame /\ c.phase = t.phase /\ c.trycnt = t.trycnt
      /\ c.expired = t.expired
  <2>1. CASE t.slast # Null
    <3>1. t.slast \in Packet
      BY <2>1 DEF PacketOrNull
    <3> QED BY <1>2, <2>1, <3>1, ZenonT(60) DEF FieldType, PacketOrNull
  <2>2. CASE t.slast = Null
    <3>1. \A q \in Packet : q # t.slast
      BY <2>2 DEF Packet
    <3>2. c = [s EXCEPT !.sfirst = p, !.slast = p]
      BY <1>2, <2>2
    <3> HIDE DEF c
    <3>3. c \in FieldType
      BY <1>2, <3>2 DEF FieldType, PacketOrNull
    <3>4. c.next = s.next
      BY <1>2, <3>2 DEF FieldType
    <3>5. /\ c.free = t.free /\ c.jfirst = t.jfirst /\ c.jlast = t.jlast
          /\ c.sfirst = p /\ c.slast = p
          /\ c.status = s.status /\ c.idx = s.idx /\ c.ring = s.ring /\ c.slot = s.slot
          /\ c.frame = t.frame /\ c.phase = t.phase /\ c.trycnt = t.trycnt
          /\ c.expired = t.expired
      BY <1>2, <3>2 DEF FieldType
    <3> QED BY <2>2, <3>1, <3>3, <3>4, <3>5
  <2> QED BY <2>1, <2>2
<1> HIDE DEF c
<1>4. /\ r \in FieldType
      /\ r.free = t.free /\ r.jfirst = t.jfirst /\ r.jlast = t.jlast
      /\ r.sfirst = c.sfirst /\ r.slast = p
      /\ r.next = [c.next EXCEPT ![p] = Null]
      /\ r.status = c.status /\ r.idx = c.idx /\ r.ring = c.ring /\ r.slot = c.slot
      /\ r.frame = t.frame /\ r.phase = t.phase /\ r.trycnt = t.trycnt
      /\ r.expired = t.expired
  BY <1>3 DEF FieldType, PacketOrNull
<1>5. c.next \in [Packet -> PacketOrNull] /\ s.next \in [Packet -> PacketOrNull]
  BY <1>2, <1>3
<1> HIDE DEF r
<1> QED BY <1>1, <1>2, <1>3, <1>4, <1>5 DEF SentAs

\* r is t with the packet p released.
ReleasedAs(t, p, r) ==
  /\ r \in FieldType
  /\ r.sfirst = t.sfirst /\ r.slast = t.slast /\ r.jfirst = t.jfirst /\ r.jlast = t.jlast
  /\ r.free = (IF p = Sys THEN t.free ELSE p)
  /\ r.next = (IF p = Sys THEN t.next ELSE [t.next EXCEPT ![p] = t.free])
  /\ r.frame = (IF p = Sys THEN t.frame ELSE [t.frame EXCEPT ![p] = NoFrame])
  /\ r.status = [t.status EXCEPT ![p] = 0] /\ r.idx = [t.idx EXCEPT ![p] = 0]
  /\ r.ring = t.ring /\ r.slot = t.slot
  /\ r.phase = t.phase /\ r.trycnt = t.trycnt /\ r.expired = t.expired

\* ReleaseTxPacket, member by member.
LEMMA ReleaseFields ==
  ASSUME NEW t \in FieldType, NEW p \in Packet
  PROVE  ReleasedAs(t, p, ReleaseTxPacket(t, p))
<1> USE Typed, Sizes, Frames
<1>0. 0 \in Slot
  BY DEF Slot
<1>1. CASE p = Sys
  <2> DEFINE r == [t EXCEPT !.status[p] = 0, !.idx[p] = 0]
  <2>1. ReleaseTxPacket(t, p) = r
    BY <1>1 DEF ReleaseTxPacket
  <2>2. r \in FieldType
    BY <1>0 DEF FieldType
  <2>3. /\ r.sfirst = t.sfirst /\ r.slast = t.slast /\ r.jfirst = t.jfirst /\ r.jlast = t.jlast
        /\ r.free = t.free /\ r.next = t.next /\ r.frame = t.frame
        /\ r.status = [t.status EXCEPT ![p] = 0] /\ r.idx = [t.idx EXCEPT ![p] = 0]
        /\ r.ring = t.ring /\ r.slot = t.slot
        /\ r.phase = t.phase /\ r.trycnt = t.trycnt /\ r.expired = t.expired
    BY DEF FieldType
  <2> HIDE DEF r
  <2> QED BY <1>1, <2>1, <2>2, <2>3 DEF ReleasedAs
<1>2. CASE p # Sys
  <2> DEFINE r == [t EXCEPT !.status[p] = 0, !.idx[p] = 0, !.frame[p] = NoFrame,
                            !.next[p] = t.free, !.free = p]
  <2>1. ReleaseTxPacket(t, p) = r
    BY <1>2 DEF ReleaseTxPacket
  <2>2. r \in FieldType
    BY <1>0, ZenonT(60) DEF FieldType, PacketOrNull
  <2>3. /\ r.sfirst = t.sfirst /\ r.slast = t.slast /\ r.jfirst = t.jfirst /\ r.jlast = t.jlast
        /\ r.free = p /\ r.next = [t.next EXCEPT ![p] = t.free]
        /\ r.frame = [t.frame EXCEPT ![p] = NoFrame]
        /\ r.status = [t.status EXCEPT ![p] = 0] /\ r.idx = [t.idx EXCEPT ![p] = 0]
        /\ r.ring = t.ring /\ r.slot = t.slot
        /\ r.phase = t.phase /\ r.trycnt = t.trycnt /\ r.expired = t.expired
    BY DEF FieldType
  <2> HIDE DEF r
  <2> QED BY <1>2, <2>1, <2>2, <2>3 DEF ReleasedAs
<1> QED BY <1>1, <1>2

-----------------------------------------------------------------------------
(* What the operations do to the lists. *)

\* The elements of a sequence.
LEMMA InList ==
  ASSUME NEW S, NEW list \in Seq(S)
  PROVE  /\ Len(list) \in Nat
         /\ \A k \in 1 .. Len(list) : list[k] \in S
         /\ \A q : In(q, list) => q \in S
         /\ \A k \in 1 .. Len(list) : In(list[k], list)
BY DEF In

\* The packets fit in the ring.
LEMMA RoomInRing ==
  ASSUME NEW t \in FieldType, NEW F, NEW C, NEW J, NEW p \in Packet,
         Places(t, F, C, J, p)
  PROVE  Len(C) <= Pool /\ Len(C) \in Nat
<1> USE Typed, Sizes
<1>1. Len(F) \in Nat /\ Len(C) \in Nat /\ Len(J) \in Nat
  BY DEF Places
<1>2. t.status[Sys] \in {0, 1} /\ Sys \in Packet
  BY DEF Packet
<1>3. Len(F) + Len(C) + Len(J) <= Pool
  <2>1. CASE p = Sys
    <3>1. t.status[Sys] # 1
      BY <2>1, <1>2 DEF Places
    <3> QED BY <3>1, <1>2, <1>1 DEF Places
  <2>2. CASE p # Sys
    <3>1. p \in 1 .. Pool
      BY <2>2 DEF Packet
    <3> QED BY <3>1, <1>2, <1>1 DEF Places
  <2> QED BY <2>1, <2>2
<1> QED BY <1>1, <1>3

\* There are more descriptors than packets being sent: the next one is the driver's.
LEMMA RingFree ==
  ASSUME NEW t \in FieldType, NEW C \in Seq(Packet), NEW a, NEW m, Len(C) <= Pool, Sending(t, C, a, m)
  PROVE  t.ring[t.slot] = Null
<1> USE Typed, Sizes
<1>1. \A k \in 1 .. Len(C) : Back(t.slot, Len(C) + 1 - k) # t.slot
  <2> TAKE k \in 1 .. Len(C)
  <2>1. Len(C) + 1 - k \in 1 .. Pool
    OBVIOUS
  <2> QED BY <2>1, BackHere
<1> QED BY <1>1 DEF Sending

\* A packet sent takes the next descriptor.
LEMMA SendSending ==
  ASSUME NEW t \in FieldType, NEW C \in Seq(Packet), NEW a, NEW m, NEW p \in Packet,
         Len(C) <= Pool, Sending(t, C, a, m), ~In(p, C)
  PROVE  Sending(SendTxPacket(t, p), Append(C, p), a, m)
<1> USE Sizes
<1> DEFINE r == SendTxPacket(t, p)
           D == Append(C, p)
           n == Len(C)
<1>0. /\ t.slot \in Slot /\ t.idx \in [Packet -> Slot] /\ t.ring \in [Slot -> PacketOrNull]
      /\ NextSlot(t.slot) \in Slot
  BY Typed, BackHere
<1>1. t.ring[t.slot] = Null
  BY RingFree
<1>2. /\ r.slot = NextSlot(t.slot) /\ r.idx = [t.idx EXCEPT ![p] = t.slot]
      /\ r.ring = [t.ring EXCEPT ![t.slot] = p]
  <2>1. SentAs(t, p, SendTxPacket(t, p))
    BY <1>1, SendFields
  <2> QED BY <2>1 DEF SentAs
<1>3. /\ D \in Seq(Packet) /\ Len(D) = n + 1 /\ n \in Nat /\ D[n + 1] = p
      /\ \A k \in 1 .. n : D[k] = C[k]
  BY Appended
<1> HIDE DEF r, D
<1>4. m \in 0 .. n /\ m \in 0 .. Len(D)
  BY <1>3 DEF Sending
<1>5. \A j \in 0 .. n : Back(r.slot, j + 1) = Back(t.slot, j)
  BY <1>0, <1>2, <1>3, BackNext
<1>6. a = Back(r.slot, Len(D) - m)
  <2>1. n - m \in 0 .. n /\ Len(D) - m = (n - m) + 1 /\ a = Back(t.slot, n - m)
    BY <1>3, <1>4 DEF Sending
  <2> QED BY <2>1, <1>5
<1>7. ASSUME NEW k \in 1 .. Len(D)
      PROVE  /\ r.idx[D[k]] = Back(r.slot, Len(D) + 1 - k)
             /\ r.ring[Back(r.slot, Len(D) + 1 - k)] = IF k <= m THEN Null ELSE D[k]
  <2>0. Back(r.slot, Len(D) + 1 - k) = Back(t.slot, n + 1 - k)
    <3>1. k \in 1 .. n + 1 /\ n \in Nat
      BY <1>3
    <3>2. n + 1 - k \in 0 .. n
      BY <3>1
    <3>3. Len(D) + 1 - k = (n + 1 - k) + 1
      BY <3>1, <1>3
    <3> QED BY <3>2, <3>3, <1>5
  <2>1. CASE k = n + 1
    <3>1. Back(t.slot, n + 1 - k) = t.slot
      BY <2>1, <1>0, <1>3, BackHere
    <3> QED BY <3>1, <2>0, <2>1, <1>0, <1>2, <1>3, <1>4
  <2>2. CASE k # n + 1
    <3>1. k \in 1 .. n /\ D[k] = C[k] /\ C[k] \in Packet /\ C[k] # p
      BY <2>2, <1>3 DEF In
    <3>2. Back(t.slot, n + 1 - k) # t.slot /\ Back(t.slot, n + 1 - k) \in Slot
      <4>1. n + 1 - k \in 1 .. Pool /\ n + 1 - k \in 0 .. Pool + 1
        BY <3>1, <1>3
      <4> QED BY <4>1, <1>0, BackHere, BackSlot
    <3>3. /\ t.idx[C[k]] = Back(t.slot, n + 1 - k)
          /\ t.ring[Back(t.slot, n + 1 - k)] = IF k <= m THEN Null ELSE C[k]
      BY <3>1 DEF Sending
    <3> QED BY <3>1, <3>2, <3>3, <2>0, <1>0, <1>2
  <2> QED BY <2>1, <2>2
<1>8. ASSUME NEW i \in Slot, r.ring[i] # Null
      PROVE  \E k \in 1 .. Len(D) : i = Back(r.slot, Len(D) + 1 - k)
  <2>1. CASE i = t.slot
    <3>1. Back(r.slot, 1) = Back(t.slot, 0) /\ Back(t.slot, 0) = t.slot
      <4>1. 0 \in 0 .. n /\ 0 + 1 = 1
        BY <1>3
      <4> QED BY <4>1, <1>0, <1>5, BackHere
    <3>2. n + 1 \in 1 .. Len(D) /\ Len(D) + 1 - (n + 1) = 1
      BY <1>3
    <3> QED BY <3>1, <3>2, <2>1
  <2>2. CASE i # t.slot
    <3>1. t.ring[i] # Null
      BY <2>2, <1>0, <1>2, <1>8
    <3>2. PICK k \in 1 .. n : i = Back(t.slot, n + 1 - k)
      BY <3>1 DEF Sending
    <3>3. n + 1 - k \in 0 .. n /\ k \in 1 .. Len(D) /\ Len(D) + 1 - k = (n + 1 - k) + 1
      BY <3>2, <1>3
    <3> QED BY <3>2, <3>3, <1>5
  <2> QED BY <2>1, <2>2
<1>9. Sending(r, D, a, m)
  BY <1>4, <1>6, <1>7, <1>8 DEF Sending
<1> QED BY <1>9 DEF r, D

\* Null is not a packet.
LEMMA NullApart ==
  ASSUME NEW n \in Nat, NEW list \in Seq(1 .. n)
  PROVE  ~In(Null, list)
BY InList DEF Null

\* Which numbers are packets.
LEMMA SeqTypes ==
  /\ Packet = 1 .. Pool + 1
  /\ Null \notin Packet /\ Null \notin 1 .. Pool /\ 1 .. Pool \subseteq Packet
  /\ Sys \in Packet /\ Sys \notin 1 .. Pool
  /\ \A p \in Packet : p # Sys => p \in 1 .. Pool
  /\ PacketOrNull = 0 .. Pool + 1
BY Sizes DEF Packet, PacketOrNull

\* The first packet of a list is what the pointer to it says.
LEMMA FirstOf ==
  ASSUME NEW S, NEW first, NEW next, NEW list \in Seq(S), Null \notin S, Linked(first, next, list)
  PROVE  /\ first = Null <=> list = <<>>
         /\ list # <<>> => /\ first = list[1] /\ first \in S /\ 1 \in 1 .. Len(list)
                           /\ (Len(list) = 1 => next[first] = Null)
                           /\ (Len(list) # 1 => next[first] = list[2])
<1>1. Len(list) \in Nat /\ (list = <<>> <=> Len(list) = 0)
  BY Empty
<1>2. \A k \in 1 .. Len(list) : list[k] \in S
  OBVIOUS
<1>3. CASE list = <<>>
  BY <1>3 DEF Linked
<1>4. CASE list # <<>>
  <2>1. 1 \in 1 .. Len(list)
    BY <1>1, <1>4
  <2>2. first = list[1] /\ list[1] \in S
    BY <2>1, <1>2, <1>4 DEF Linked
  <2>3. next[list[1]] = IF 1 = Len(list) THEN Null ELSE list[1 + 1]
    BY <2>1 DEF Linked
  <2> QED BY <1>4, <2>1, <2>2, <2>3
<1> QED BY <1>3, <1>4

\* The last pointer of a list.
LEMMA LastOf ==
  ASSUME NEW S, NEW last, NEW list \in Seq(S), Null \notin S, EndsAt(list, last)
  PROVE  /\ last = Null <=> list = <<>>
         /\ list # <<>> => /\ last = list[Len(list)] /\ Len(list) \in 1 .. Len(list) /\ last \in S
BY Empty DEF EndsAt

\* The first pointer of a list of packets of the pool.
LEMMA FirstOfPool ==
  ASSUME NEW first, NEW next, NEW list \in Seq(1 .. Pool), Linked(first, next, list)
  PROVE  /\ first = Null <=> list = <<>>
         /\ list # <<>> => /\ first = list[1] /\ first \in 1 .. Pool /\ 1 \in 1 .. Len(list)
                           /\ (Len(list) = 1 => next[first] = Null)
                           /\ (Len(list) # 1 => next[first] = list[2])
<1> DEFINE S == 1 .. Pool
<1>1. list \in Seq(S) /\ Null \notin S
  BY SeqTypes
<1> HIDE DEF S
<1>2. /\ first = Null <=> list = <<>>
      /\ list # <<>> => /\ first = list[1] /\ first \in S /\ 1 \in 1 .. Len(list)
                        /\ (Len(list) = 1 => next[first] = Null)
                        /\ (Len(list) # 1 => next[first] = list[2])
  BY <1>1, FirstOf
<1> QED BY <1>2 DEF S

\* The first pointer of the sending chain, which may hold the request.
LEMMA FirstOfChain ==
  ASSUME NEW first, NEW next, NEW list \in Seq(Packet), Linked(first, next, list)
  PROVE  /\ first = Null <=> list = <<>>
         /\ list # <<>> => /\ first = list[1] /\ first \in Packet /\ 1 \in 1 .. Len(list)
                           /\ (Len(list) = 1 => next[first] = Null)
                           /\ (Len(list) # 1 => next[first] = list[2])
<1> DEFINE S == Packet
<1>1. list \in Seq(S) /\ Null \notin S
  BY SeqTypes
<1> HIDE DEF S
<1>2. /\ first = Null <=> list = <<>>
      /\ list # <<>> => /\ first = list[1] /\ first \in S /\ 1 \in 1 .. Len(list)
                        /\ (Len(list) = 1 => next[first] = Null)
                        /\ (Len(list) # 1 => next[first] = list[2])
  BY <1>1, FirstOf
<1> QED BY <1>2 DEF S

\* Sending puts the packet at the end of the chain.
LEMMA SendLinkage ==
  ASSUME NEW t \in FieldType, NEW p \in Packet, NEW r, SentAs(t, p, r),
         NEW F, NEW C, NEW J, Linkage(t, F, C, J), Places(t, F, C, J, p)
  PROVE  Linkage(r, F, Append(C, p), J)
<1>1. /\ F \in Seq(1 .. Pool) /\ C \in Seq(Packet) /\ J \in Seq(1 .. Pool)
      /\ Distinct(C) /\ ~In(p, F) /\ ~In(p, C) /\ ~In(p, J)
  BY DEF Places
<1>2. \A q \in Packet : r.next[q] = IF q = p THEN Null ELSE IF q = t.slast THEN p ELSE t.next[q]
  BY DEF SentAs
<1>3. /\ t.slast = Null <=> C = <<>>
      /\ C # <<>> => t.slast = C[Len(C)] /\ Len(C) \in 1 .. Len(C)
  <2>1. EndsAt(C, t.slast)
    BY DEF Linkage
  <2>2. Null \notin Packet /\ C \in Seq(Packet)
    BY <1>1, SeqTypes
  <2> QED BY <2>1, <2>2, LastOf, Zenon
<1>4. \A k \in 1 .. Len(C) : C[k] \in Packet /\ C[k] # p
  BY <1>1, InList
<1>5. Linked(IF C = <<>> THEN p ELSE t.sfirst, r.next, Append(C, p))
  <2>1. \A k \in 1 .. Len(C) : r.next[C[k]] = IF k = Len(C) THEN p ELSE t.next[C[k]]
    <3> TAKE k \in 1 .. Len(C)
    <3>1. C # <<>>
      BY <1>1, Empty
    <3>2. C[k] = t.slast <=> k = Len(C)
      BY <3>1, <1>3, <1>1 DEF Distinct
    <3> QED BY <3>2, <1>2, <1>4
  <2>2. r.next[p] = Null
    BY <1>2
  <2>3. Linked(t.sfirst, t.next, C)
    BY DEF Linkage
  <2> QED BY <2>1, <2>2, <2>3, <1>1, LinkedAppend
<1>6. r.sfirst = (IF C = <<>> THEN p ELSE t.sfirst)
  BY <1>3 DEF SentAs
<1>7. ASSUME NEW first, NEW L \in Seq(1 .. Pool), Linked(first, t.next, L), ~In(p, L), Apart(L, C)
      PROVE  Linked(first, r.next, L)
  <2>1. ASSUME NEW k \in 1 .. Len(L) PROVE r.next[L[k]] = t.next[L[k]]
    <3>1. L[k] \in Packet /\ L[k] # p
      <4>1. L[k] \in 1 .. Pool /\ In(L[k], L)
        BY <1>7, InList
      <4> QED BY <4>1, <1>7, SeqTypes
    <3>2. L[k] # t.slast
      <4>1. CASE C = <<>>
        BY <4>1, <3>1, <1>3, SeqTypes
      <4>2. CASE C # <<>>
        BY <4>2, <1>3, <1>7 DEF Apart
      <4> QED BY <4>1, <4>2
    <3> QED BY <3>1, <3>2, <1>2
  <2> QED BY <2>1, <1>7, LinkedKept
<1>8. Apart(F, C) /\ Apart(J, C)
  BY ApartIn DEF Places
<1>9. Linked(r.free, r.next, F) /\ Linked(r.jfirst, r.next, J)
  BY <1>1, <1>7, <1>8 DEF Linkage, SentAs
<1>10. EndsAt(Append(C, p), r.slast)
  <2>1. r.slast = p
    BY DEF SentAs
  <2> QED BY <2>1, <1>1, AppendList
<1>11. EndsAt(J, r.jlast)
  BY DEF Linkage, SentAs
<1> QED BY <1>5, <1>6, <1>9, <1>10, <1>11 DEF Linkage

\* The packet sent, which was in hand, is in the chain.
LEMMA SendPlaces ==
  ASSUME NEW t \in FieldType, NEW p \in Packet, NEW r,
         r.status = [t.status EXCEPT ![p] = 1],
         NEW F, NEW C, NEW J, Places(t, F, C, J, p)
  PROVE  Places(r, F, Append(C, p), J, Null)
<1>1. /\ F \in Seq(1 .. Pool) /\ C \in Seq(Packet) /\ J \in Seq(1 .. Pool)
      /\ Distinct(F) /\ Distinct(C) /\ Distinct(J)
      /\ ~In(p, F) /\ ~In(p, C) /\ ~In(p, J)
      /\ ~\E q : In(q, F) /\ In(q, C)
      /\ ~\E q : In(q, F) /\ In(q, J)
      /\ ~\E q : In(q, C) /\ In(q, J)
  BY ApartIn DEF Places
<1> DEFINE D == Append(C, p)
<1>2. /\ D \in Seq(Packet) /\ Len(D) = Len(C) + 1 /\ Distinct(D)
      /\ \A q : In(q, D) <=> q = p \/ In(q, C)
  BY <1>1, AppendList
<1> HIDE DEF D
<1>3. Apart(F, D) /\ Apart(F, J) /\ Apart(D, J)
  BY <1>1, <1>2, ApartIn
<1>4. ~In(Null, F) /\ ~In(Null, D) /\ ~In(Null, J)
  <2>1. \A q : In(q, D) => q \in Packet
    BY <1>2, InList
  <2>2. \A q : (In(q, F) => q \in 1 .. Pool) /\ (In(q, J) => q \in 1 .. Pool)
    BY <1>1, InList
  <2> QED BY <2>1, <2>2, SeqTypes
<1>5. \A q \in 1 .. Pool : q = Null \/ In(q, F) \/ In(q, D) \/ In(q, J)
  BY <1>2 DEF Places
<1>6. t.status \in [Packet -> {0, 1}] /\ t.status[Sys] \in {0, 1}
  BY Typed, SeqTypes, ZenonT(60)
<1>7. \A q \in Packet : r.status[q] = 1 <=> In(q, D)
  BY <1>2, <1>6 DEF Places
<1>8. Len(F) + Len(D) + Len(J) = Pool + r.status[Sys] - (IF Null \in 1 .. Pool THEN 1 ELSE 0)
  <2>1. Len(F) \in Nat /\ Len(C) \in Nat /\ Len(J) \in Nat /\ Pool \in Nat
    BY <1>1, InList, Sizes
  <2>2. Len(F) + Len(C) + Len(J) = Pool + t.status[Sys] - (IF p \in 1 .. Pool THEN 1 ELSE 0)
    BY DEF Places
  <2>3. CASE p = Sys
    <3>1. t.status[Sys] = 0 /\ r.status[Sys] = 1
      BY <2>3, <1>1, <1>6 DEF Places
    <3> QED BY <3>1, <2>1, <2>2, <2>3, <1>2, SeqTypes
  <2>4. CASE p # Sys
    <3>1. r.status[Sys] = t.status[Sys] /\ p \in 1 .. Pool
      BY <2>4, <1>6, SeqTypes
    <3>2. (IF p \in 1 .. Pool THEN 1 ELSE 0) = 1 /\ (IF Null \in 1 .. Pool THEN 1 ELSE 0) = 0
      BY <3>1, SeqTypes
    <3> QED BY <3>1, <3>2, <2>1, <2>2, <1>2, <1>6
  <2> QED BY <2>3, <2>4
<1>9. Places(r, F, D, J, Null)
  BY <1>1, <1>2, <1>3, <1>4, <1>5, <1>7, <1>8 DEF Places
<1> QED BY <1>9 DEF D

\* A packet is taken from the head of a list, or put at the head or the end of one.
LEMMA TakePlaces ==
  ASSUME NEW t \in FieldType, NEW r \in FieldType, r.status = t.status,
         NEW F, NEW C, NEW J, Places(t, F, C, J, Null)
  PROVE  /\ F # <<>> => Places(r, Tail(F), C, J, F[1])
         /\ J # <<>> => Places(r, F, C, Tail(J), J[1])
<1>1. /\ F \in Seq(1 .. Pool) /\ C \in Seq(Packet) /\ J \in Seq(1 .. Pool)
      /\ Distinct(F) /\ Distinct(C) /\ Distinct(J)
      /\ ~\E q : In(q, F) /\ In(q, C)
      /\ ~\E q : In(q, F) /\ In(q, J)
      /\ ~\E q : In(q, C) /\ In(q, J)
  BY ApartIn DEF Places
<1>2. /\ Len(F) \in Nat /\ Len(C) \in Nat /\ Len(J) \in Nat /\ Pool \in Nat
      /\ t.status[Sys] \in {0, 1} /\ r.status[Sys] = t.status[Sys]
  BY <1>1, InList, Sizes, SeqTypes, Typed
<1>3. Len(F) + Len(C) + Len(J) = Pool + t.status[Sys]
  <2>1. (IF Null \in 1 .. Pool THEN 1 ELSE 0) = 0
    BY SeqTypes
  <2>2. Len(F) + Len(C) + Len(J) = Pool + t.status[Sys] - (IF Null \in 1 .. Pool THEN 1 ELSE 0)
    BY DEF Places
  <2> QED BY <2>1, <2>2, <1>2
<1>4. \A q \in 1 .. Pool : In(q, F) \/ In(q, C) \/ In(q, J)
  <2>1. \A q \in 1 .. Pool : q = Null \/ In(q, F) \/ In(q, C) \/ In(q, J)
    BY DEF Places
  <2> QED BY <2>1, SeqTypes
<1>5. \A q \in Packet : r.status[q] = 1 <=> In(q, C)
  BY DEF Places
<1>6. ASSUME F # <<>> PROVE Places(r, Tail(F), C, J, F[1])
  <2> DEFINE G == Tail(F)
             h == F[1]
  <2>1. /\ G \in Seq(1 .. Pool) /\ Len(G) = Len(F) - 1 /\ Distinct(G)
        /\ \A q : In(q, F) <=> q = h \/ In(q, G)
        /\ ~In(h, G)
    BY <1>1, <1>6, TailList
  <2>2. h \in 1 .. Pool
    BY <1>1, <1>6, <2>1, InList
  <2> HIDE DEF G, h
  <2>3. Apart(G, C) /\ Apart(G, J) /\ Apart(C, J)
    BY <1>1, <2>1, ApartIn
  <2>4. ~In(h, C) /\ ~In(h, J)
    BY <1>1, <2>1
  <2>5. Len(G) + Len(C) + Len(J) = Pool + r.status[Sys] - (IF h \in 1 .. Pool THEN 1 ELSE 0)
    <3>1. (IF h \in 1 .. Pool THEN 1 ELSE 0) = 1
      BY <2>2
    <3> QED BY <3>1, <1>2, <1>3, <2>1, SMTT(40)
  <2>6. \A q \in 1 .. Pool : q = h \/ In(q, G) \/ In(q, C) \/ In(q, J)
    BY <1>4, <2>1
  <2>7. Places(r, G, C, J, h)
    BY <1>1, <1>5, <2>1, <2>3, <2>4, <2>5, <2>6 DEF Places
  <2> QED BY <2>7 DEF G, h
<1>7. ASSUME J # <<>> PROVE Places(r, F, C, Tail(J), J[1])
  <2> DEFINE G == Tail(J)
             h == J[1]
  <2>1. /\ G \in Seq(1 .. Pool) /\ Len(G) = Len(J) - 1 /\ Distinct(G)
        /\ \A q : In(q, J) <=> q = h \/ In(q, G)
        /\ ~In(h, G)
    BY <1>1, <1>7, TailList
  <2>2. h \in 1 .. Pool
    BY <1>1, <1>7, <2>1, InList
  <2> HIDE DEF G, h
  <2>3. Apart(F, C) /\ Apart(F, G) /\ Apart(C, G)
    BY <1>1, <2>1, ApartIn
  <2>4. ~In(h, C) /\ ~In(h, F)
    BY <1>1, <2>1
  <2>5. Len(F) + Len(C) + Len(G) = Pool + r.status[Sys] - (IF h \in 1 .. Pool THEN 1 ELSE 0)
    <3>1. (IF h \in 1 .. Pool THEN 1 ELSE 0) = 1
      BY <2>2
    <3> QED BY <3>1, <1>2, <1>3, <2>1, SMTT(40)
  <2>6. \A q \in 1 .. Pool : q = h \/ In(q, F) \/ In(q, C) \/ In(q, G)
    BY <1>4, <2>1
  <2>7. Places(r, F, C, G, h)
    BY <1>1, <1>5, <2>1, <2>3, <2>4, <2>5, <2>6 DEF Places
  <2> QED BY <2>7 DEF G, h
<1> QED BY <1>6, <1>7

\* The packet in hand is counted again, in the free list or the jobs.
LEMMA OneMore ==
  ASSUME NEW f \in Int, NEW c \in Int, NEW j \in Int, NEW n \in Int, NEW s \in Int,
         f + c + j = n + s - 1
  PROVE  (f + 1) + c + j = n + s /\ f + c + (j + 1) = n + s
OBVIOUS

\* The packet in hand is released or becomes a job.
LEMMA PutPlaces ==
  ASSUME NEW t \in FieldType, NEW r \in FieldType,
         NEW F, NEW C, NEW J, NEW p \in 1 .. Pool, Places(t, F, C, J, p)
  PROVE  /\ r.status = [t.status EXCEPT ![p] = 0] => Places(r, <<p>> \o F, C, J, Null)
         /\ r.status = t.status => Places(r, F, C, Append(J, p), Null)
<1>1. /\ F \in Seq(1 .. Pool) /\ C \in Seq(Packet) /\ J \in Seq(1 .. Pool)
      /\ Distinct(F) /\ Distinct(C) /\ Distinct(J)
      /\ ~\E q : In(q, F) /\ In(q, C)
      /\ ~\E q : In(q, F) /\ In(q, J)
      /\ ~\E q : In(q, C) /\ In(q, J)
      /\ ~In(p, F) /\ ~In(p, C) /\ ~In(p, J)
  BY ApartIn DEF Places
<1>2. /\ Len(F) \in Nat /\ Len(C) \in Nat /\ Len(J) \in Nat /\ Pool \in Nat
      /\ t.status[Sys] \in {0, 1} /\ t.status \in [Packet -> {0, 1}]
      /\ p \in Packet /\ p # Sys /\ Sys \in Packet
  BY <1>1, InList, Sizes, SeqTypes, Typed
<1>3. Len(F) + Len(C) + Len(J) = Pool + t.status[Sys] - 1
  <2>1. (IF p \in 1 .. Pool THEN 1 ELSE 0) = 1
    OBVIOUS
  <2>2. Len(F) + Len(C) + Len(J) = Pool + t.status[Sys] - (IF p \in 1 .. Pool THEN 1 ELSE 0)
    BY DEF Places
  <2> QED BY <2>1, <2>2, <1>2
<1>4. \A q \in 1 .. Pool : q = p \/ In(q, F) \/ In(q, C) \/ In(q, J)
  BY DEF Places
<1>5. /\ \A q \in Packet : t.status[q] = 1 <=> In(q, C)
      /\ ~In(Null, F) /\ ~In(Null, C) /\ ~In(Null, J)
  <2>1. \A q \in Packet : t.status[q] = 1 <=> In(q, C)
    BY DEF Places
  <2>2. \A q : (In(q, F) => q \in 1 .. Pool) /\ (In(q, C) => q \in Packet)
               /\ (In(q, J) => q \in 1 .. Pool)
    BY <1>1, InList
  <2> QED BY <2>1, <2>2, SeqTypes
<1>6. (IF Null \in 1 .. Pool THEN 1 ELSE 0) = 0 /\ Null # p
  BY SeqTypes
<1>7. ASSUME r.status = [t.status EXCEPT ![p] = 0] PROVE Places(r, <<p>> \o F, C, J, Null)
  <2> DEFINE G == <<p>> \o F
  <2>1. /\ G \in Seq(1 .. Pool) /\ Len(G) = Len(F) + 1 /\ Distinct(G)
        /\ \A q : In(q, G) <=> q = p \/ In(q, F)
    BY <1>1, ConsList
  <2> HIDE DEF G
  <2>2. Apart(G, C) /\ Apart(G, J) /\ Apart(C, J)
    BY <1>1, <2>1, ApartIn
  <2>3. \A q \in Packet : r.status[q] = 1 <=> In(q, C)
    BY <1>1, <1>2, <1>5, <1>7
  <2>4. Len(G) + Len(C) + Len(J) = Pool + r.status[Sys] - (IF Null \in 1 .. Pool THEN 1 ELSE 0)
    <3>1. r.status[Sys] = t.status[Sys]
      BY <1>2, <1>7
    <3>2. Len(G) + Len(C) + Len(J) = Pool + t.status[Sys]
      <4>1. t.status[Sys] \in Int /\ Len(F) \in Int /\ Len(C) \in Int /\ Len(J) \in Int /\ Pool \in Int
        BY <1>2
      <4>2. Len(G) = Len(F) + 1
        BY <2>1
      <4> QED BY ONLY <4>1, <4>2, <1>3, OneMore
    <3>3. t.status[Sys] - 0 = t.status[Sys] /\ Pool + t.status[Sys] - 0 = Pool + t.status[Sys]
      BY <1>2
    <3> QED BY <3>1, <3>2, <3>3, <1>6
  <2>5. \A q \in 1 .. Pool : q = Null \/ In(q, G) \/ In(q, C) \/ In(q, J)
    BY <1>4, <2>1
  <2>6. ~In(Null, G)
    BY <1>5, <1>6, <2>1
  <2>7. Places(r, G, C, J, Null)
    BY <1>1, <1>5, <2>1, <2>2, <2>3, <2>4, <2>5, <2>6 DEF Places
  <2> QED BY <2>7 DEF G
<1>8. ASSUME r.status = t.status PROVE Places(r, F, C, Append(J, p), Null)
  <2> DEFINE G == Append(J, p)
  <2>1. /\ G \in Seq(1 .. Pool) /\ Len(G) = Len(J) + 1 /\ Distinct(G)
        /\ \A q : In(q, G) <=> q = p \/ In(q, J)
    BY <1>1, AppendList
  <2> HIDE DEF G
  <2>2. Apart(F, C) /\ Apart(F, G) /\ Apart(C, G)
    BY <1>1, <2>1, ApartIn
  <2>4. Len(F) + Len(C) + Len(G) = Pool + r.status[Sys] - (IF Null \in 1 .. Pool THEN 1 ELSE 0)
    <3>2. Len(F) + Len(C) + Len(G) = Pool + t.status[Sys]
      <4>1. t.status[Sys] \in Int /\ Len(F) \in Int /\ Len(C) \in Int /\ Len(J) \in Int /\ Pool \in Int
        BY <1>2
      <4>2. Len(G) = Len(J) + 1
        BY <2>1
      <4> QED BY ONLY <4>1, <4>2, <1>3, OneMore
    <3>3. Pool + t.status[Sys] - 0 = Pool + t.status[Sys]
      BY <1>2
    <3> QED BY <3>2, <3>3, <1>6, <1>8
  <2>5. \A q \in 1 .. Pool : q = Null \/ In(q, F) \/ In(q, C) \/ In(q, G)
    BY <1>4, <2>1
  <2>6. ~In(Null, G)
    BY <1>5, <1>6, <2>1
  <2>7. Places(r, F, C, G, Null)
    BY <1>1, <1>5, <1>8, <2>1, <2>2, <2>4, <2>5, <2>6 DEF Places
  <2> QED BY <2>7 DEF G
<1> QED BY <1>7, <1>8

\* Only the head of the free list, of the jobs or of the chain moves.
LEMMA TakeLinkage ==
  ASSUME NEW t \in FieldType, NEW r \in FieldType, r.next = t.next,
         NEW F, NEW C, NEW J, Linkage(t, F, C, J), Places(t, F, C, J, Null),
         r.sfirst = t.sfirst, r.slast = t.slast
  PROVE  /\ F # <<>> /\ r.free = t.next[t.free] /\ r.jfirst = t.jfirst /\ r.jlast = t.jlast
            => Linkage(r, Tail(F), C, J)
         /\ J # <<>> /\ r.free = t.free /\ r.jfirst = t.next[t.jfirst]
            /\ r.jlast = (IF r.jfirst = Null THEN Null ELSE t.jlast)
            => Linkage(r, F, C, Tail(J))
<1>1. F \in Seq(1 .. Pool) /\ J \in Seq(1 .. Pool) /\ Distinct(F) /\ Distinct(J)
  BY DEF Places
<1>2. /\ Linked(t.free, t.next, F) /\ Linked(t.sfirst, t.next, C) /\ Linked(t.jfirst, t.next, J)
      /\ EndsAt(C, t.slast) /\ EndsAt(J, t.jlast)
  BY DEF Linkage
<1>3. ASSUME F # <<>>, r.free = t.next[t.free], r.jfirst = t.jfirst, r.jlast = t.jlast
      PROVE  Linkage(r, Tail(F), C, J)
  <2>1. Linked(t.next[t.free], t.next, Tail(F))
    BY <1>1, <1>2, <1>3, LinkedTail
  <2> QED BY <2>1, <1>2, <1>3 DEF Linkage
<1>4. ASSUME J # <<>>, r.free = t.free, r.jfirst = t.next[t.jfirst],
             r.jlast = (IF r.jfirst = Null THEN Null ELSE t.jlast)
      PROVE  Linkage(r, F, C, Tail(J))
  <2>1. Linked(t.next[t.jfirst], t.next, Tail(J))
    BY <1>1, <1>2, <1>4, LinkedTail
  <2>2. EndsAt(Tail(J), IF Tail(J) = <<>> THEN Null ELSE t.jlast) /\ Tail(J) \in Seq(1 .. Pool)
    BY <1>1, <1>2, <1>4, TailList
  <2>3. r.jfirst = Null <=> Tail(J) = <<>>
    <3>1. Null \notin 1 .. Pool
      BY SeqTypes
    <3>2. t.next[t.jfirst] = Null <=> Tail(J) = <<>>
      BY <3>1, <2>1, <2>2, FirstOf, ZenonT(40)
    <3> QED BY <3>2, <1>4
  <2> QED BY <2>1, <2>2, <2>3, <1>2, <1>4 DEF Linkage
<1> QED BY <1>3, <1>4

\* Nothing moves.
LEMMA SameLists ==
  ASSUME NEW t, NEW r, NEW F, NEW C, NEW J, NEW h, NEW a, NEW m,
         r.next = t.next, r.free = t.free, r.sfirst = t.sfirst, r.slast = t.slast,
         r.jfirst = t.jfirst, r.jlast = t.jlast, r.status = t.status, r.idx = t.idx,
         r.ring = t.ring, r.slot = t.slot
  PROVE  /\ Linkage(t, F, C, J) => Linkage(r, F, C, J)
         /\ Places(t, F, C, J, h) => Places(r, F, C, J, h)
         /\ Sending(t, C, a, m) => Sending(r, C, a, m)
         /\ Pending(t) <=> Pending(r)
<1>1. Linkage(t, F, C, J) => Linkage(r, F, C, J)
  BY DEF Linkage
<1>2. Places(t, F, C, J, h) => Places(r, F, C, J, h)
  BY DEF Places
<1>3. Sending(t, C, a, m) => Sending(r, C, a, m)
  BY DEF Sending
<1>4. Pending(t) <=> Pending(r)
  BY DEF Pending
<1> QED BY <1>1, <1>2, <1>3, <1>4

-----------------------------------------------------------------------------
(* The operations keep the packets in place. *)

\* The transmit side is in order.
InPlace(t, F, C, J, h, a, m) ==
  /\ t \in FieldType
  /\ Linkage(t, F, C, J)
  /\ Places(t, F, C, J, h)
  /\ Sending(t, C, a, m)

\* SendTxPacket keeps the packets in place.
LEMMA SendKeeps ==
  ASSUME NEW t, NEW F, NEW C, NEW J, NEW p \in Packet, NEW a, NEW m,
         InPlace(t, F, C, J, p, a, m)
  PROVE  /\ SentAs(t, p, SendTxPacket(t, p))
         /\ InPlace(SendTxPacket(t, p), F, Append(C, p), J, Null, a, m)
<1> DEFINE r == SendTxPacket(t, p)
<1>1. t \in FieldType /\ Linkage(t, F, C, J) /\ Places(t, F, C, J, p) /\ Sending(t, C, a, m)
  BY DEF InPlace
<1>2. Len(C) <= Pool /\ C \in Seq(Packet) /\ ~In(p, C)
  BY <1>1, RoomInRing DEF Places
<1>3. t.ring[t.slot] = Null
  BY <1>1, <1>2, RingFree
<1>4. SentAs(t, p, r)
  BY <1>1, <1>3, SendFields
<1>5. Linkage(r, F, Append(C, p), J)
  BY <1>1, <1>4, SendLinkage
<1>6. r.status = [t.status EXCEPT ![p] = 1] /\ r \in FieldType
  BY <1>4 DEF SentAs
<1>7. Places(r, F, Append(C, p), J, Null)
  BY <1>1, <1>6, SendPlaces
<1>8. Sending(r, Append(C, p), a, m)
  BY <1>1, <1>2, SendSending
<1> QED BY <1>4, <1>5, <1>6, <1>7, <1>8 DEF InPlace

\* ReleaseTxPacket keeps the packets in place.
LEMMA ReleaseKeeps ==
  ASSUME NEW t, NEW F, NEW C, NEW J, NEW p \in 1 .. Pool, NEW a, NEW m,
         InPlace(t, F, C, J, p, a, m)
  PROVE  /\ ReleasedAs(t, p, ReleaseTxPacket(t, p))
         /\ InPlace(ReleaseTxPacket(t, p), <<p>> \o F, C, J, Null, a, m)
<1> DEFINE r == ReleaseTxPacket(t, p)
<1>1. /\ t \in FieldType /\ Linkage(t, F, C, J) /\ Places(t, F, C, J, p) /\ Sending(t, C, a, m)
      /\ p \in Packet /\ p # Sys
  BY SeqTypes DEF InPlace
<1>2. ReleasedAs(t, p, r)
  BY <1>1, ReleaseFields
<1> HIDE DEF r
<1>3. /\ r \in FieldType
      /\ r.sfirst = t.sfirst /\ r.slast = t.slast /\ r.jfirst = t.jfirst /\ r.jlast = t.jlast
      /\ r.free = p /\ r.next = [t.next EXCEPT ![p] = t.free]
      /\ r.status = [t.status EXCEPT ![p] = 0] /\ r.idx = [t.idx EXCEPT ![p] = 0]
      /\ r.ring = t.ring /\ r.slot = t.slot
  BY <1>1, <1>2 DEF ReleasedAs
<1>4. /\ F \in Seq(1 .. Pool) /\ C \in Seq(Packet) /\ J \in Seq(1 .. Pool)
      /\ ~In(p, F) /\ ~In(p, C) /\ ~In(p, J)
  BY <1>1 DEF Places
<1>5. t.next \in [Packet -> PacketOrNull] /\ t.idx \in [Packet -> Slot]
  BY <1>1, Typed
<1>6. \A q \in Packet : q # p => r.next[q] = t.next[q] /\ r.idx[q] = t.idx[q]
  BY <1>1, <1>3, <1>5
<1>7. /\ \A k \in 1 .. Len(F) : r.next[F[k]] = t.next[F[k]]
      /\ \A k \in 1 .. Len(C) : r.next[C[k]] = t.next[C[k]] /\ r.idx[C[k]] = t.idx[C[k]]
      /\ \A k \in 1 .. Len(J) : r.next[J[k]] = t.next[J[k]]
  <2>1. /\ \A k \in 1 .. Len(F) : F[k] \in 1 .. Pool /\ In(F[k], F)
        /\ \A k \in 1 .. Len(C) : C[k] \in Packet /\ In(C[k], C)
        /\ \A k \in 1 .. Len(J) : J[k] \in 1 .. Pool /\ In(J[k], J)
    BY <1>4, InList
  <2>2. /\ \A k \in 1 .. Len(F) : F[k] \in Packet /\ F[k] # p
        /\ \A k \in 1 .. Len(C) : C[k] \in Packet /\ C[k] # p
        /\ \A k \in 1 .. Len(J) : J[k] \in Packet /\ J[k] # p
    BY <2>1, <1>4, SeqTypes
  <2> QED BY <2>2, <1>6
<1>8. Linkage(r, <<p>> \o F, C, J)
  <2>1. /\ Linked(t.free, t.next, F) /\ Linked(t.sfirst, t.next, C) /\ Linked(t.jfirst, t.next, J)
        /\ EndsAt(C, t.slast) /\ EndsAt(J, t.jlast)
    BY <1>1 DEF Linkage
  <2>2. r.next[p] = t.free
    BY <1>1, <1>3, <1>5
  <2>3. Linked(p, r.next, <<p>> \o F)
    BY <2>1, <2>2, <1>4, <1>7, LinkedCons
  <2>4. Linked(t.sfirst, r.next, C) /\ Linked(t.jfirst, r.next, J)
    BY <2>1, <1>7, LinkedKept
  <2> QED BY <2>1, <2>3, <2>4, <1>3 DEF Linkage
<1>9. Places(r, <<p>> \o F, C, J, Null)
  BY <1>1, <1>3, PutPlaces
<1>10. Sending(r, C, a, m)
  BY <1>1, <1>3, <1>7 DEF Sending
<1> QED BY <1>2, <1>3, <1>8, <1>9, <1>10 DEF InPlace, r

\* The job at the head of the list is in the hands of FinishJob.
LEMMA UnqueueKeeps ==
  ASSUME NEW t, NEW F, NEW C, NEW J, NEW a, NEW m,
         InPlace(t, F, C, J, Null, a, m), J # <<>>
  PROVE  LET u == Unqueue(t)
         IN /\ t.jfirst = J[1] /\ J[1] \in 1 .. Pool /\ u.jfirst # t.jfirst
            /\ InPlace(u, F, C, Tail(J), J[1], a, m)
            /\ u.frame = t.frame /\ u.ring = t.ring /\ u.status = t.status
            /\ u.phase = t.phase /\ u.trycnt = t.trycnt /\ u.expired = t.expired
<1> DEFINE u == Unqueue(t)
<1>1. t \in FieldType /\ Linkage(t, F, C, J) /\ Places(t, F, C, J, Null) /\ Sending(t, C, a, m)
  BY DEF InPlace
<1>2. J \in Seq(1 .. Pool) /\ Distinct(J) /\ Linked(t.jfirst, t.next, J) /\ Null \notin 1 .. Pool
  BY <1>1, SeqTypes DEF Places, Linkage
<1>3. /\ t.jfirst = J[1] /\ t.jfirst \in 1 .. Pool /\ 1 \in 1 .. Len(J)
      /\ (Len(J) = 1 => t.next[t.jfirst] = Null)
      /\ (Len(J) # 1 => t.next[t.jfirst] = J[2])
  BY <1>2, FirstOfPool
<1>4. t.next[t.jfirst] # t.jfirst
  <2>1. CASE Len(J) = 1
    BY <2>1, <1>2, <1>3
  <2>2. CASE Len(J) # 1
    <3>1. 2 \in 1 .. Len(J) /\ Len(J) \in Nat
      <4>1. Len(J) \in Nat
        BY <1>2, InList
      <4>2. 1 \in 1 .. Len(J)
        BY <1>3
      <4> QED BY ONLY <4>1, <4>2, <2>2
    <3> QED BY <3>1, <2>2, <1>2, <1>3 DEF Distinct
  <2> QED BY <2>1, <2>2
<1>5. t.next[t.jfirst] \in PacketOrNull
  BY <1>1, <1>3, Typed, SeqTypes
<1>6. /\ u \in FieldType
      /\ u.jfirst = t.next[t.jfirst] /\ u.jlast = (IF t.next[t.jfirst] = Null THEN Null ELSE t.jlast)
      /\ u.next = t.next /\ u.free = t.free /\ u.sfirst = t.sfirst /\ u.slast = t.slast
      /\ u.status = t.status /\ u.idx = t.idx /\ u.ring = t.ring /\ u.slot = t.slot
      /\ u.frame = t.frame
      /\ u.phase = t.phase /\ u.trycnt = t.trycnt /\ u.expired = t.expired
  BY <1>1, <1>5 DEF Unqueue, FieldType, PacketOrNull
<1> HIDE DEF u
<1>7. Linkage(u, F, C, Tail(J))
  BY <1>1, <1>6, TakeLinkage
<1>8. Places(u, F, C, Tail(J), J[1])
  BY <1>1, <1>6, TakePlaces
<1>9. Sending(u, C, a, m)
  BY <1>1, <1>6 DEF Sending
<1>10. InPlace(u, F, C, Tail(J), J[1], a, m)
  BY <1>6, <1>7, <1>8, <1>9 DEF InPlace
<1> QED BY <1>3, <1>4, <1>6, <1>10 DEF u

\* The free packet is in the hands of the one who asked for it.
\* The first free packet is taken, and something is written to it.
AllocatedAs(t, F, C, J, frame, a, m, u) ==
  /\ F # <<>> /\ t.free = F[1] /\ F[1] \in 1 .. Pool
  /\ InPlace(u, Tail(F), C, J, F[1], a, m)
  /\ u.frame = [t.frame EXCEPT ![t.free] = frame] /\ u.ring = t.ring
  /\ u.status = t.status /\ u.jfirst = t.jfirst /\ u.jlast = t.jlast
  /\ u.phase = t.phase /\ u.trycnt = t.trycnt /\ u.expired = t.expired

\* Taking a free packet and filling it.
LEMMA AllocateKeeps ==
  ASSUME NEW t, NEW F, NEW C, NEW J, NEW a, NEW m, NEW frame \in FrameType,
         InPlace(t, F, C, J, Null, a, m), t.free # Null
  PROVE  AllocatedAs(t, F, C, J, frame, a, m, Allocate(t, frame))
<1> DEFINE u == Allocate(t, frame)
<1>1. t \in FieldType /\ Linkage(t, F, C, J) /\ Places(t, F, C, J, Null) /\ Sending(t, C, a, m)
  BY DEF InPlace
<1>2. F \in Seq(1 .. Pool) /\ Linked(t.free, t.next, F) /\ Null \notin 1 .. Pool
  BY <1>1, SeqTypes DEF Places, Linkage
<1>3. F # <<>> /\ t.free = F[1] /\ t.free \in 1 .. Pool
  BY <1>2, FirstOfPool
<1>5. t.next[t.free] \in PacketOrNull /\ t.free \in Packet
  BY <1>1, <1>3, Typed, SeqTypes
<1>6. u \in FieldType
  BY <1>1, <1>5 DEF Allocate, FieldType, PacketOrNull
<1>7. /\ u.free = t.next[t.free]
      /\ u.jfirst = t.jfirst /\ u.jlast = t.jlast
      /\ u.next = t.next /\ u.sfirst = t.sfirst /\ u.slast = t.slast
      /\ u.status = t.status /\ u.idx = t.idx /\ u.ring = t.ring /\ u.slot = t.slot
      /\ u.frame = [t.frame EXCEPT ![t.free] = frame]
      /\ u.phase = t.phase /\ u.trycnt = t.trycnt /\ u.expired = t.expired
  BY <1>1 DEF Allocate, FieldType
<1> HIDE DEF u
<1>8. Linkage(u, Tail(F), C, J)
  BY <1>1, <1>3, <1>6, <1>7, TakeLinkage
<1>9. Places(u, Tail(F), C, J, F[1])
  BY <1>1, <1>3, <1>6, <1>7, TakePlaces
<1>10. Sending(u, C, a, m)
  BY <1>1, <1>7 DEF Sending
<1>11. InPlace(u, Tail(F), C, J, F[1], a, m)
  BY <1>6, <1>8, <1>9, <1>10 DEF InPlace
<1> QED BY <1>3, <1>7, <1>11 DEF u, AllocatedAs

-----------------------------------------------------------------------------
(* Run releases what is sent, packet by packet. *)

\* r is t without the first packet of the chain, which is released.
PoppedAs(t, r) ==
  LET p == t.sfirst
  IN /\ r \in FieldType
     /\ r.sfirst = t.next[p] /\ r.slast = (IF t.next[p] = Null THEN Null ELSE t.slast)
     /\ r.jfirst = t.jfirst /\ r.jlast = t.jlast
     /\ r.free = (IF p = Sys THEN t.free ELSE p)
     /\ r.next = (IF p = Sys THEN t.next ELSE [t.next EXCEPT ![p] = t.free])
     /\ r.status = [t.status EXCEPT ![p] = 0] /\ r.idx = [t.idx EXCEPT ![p] = 0]
     /\ r.ring = t.ring /\ r.slot = t.slot

\* One packet goes from the chain to the free list, or it is the request.
LEMMA OneLess ==
  ASSUME NEW f \in Int, NEW c \in Int, NEW j \in Int, NEW n \in Int, NEW s \in {0, 1},
         f + c + j = n + s
  PROVE  (f + 1) + (c - 1) + j = n + s /\ (s = 1 => f + (c - 1) + j = n)
OBVIOUS

\* The first packet of the chain is released.
LEMMA PopPlaces ==
  ASSUME NEW t \in FieldType, NEW r \in FieldType, NEW F, NEW C, NEW J,
         Places(t, F, C, J, Null), C # <<>>, r.status = [t.status EXCEPT ![C[1]] = 0]
  PROVE  Places(r, IF C[1] = Sys THEN F ELSE <<C[1]>> \o F, Tail(C), J, Null)
<1> DEFINE p == C[1]
           D == Tail(C)
           G == IF p = Sys THEN F ELSE <<p>> \o F
<1>1. /\ F \in Seq(1 .. Pool) /\ C \in Seq(Packet) /\ J \in Seq(1 .. Pool)
      /\ Distinct(F) /\ Distinct(C) /\ Distinct(J)
      /\ ~\E q : In(q, F) /\ In(q, C)
      /\ ~\E q : In(q, F) /\ In(q, J)
      /\ ~\E q : In(q, C) /\ In(q, J)
  BY ApartIn DEF Places
<1>2. /\ D \in Seq(Packet) /\ Len(D) = Len(C) - 1 /\ Distinct(D)
      /\ \A q : In(q, C) <=> q = p \/ In(q, D)
      /\ ~In(p, D)
  BY <1>1, TailList
<1> HIDE DEF p, D
<1>3. p \in Packet /\ ~In(p, F) /\ ~In(p, J) /\ In(p, C)
  <2>1. In(p, C)
    BY <1>2
  <2>2. p \in Packet
    BY <2>1, <1>1, InList
  <2> QED BY <2>1, <2>2, <1>1
<1>4. /\ G \in Seq(1 .. Pool) /\ Distinct(G)
      /\ Len(G) = (IF p = Sys THEN Len(F) ELSE Len(F) + 1)
      /\ \A q : In(q, G) <=> (q = p /\ p # Sys) \/ In(q, F)
  <2>1. CASE p = Sys
    BY <2>1, <1>1
  <2>2. CASE p # Sys
    <3>1. p \in 1 .. Pool
      BY <2>2, <1>3, SeqTypes
    <3>2. /\ <<p>> \o F \in Seq(1 .. Pool) /\ Len(<<p>> \o F) = Len(F) + 1
          /\ Distinct(<<p>> \o F)
          /\ \A q : In(q, <<p>> \o F) <=> q = p \/ In(q, F)
      BY <3>1, <1>1, <1>3, ConsList
    <3>3. G = <<p>> \o F
      BY <2>2
    <3> HIDE DEF G
    <3> QED BY <3>2, <3>3, <2>2
  <2> QED BY <2>1, <2>2
<1> HIDE DEF G
<1>5. Apart(G, D) /\ Apart(G, J) /\ Apart(D, J)
  BY <1>1, <1>2, <1>3, <1>4, ApartIn
<1>6. ~In(Null, G) /\ ~In(Null, D) /\ ~In(Null, J)
  <2>1. \A q : (In(q, G) => q \in 1 .. Pool) /\ (In(q, D) => q \in Packet) /\ (In(q, J) => q \in 1 .. Pool)
    BY <1>1, <1>2, <1>4, InList
  <2> QED BY <2>1, SeqTypes
<1>7. \A q \in 1 .. Pool : q = Null \/ In(q, G) \/ In(q, D) \/ In(q, J)
  <2>1. \A q \in 1 .. Pool : q = Null \/ In(q, F) \/ In(q, C) \/ In(q, J)
    BY DEF Places
  <2> QED BY <2>1, <1>2, <1>4, SeqTypes
<1>8. /\ t.status \in [Packet -> {0, 1}] /\ Sys \in Packet
      /\ r.status = [t.status EXCEPT ![p] = 0]
  BY Typed, SeqTypes DEF p
<1>9. \A q \in Packet : r.status[q] = 1 <=> In(q, D)
  <2>1. \A q \in Packet : t.status[q] = 1 <=> In(q, C)
    BY DEF Places
  <2> QED BY <2>1, <1>2, <1>3, <1>8
<1>10. Len(G) + Len(D) + Len(J) = Pool + r.status[Sys] - (IF Null \in 1 .. Pool THEN 1 ELSE 0)
  <2>0. (IF Null \in 1 .. Pool THEN 1 ELSE 0) = 0
    BY SeqTypes
  <2>1. Len(F) + Len(C) + Len(J) = Pool + t.status[Sys] - (IF Null \in 1 .. Pool THEN 1 ELSE 0)
    BY DEF Places
  <2>2. /\ Len(F) \in Int /\ Len(C) \in Int /\ Len(J) \in Int /\ Pool \in Int
        /\ t.status[Sys] \in {0, 1} /\ r.status[Sys] \in {0, 1}
    BY <1>1, <1>8, InList, Sizes, Typed
  <2>3. Len(F) + Len(C) + Len(J) = Pool + t.status[Sys]
    <3>1. Pool + t.status[Sys] - 0 = Pool + t.status[Sys]
      BY <2>2
    <3> QED BY <3>1, <2>0, <2>1
  <2>4. Len(G) + Len(D) + Len(J) = Pool + r.status[Sys]
    <3>1. CASE p = Sys
      <4>1. t.status[Sys] = 1 /\ r.status[Sys] = 0
        BY <3>1, <1>3, <1>8 DEF Places
      <4>2. Len(G) = Len(F) /\ Len(D) = Len(C) - 1
        BY <3>1, <1>2, <1>4
      <4>3. Pool + 0 = Pool
        BY Sizes
      <4> QED BY ONLY <4>1, <4>2, <4>3, <2>2, <2>3, OneLess
    <3>2. CASE p # Sys
      <4>1. r.status[Sys] = t.status[Sys]
        BY <3>2, <1>8
      <4>2. Len(G) = Len(F) + 1 /\ Len(D) = Len(C) - 1
        BY <3>2, <1>2, <1>4
      <4> QED BY ONLY <4>1, <4>2, <2>2, <2>3, OneLess
    <3> QED BY <3>1, <3>2
  <2>5. Pool + r.status[Sys] - 0 = Pool + r.status[Sys]
    BY <2>2
  <2> QED BY <2>0, <2>4, <2>5
<1>11. Places(r, G, D, J, Null)
  BY <1>1, <1>2, <1>4, <1>5, <1>6, <1>7, <1>9, <1>10 DEF Places
<1> QED BY <1>11 DEF G, D, p

\* The packets left in the chain keep their descriptors.
LEMMA PopSending ==
  ASSUME NEW t \in FieldType, NEW r, NEW C \in Seq(Packet), NEW a, NEW m,
         Sending(t, C, a, m), m > 0, C # <<>>, Distinct(C), Len(C) <= Pool + 1,
         \A q \in Packet : q # C[1] => r.idx[q] = t.idx[q],
         r.ring = t.ring, r.slot = t.slot
  PROVE  Sending(r, Tail(C), a, m - 1)
<1> DEFINE D == Tail(C)
           n == Len(C)
<1>1. /\ D \in Seq(Packet) /\ Len(D) = n - 1 /\ n \in Nat /\ n > 0
      /\ \A k \in 1 .. n - 1 : D[k] = C[k + 1]
  BY TailOf
<1> HIDE DEF D
<1>2. m \in 0 .. n /\ m - 1 \in 0 .. Len(D) /\ Len(D) - (m - 1) = n - m
  BY <1>1 DEF Sending
<1>3. a = Back(r.slot, Len(D) - (m - 1))
  BY <1>2 DEF Sending
<1>4. ASSUME NEW k \in 1 .. Len(D)
      PROVE  /\ r.idx[D[k]] = Back(r.slot, Len(D) + 1 - k)
             /\ r.ring[Back(r.slot, Len(D) + 1 - k)] = IF k <= m - 1 THEN Null ELSE D[k]
  <2>1. k + 1 \in 1 .. n /\ 1 \in 1 .. n /\ D[k] = C[k + 1] /\ Len(D) + 1 - k = n + 1 - (k + 1)
    BY <1>1, SMTT(40)
  <2>2. C[k + 1] \in Packet /\ C[k + 1] # C[1]
    BY <2>1 DEF Distinct
  <2>3. /\ t.idx[C[k + 1]] = Back(t.slot, n + 1 - (k + 1))
        /\ t.ring[Back(t.slot, n + 1 - (k + 1))] = IF k + 1 <= m THEN Null ELSE C[k + 1]
    BY <2>1 DEF Sending
  <2>4. k + 1 <= m <=> k <= m - 1
    BY <1>2
  <2> QED BY <2>1, <2>2, <2>3, <2>4
<1>5. ASSUME NEW i \in Slot, r.ring[i] # Null
      PROVE  \E k \in 1 .. Len(D) : i = Back(r.slot, Len(D) + 1 - k)
  <2>1. PICK k \in 1 .. n : i = Back(t.slot, n + 1 - k)
    BY <1>5 DEF Sending
  <2>2. k # 1
    <3>1. t.ring[Back(t.slot, n + 1 - k)] = IF k <= m THEN Null ELSE C[k]
      BY <2>1 DEF Sending
    <3> QED BY <3>1, <2>1, <1>5, <1>2
  <2>3. k - 1 \in 1 .. Len(D) /\ Len(D) + 1 - (k - 1) = n + 1 - k
    BY <2>2, <1>1
  <2> QED BY <2>1, <2>3
<1>6. Sending(r, D, a, m - 1)
  BY <1>2, <1>3, <1>4, <1>5 DEF Sending
<1> QED BY <1>6 DEF D

\* One round of the loop that releases what is sent keeps the packets in place.
LEMMA PopKeeps ==
  ASSUME NEW t, NEW r, NEW F, NEW C, NEW J, NEW a, NEW m,
         InPlace(t, F, C, J, Null, a, m), m > 0, C # <<>>, PoppedAs(t, r)
  PROVE  InPlace(r, IF C[1] = Sys THEN F ELSE <<C[1]>> \o F, Tail(C), J, Null, a, m - 1)
<1>1. t \in FieldType /\ Linkage(t, F, C, J) /\ Places(t, F, C, J, Null) /\ Sending(t, C, a, m)
  BY DEF InPlace
<1>2. /\ F \in Seq(1 .. Pool) /\ C \in Seq(Packet) /\ J \in Seq(1 .. Pool)
      /\ Distinct(C) /\ ~In(C[1], F) /\ ~In(C[1], J)
      /\ Linked(t.free, t.next, F) /\ Linked(t.sfirst, t.next, C) /\ Linked(t.jfirst, t.next, J)
      /\ EndsAt(C, t.slast) /\ EndsAt(J, t.jlast)
  <2>1. C \in Seq(Packet) /\ ~(\E q : In(q, F) /\ In(q, C)) /\ ~(\E q : In(q, C) /\ In(q, J))
    BY <1>1, ApartIn DEF Places
  <2>2. In(C[1], C)
    BY <2>1, Empty DEF In
  <2> QED BY <2>1, <2>2, <1>1 DEF Places, Linkage
<1>3. /\ t.sfirst = C[1] /\ C[1] \in Packet
  BY <1>2, FirstOfChain
<1> DEFINE p == C[1]
           G == IF p = Sys THEN F ELSE <<p>> \o F
<1>4. /\ r \in FieldType
      /\ r.sfirst = t.next[p] /\ r.slast = (IF t.next[p] = Null THEN Null ELSE t.slast)
      /\ r.jfirst = t.jfirst /\ r.jlast = t.jlast
      /\ r.free = (IF p = Sys THEN t.free ELSE p)
      /\ r.next = (IF p = Sys THEN t.next ELSE [t.next EXCEPT ![p] = t.free])
      /\ r.status = [t.status EXCEPT ![p] = 0] /\ r.idx = [t.idx EXCEPT ![p] = 0]
      /\ r.ring = t.ring /\ r.slot = t.slot
  BY <1>3 DEF PoppedAs
<1>5. t.next \in [Packet -> PacketOrNull] /\ t.idx \in [Packet -> Slot]
  BY <1>1, Typed
<1>6. \A q \in Packet : q # p => r.next[q] = t.next[q] /\ r.idx[q] = t.idx[q]
  BY <1>4, <1>5
<1>7. Places(r, G, Tail(C), J, Null)
  BY <1>1, <1>4, PopPlaces
<1>8. Sending(r, Tail(C), a, m - 1)
  <2>1. Len(C) <= Pool + 1
    <3>1. Len(F) + Len(C) + Len(J) = Pool + t.status[Sys] - (IF Null \in 1 .. Pool THEN 1 ELSE 0)
      BY <1>1 DEF Places
    <3>2. (IF Null \in 1 .. Pool THEN 1 ELSE 0) = 0
      BY SeqTypes
    <3>3. /\ Len(F) \in Nat /\ Len(C) \in Nat /\ Len(J) \in Nat /\ Pool \in Nat
          /\ t.status[Sys] \in {0, 1}
      BY <1>1, <1>2, InList, Sizes, Typed, SeqTypes, SMTT(40)
    <3> QED BY ONLY <3>1, <3>2, <3>3
  <2> QED BY <2>1, <1>1, <1>2, <1>4, <1>6, PopSending
<1>9. /\ \A k \in 1 .. Len(F) : F[k] \in Packet /\ F[k] # p
      /\ \A k \in 1 .. Len(J) : J[k] \in Packet /\ J[k] # p
      /\ \A k \in 2 .. Len(C) : C[k] \in Packet /\ C[k] # p
  <2>1. /\ \A k \in 1 .. Len(F) : F[k] \in 1 .. Pool /\ In(F[k], F)
        /\ \A k \in 1 .. Len(J) : J[k] \in 1 .. Pool /\ In(J[k], J)
    BY <1>2, InList
  <2>2. \A k \in 2 .. Len(C) : C[k] \in Packet /\ C[k] # p
    <3>1. Len(C) \in Nat
      BY <1>2, InList
    <3> QED BY <3>1, <1>2 DEF Distinct
  <2> QED BY <2>1, <2>2, <1>2, SeqTypes
<1>10. Linked(r.free, r.next, G)
  <2>1. CASE p = Sys
    BY <2>1, <1>2, <1>4
  <2>2. CASE p # Sys
    <3>1. r.next[p] = t.free /\ r.free = p /\ G = <<p>> \o F /\ p \in 1 .. Pool
      BY <2>2, <1>3, <1>4, <1>5, SeqTypes
    <3>2. Linked(p, r.next, <<p>> \o F)
      BY <3>1, <1>2, <1>6, <1>9, LinkedCons
    <3> QED BY <3>1, <3>2
  <2> QED BY <2>1, <2>2
<1>11. Linked(r.sfirst, r.next, Tail(C))
  <2>1. \A k \in 2 .. Len(C) : r.next[C[k]] = t.next[C[k]]
    BY <1>6, <1>9
  <2>2. Linked(t.next[t.sfirst], r.next, Tail(C))
    BY <2>1, <1>2, LinkedTail
  <2> QED BY <2>2, <1>3, <1>4
<1>12. Linked(r.jfirst, r.next, J)
  BY <1>2, <1>4, <1>6, <1>9, LinkedKept
<1>13. EndsAt(Tail(C), r.slast)
  <2>1. EndsAt(Tail(C), IF Tail(C) = <<>> THEN Null ELSE t.slast) /\ Tail(C) \in Seq(Packet)
    BY <1>2, TailList
  <2>2. t.next[p] = Null <=> Tail(C) = <<>>
    <3>1. r.sfirst = Null <=> Tail(C) = <<>>
      BY <2>1, <1>11, FirstOfChain
    <3> QED BY <3>1, <1>4
  <2> QED BY <2>1, <2>2, <1>4
<1>14. Linkage(r, G, Tail(C), J)
  BY <1>10, <1>11, <1>12, <1>13, <1>2, <1>4 DEF Linkage
<1> QED BY <1>4, <1>7, <1>8, <1>14 DEF InPlace

\* How many packets at the head of the chain are sent, and the packets released
\* one after the other, as in ReleaseSent.
Releasing(A, C, n, f) ==
  f = [k \in 0 .. n |-> IF k = 0 THEN A ELSE ReleaseTxPacket(f[k - 1], C[k])]

\* The recursive function that ReleaseSent chooses exists.
LEMMA ReleasedExists ==
  ASSUME NEW A, NEW C, NEW n \in Nat
  PROVE  \E f : Releasing(A, C, n, f)
<1> DEFINE Good(f, m) == f = [k \in 0 .. m |-> IF k = 0 THEN A ELSE ReleaseTxPacket(f[k - 1], C[k])]
           Bad == {m \in Nat : ~ \E f : Good(f, m)}
<1>1. Bad = {}
  <2>1. SUFFICES ASSUME Bad # {} PROVE FALSE
    OBVIOUS
  <2>2. PICK m \in Bad : \A y \in Bad : m <= y
    <3>1. Bad \subseteq Nat
      OBVIOUS
    <3> HIDE DEF Bad
    <3> QED BY <2>1, <3>1, Least
  <2>3. m # 0
    <3>1. Good([k \in 0 .. 0 |-> A], 0)
      BY SMT
    <3> QED BY <3>1
  <2>4. m - 1 \in Nat /\ m - 1 \notin Bad
    <3>1. m \in Nat /\ m - 1 \in Nat
      BY <2>2, <2>3
    <3> HIDE DEF Bad
    <3> QED BY <3>1, <2>2
  <2>5. PICK g : Good(g, m - 1)
    BY <2>4
  <2> DEFINE h == [k \in 0 .. m |-> IF k = 0 THEN A ELSE ReleaseTxPacket(g[k - 1], C[k])]
  <2>6. \A k \in 0 .. m - 1 : h[k] = g[k]
    BY <2>5
  <2>7. Good(h, m)
    BY <2>6, SMTT(40)
  <2> QED BY <2>7, <2>2
<1> QED BY <1>1 DEF Releasing

\* What is released are the packets whose descriptors the MAC gave back.
LEMMA SentPackets ==
  ASSUME NEW t \in FieldType, NEW C \in Seq(Packet), NEW a, NEW m, Sending(t, C, a, m)
  PROVE  Sent(t, C) = m
<1> DEFINE P(n) == /\ \A k \in 1 .. n : SendFinished(t, t.idx[C[k]])
                   /\ n < Len(C) => ~SendFinished(t, t.idx[C[n + 1]])
<1>1. m \in 0 .. Len(C) /\ Len(C) \in Nat
  BY DEF Sending
<1>2. \A k \in 1 .. Len(C) : SendFinished(t, t.idx[C[k]]) <=> k <= m
  <2> TAKE k \in 1 .. Len(C)
  <2>1. t.ring[t.idx[C[k]]] = IF k <= m THEN Null ELSE C[k]
    BY DEF Sending
  <2>2. C[k] # Null
    BY InList, SeqTypes
  <2>3. m \in Int /\ k \in Int
    BY <1>1
  <2> QED BY <2>1, <2>2, <2>3 DEF SendFinished
<1>3. P(m)
  BY <1>1, <1>2
<1>4. \A n \in 0 .. Len(C) : P(n) => n = m
  <2> SUFFICES ASSUME NEW n \in 0 .. Len(C), P(n) PROVE n = m
    OBVIOUS
  <2>1. CASE n < m
    <3>1. n + 1 \in 1 .. Len(C) /\ n + 1 <= m /\ n < Len(C)
      BY <2>1, <1>1
    <3>2. SendFinished(t, t.idx[C[n + 1]])
      BY <3>1, <1>2
    <3> QED BY <3>1, <3>2
  <2>2. CASE n > m
    <3>1. m + 1 \in 1 .. Len(C) /\ m + 1 \in 1 .. n /\ ~(m + 1 <= m)
      BY <2>2, <1>1
    <3>2. SendFinished(t, t.idx[C[m + 1]])
      BY <3>1
    <3> QED BY <3>1, <3>2, <1>2
  <2> QED BY <2>1, <2>2, <1>1
<1> HIDE DEF P
<1>5. m = CHOOSE n \in 0 .. Len(C) : P(n)
  BY <1>1, <1>3, <1>4
<1> QED BY <1>5 DEF P, Sent

\* What a released packet leaves as it was.
ReleasedOnly(t, r, J) ==
  /\ r.jfirst = t.jfirst /\ r.jlast = t.jlast
  /\ r.ring = t.ring /\ r.slot = t.slot
  /\ r.phase = t.phase /\ r.trycnt = t.trycnt /\ r.expired = t.expired
  /\ r.frame[Sys] = t.frame[Sys]
  /\ \A k \in 1 .. Len(J) : r.frame[J[k]] = t.frame[J[k]]
  /\ \A q \in Packet : r.status[q] = 1 => t.status[q] = 1 /\ r.frame[q] = t.frame[q]

\* Run's loop over the chain keeps the packets in place and leaves none that is sent.
LEMMA ReleaseSentKeeps ==
  ASSUME NEW t, NEW F, NEW C, NEW J, NEW a, NEW m,
         InPlace(t, F, C, J, Null, a, m)
  PROVE  LET r == ReleaseSent(t)
         IN /\ ReleasedOnly(t, r, J)
            /\ \E G, D : InPlace(r, G, D, J, Null, a, 0)
            /\ r.status[Sys] = 1 => t.ring[t.idx[Sys]] # Null
<1> DEFINE n == Len(C)
           first == IF m < n THEN C[m + 1] ELSE Null
           A == [t EXCEPT !.sfirst = first, !.slast = IF first = Null THEN Null ELSE @]
           Good(f) == Releasing(A, C, m, f)
           rel == CHOOSE f : Good(f)
<1>1. /\ t \in FieldType /\ Linkage(t, F, C, J) /\ Places(t, F, C, J, Null) /\ Sending(t, C, a, m)
      /\ F \in Seq(1 .. Pool) /\ C \in Seq(Packet) /\ J \in Seq(1 .. Pool)
      /\ n \in Nat /\ m \in 0 .. n
      /\ \A k \in 1 .. n : C[k] \in Packet
      /\ Linked(t.sfirst, t.next, C) /\ EndsAt(C, t.slast)
  BY DEF InPlace, Places, Sending, Linkage
<1>2. Chain(t) = C
  <2>1. Len(C) <= Pool + 2 /\ Pool + 2 \in Nat \ {0}
    <3>1. Len(F) + Len(C) + Len(J) = Pool + t.status[Sys] - (IF Null \in 1 .. Pool THEN 1 ELSE 0)
      BY <1>1 DEF Places
    <3>2. (IF Null \in 1 .. Pool THEN 1 ELSE 0) = 0
      BY SeqTypes
    <3>3. /\ Len(F) \in Nat /\ Len(C) \in Nat /\ Len(J) \in Nat /\ Pool \in Nat
          /\ t.status[Sys] \in {0, 1}
      BY <1>1, InList, Sizes, Typed, SeqTypes
    <3> QED BY ONLY <3>1, <3>2, <3>3
  <2>2. Null \notin Packet
    BY SeqTypes
  <2> QED BY <2>1, <2>2, <1>1, FollowLinked DEF Chain
<1>3. ReleaseSent(t) = rel[m]
  <2>1. Sent(t, C) = m
    BY <1>1, SentPackets
  <2> QED BY <1>2, <2>1 DEF ReleaseSent, Releasing
<1>4. Good(rel)
  <2>1. m \in Nat
    BY <1>1
  <2>2. \E f : Good(f)
    <3> HIDE DEF A
    <3> QED BY <2>1, ReleasedExists
  <2> QED BY <2>2
<1> HIDE DEF rel
<1>5. rel[0] = A /\ \A k \in 1 .. m : rel[k] = ReleaseTxPacket(rel[k - 1], C[k])
  <2>1. m \in Nat
    BY <1>1
  <2> HIDE DEF A
  <2>2. rel = [k \in 0 .. m |-> IF k = 0 THEN A ELSE ReleaseTxPacket(rel[k - 1], C[k])]
    BY <1>4 DEF Releasing
  <2>3. 0 \in 0 .. m /\ \A k \in 1 .. m : k \in 0 .. m /\ k # 0
    BY <2>1
  <2>4. rel[0] = A
    BY <2>2, <2>3
  <2>5. ASSUME NEW k \in 1 .. m PROVE rel[k] = ReleaseTxPacket(rel[k - 1], C[k])
    BY <2>2, <2>3
  <2> QED BY <2>4, <2>5
<1> HIDE DEF Good
<1>6. first \in PacketOrNull
  <2>1. m < n => m + 1 \in 1 .. n
    BY <1>1
  <2> QED BY <2>1, <1>1 DEF PacketOrNull
<1> DEFINE head(k) == IF k < n THEN C[k + 1] ELSE Null
           end(k) == IF k < n THEN C[n] ELSE Null
           Tied(r, k) == [r EXCEPT !.sfirst = head(k), !.slast = end(k)]
           Left(k) == SubSeq(C, k + 1, n)
           Step(k) == /\ rel[k] \in FieldType
                      /\ rel[k].sfirst = first
                      /\ rel[k].slast = (IF first = Null THEN Null ELSE t.slast)
                      /\ ReleasedOnly(t, rel[k], J)
                      /\ \E G : InPlace(Tied(rel[k], k), G, Left(k), J, Null, a, m - k)
<1>7. t.sfirst = head(0) /\ t.slast = end(0) /\ head(m) = first
  <2>1. n = 0 <=> C = <<>>
    BY <1>1, Empty
  <2> QED BY <2>1, <1>1 DEF Linked, EndsAt
<1>8. Left(0) = C /\ Left(n) = <<>> /\ \A k \in 0 .. n - 1 : /\ Left(k) # <<>> /\ Left(k)[1] = C[k + 1]
                                           /\ Left(k + 1) = Tail(Left(k))
                                           /\ Left(k) \in Seq(Packet)
  <2>1. Left(0) = C /\ Left(n) = <<>>
    BY <1>1
  <2>2. ASSUME NEW k \in 0 .. n - 1
        PROVE  /\ Left(k) # <<>> /\ Left(k)[1] = C[k + 1] /\ Left(k + 1) = Tail(Left(k))
               /\ Left(k) \in Seq(Packet)
    <3>1. /\ Left(k) \in Seq(Packet) /\ Len(Left(k)) = n - k
          /\ \A j \in 1 .. n - k : Left(k)[j] = C[k + j]
      BY <1>1
    <3>2. /\ Left(k + 1) \in Seq(Packet) /\ Len(Left(k + 1)) = n - k - 1
          /\ \A j \in 1 .. n - k - 1 : Left(k + 1)[j] = C[k + 1 + j]
      BY <1>1
    <3> HIDE DEF Left
    <3>3. Left(k) # <<>> /\ Left(k)[1] = C[k + 1]
      <4>1. 1 \in 1 .. n - k /\ n - k # 0
        BY <1>1
      <4> QED BY <4>1, <3>1, Empty
    <3>4. /\ Tail(Left(k)) \in Seq(Packet) /\ Len(Tail(Left(k))) = n - k - 1
          /\ \A j \in 1 .. n - k - 1 : Tail(Left(k))[j] = Left(k)[j + 1]
      BY <3>1, <3>3, TailOf
    <3>5. \A j \in 1 .. n - k - 1 : Tail(Left(k))[j] = Left(k + 1)[j]
      <4> TAKE j \in 1 .. n - k - 1
      <4>1. j + 1 \in 1 .. n - k /\ k + (j + 1) = k + 1 + j
        BY <1>1
      <4> QED BY <4>1, <3>1, <3>2, <3>4
    <3>6. Left(k + 1) = Tail(Left(k))
      BY <3>2, <3>4, <3>5, SameSeq
    <3> QED BY <3>1, <3>3, <3>6
  <2> QED BY <2>1, <2>2
<1> HIDE DEF head, end, Left, first
<1>9. Step(0)
  <2>1. rel[0] \in FieldType /\ rel[0].sfirst = first
        /\ rel[0].slast = (IF first = Null THEN Null ELSE t.slast)
    <3>1. A \in FieldType
      BY <1>1, <1>6 DEF FieldType, PacketOrNull
    <3>2. A.sfirst = first /\ A.slast = (IF first = Null THEN Null ELSE t.slast)
      BY <1>1 DEF FieldType
    <3> HIDE DEF A
    <3> QED BY <3>1, <3>2, <1>5
  <2>2. ReleasedOnly(t, rel[0], J)
    BY <1>1, <1>5 DEF ReleasedOnly, FieldType
  <2>3. Tied(rel[0], 0) = t
    BY <1>1, <1>5, <1>7 DEF FieldType
  <2>4. InPlace(Tied(rel[0], 0), F, Left(0), J, Null, a, m - 0)
    BY <2>3, <1>1, <1>8
  <2> QED BY <2>1, <2>2, <2>4
<1>10. ASSUME NEW k \in 0 .. m, k < m, Step(k)
       PROVE  Step(k + 1)
  <2> DEFINE u == rel[k]
             v == Tied(u, k)
             r == rel[k + 1]
             w == Tied(r, k + 1)
             p == C[k + 1]
  <2>1. /\ k + 1 \in 1 .. m /\ k + 1 \in 1 .. n /\ k \in 0 .. n - 1 /\ p \in Packet
        /\ m - k > 0 /\ m - k - 1 = m - (k + 1)
    BY <1>1, <1>10
  <2>2. PICK G : InPlace(v, G, Left(k), J, Null, a, m - k)
    BY <1>10
  <2>3. r = ReleaseTxPacket(u, p)
    BY <2>1, <1>5
  <2>4. /\ u \in FieldType /\ u.sfirst = first
        /\ u.slast = (IF first = Null THEN Null ELSE t.slast)
        /\ ReleasedOnly(t, u, J)
    BY <1>10
  <2>5. ReleasedAs(u, p, r)
    BY <2>1, <2>3, <2>4, ReleaseFields
  <2> HIDE DEF u, r
  <2>6. /\ head(k + 1) \in PacketOrNull /\ end(k + 1) \in PacketOrNull
        /\ head(k) = p /\ end(k + 1) = (IF head(k + 1) = Null THEN Null ELSE end(k))
    <3>1. k < n /\ n \in 1 .. n /\ (k + 1 < n => k + 1 + 1 \in 1 .. n)
      BY <2>1, <1>1
    <3>2. \A j \in 1 .. n : C[j] \in Packet /\ C[j] # Null
      BY <1>1, SeqTypes
    <3> QED BY <3>1, <3>2 DEF head, end, PacketOrNull
  <2>7. /\ v \in FieldType /\ v.sfirst = head(k) /\ v.slast = end(k)
        /\ v.next = u.next /\ v.free = u.free /\ v.jfirst = u.jfirst /\ v.jlast = u.jlast
        /\ v.status = u.status /\ v.idx = u.idx /\ v.ring = u.ring /\ v.slot = u.slot
    <3>1. v \in FieldType
      BY <2>2 DEF InPlace
    <3> QED BY <3>1, <2>4 DEF FieldType
  <2>8. /\ w \in FieldType /\ w.sfirst = head(k + 1) /\ w.slast = end(k + 1)
        /\ w.next = r.next /\ w.free = r.free /\ w.jfirst = r.jfirst /\ w.jlast = r.jlast
        /\ w.status = r.status /\ w.idx = r.idx /\ w.ring = r.ring /\ w.slot = r.slot
    <3>1. r \in FieldType
      BY <2>5 DEF ReleasedAs
    <3>2. w \in FieldType
      BY <3>1, <2>6 DEF FieldType
    <3> QED BY <3>1, <3>2 DEF FieldType
  <2> HIDE DEF v, w
  <2>9. v.next[p] = head(k + 1)
    <3>1. Linked(v.sfirst, v.next, Left(k)) /\ Left(k) # <<>> /\ Left(k) \in Seq(Packet)
          /\ Left(k + 1) = Tail(Left(k))
      BY <2>1, <2>2, <1>8 DEF InPlace, Linkage
    <3>2. Linked(v.next[v.sfirst], v.next, Left(k + 1))
      BY <3>1, LinkedTail
    <3>3. v.next[p] = IF Left(k + 1) = <<>> THEN Null ELSE Left(k + 1)[1]
      BY <3>2, <2>6, <2>7 DEF Linked
    <3>4. CASE k + 1 < n
      <4>1. k + 1 \in 0 .. n - 1
        BY <3>4, <2>1, <1>1
      <4> QED BY <4>1, <3>3, <3>4, <1>8 DEF head
    <3>5. CASE ~(k + 1 < n)
      <4>1. k + 1 = n
        BY <3>5, <2>1, <1>1
      <4> QED BY <4>1, <3>3, <3>5, <1>8 DEF head
    <3> QED BY <3>4, <3>5
  <2>10. PoppedAs(v, w)
    <3>1. /\ r.jfirst = u.jfirst /\ r.jlast = u.jlast
          /\ r.free = (IF p = Sys THEN u.free ELSE p)
          /\ r.next = (IF p = Sys THEN u.next ELSE [u.next EXCEPT ![p] = u.free])
          /\ r.status = [u.status EXCEPT ![p] = 0] /\ r.idx = [u.idx EXCEPT ![p] = 0]
          /\ r.ring = u.ring /\ r.slot = u.slot
      BY <2>5 DEF ReleasedAs
    <3> QED BY <3>1, <2>6, <2>7, <2>8, <2>9 DEF PoppedAs
  <2>11. \E H : InPlace(w, H, Left(k + 1), J, Null, a, m - (k + 1))
    <3>1. /\ Left(k) # <<>> /\ Left(k + 1) = Tail(Left(k))
      BY <2>1, <1>8
    <3> QED BY <3>1, <2>1, <2>2, <2>10, PopKeeps
  <2>12. /\ r \in FieldType /\ r.sfirst = first
         /\ r.slast = (IF first = Null THEN Null ELSE t.slast)
    BY <2>4, <2>5 DEF ReleasedAs
  <2>13. ReleasedOnly(t, r, J)
    <3>1. /\ r.jfirst = u.jfirst /\ r.jlast = u.jlast /\ r.ring = u.ring /\ r.slot = u.slot
          /\ r.phase = u.phase /\ r.trycnt = u.trycnt /\ r.expired = u.expired
          /\ r.frame = (IF p = Sys THEN u.frame ELSE [u.frame EXCEPT ![p] = NoFrame])
          /\ r.status = [u.status EXCEPT ![p] = 0]
      BY <2>5 DEF ReleasedAs
    <3>2. u.frame \in [Packet -> FrameType] /\ u.status \in [Packet -> {0, 1}]
      BY <2>4, Typed
    <3>3. \A q \in Packet : q # p => r.frame[q] = u.frame[q] /\ r.status[q] = u.status[q]
      BY <3>1, <3>2
    <3>4. r.frame[Sys] = u.frame[Sys] /\ r.status[p] = 0
      BY <3>1, <3>2, <2>1, SeqTypes
    <3>5. \A j \in 1 .. Len(J) : J[j] \in Packet /\ J[j] # p
      <4>1. Apart(C, J)
        BY <1>1 DEF Places
      <4>2. \A j \in 1 .. Len(J) : J[j] \in 1 .. Pool
        BY <1>1, InList
      <4> QED BY <4>1, <4>2, <2>1, SeqTypes DEF Apart
    <3> QED BY <2>4, <3>1, <3>3, <3>4, <3>5 DEF ReleasedOnly
  <2> QED BY <2>11, <2>12, <2>13 DEF w, r
<1>11. \A k \in 0 .. m : Step(k)
  <2> DEFINE Bad == {k \in 0 .. m : ~Step(k)}
  <2> HIDE DEF Step
  <2>1. SUFFICES ASSUME Bad # {} PROVE FALSE
    OBVIOUS
  <2>2. PICK k \in Bad : \A y \in Bad : k <= y
    <3>1. Bad \subseteq Nat
      BY <1>1
    <3> HIDE DEF Bad
    <3> QED BY <2>1, <3>1, Least
  <2>3. k # 0
    BY <2>2, <1>9
  <2>4. k - 1 \in 0 .. m /\ k - 1 < m /\ k - 1 \notin Bad /\ k - 1 + 1 = k
    <3>1. k \in 0 .. m /\ m \in Nat
      BY <2>2, <1>1
    <3>2. k - 1 \in 0 .. m /\ k - 1 < m /\ k - 1 + 1 = k /\ ~(k <= k - 1)
      BY <3>1, <2>3
    <3> HIDE DEF Bad
    <3> QED BY <3>2, <2>2
  <2>5. Step(k - 1)
    BY <2>4
  <2>6. Step(k)
    BY <2>4, <2>5, <1>10
  <2> QED BY <2>2, <2>6
<1> DEFINE r == rel[m]
<1>12. Step(m)
  <2>1. m \in 0 .. m
    BY <1>1
  <2> HIDE DEF Step
  <2> QED BY <2>1, <1>11
<1>13. Tied(r, m) = r
  <2>1. end(m) = (IF first = Null THEN Null ELSE t.slast)
    <3>1. m < n => m + 1 \in 1 .. n
      BY <1>1
    <3>2. n # 0 => t.slast = C[n]
      BY <1>1, Empty DEF EndsAt
    <3>3. m < n => C[m + 1] # Null /\ n # 0
      BY <3>1, <1>1, SeqTypes
    <3> QED BY <3>2, <3>3 DEF end, first
  <2>2. r \in FieldType /\ r.sfirst = first /\ r.slast = (IF first = Null THEN Null ELSE t.slast)
    BY <1>12
  <2> QED BY <2>1, <2>2, <1>7 DEF FieldType
<1>14. PICK G : InPlace(r, G, Left(m), J, Null, a, 0)
  <2>1. m - m = 0
    BY <1>1
  <2> QED BY <2>1, <1>12, <1>13
<1>15. ReleasedOnly(t, r, J)
  BY <1>12
<1> HIDE DEF Step, Tied, r
<1>16. ASSUME r.status[Sys] = 1 PROVE t.ring[t.idx[Sys]] # Null
  <2>1. /\ t.status[Sys] = 1 /\ Sys \in Packet
    BY <1>15, <1>16, SeqTypes DEF ReleasedOnly
  <2>2. PICK k \in 1 .. n : C[k] = Sys
    BY <2>1, <1>1 DEF Places, In
  <2>3. PICK j \in 1 .. Len(Left(m)) : Left(m)[j] = Sys
    BY <2>1, <1>14, <1>16 DEF InPlace, Places, In
  <2>4. j \in 1 .. n - m /\ C[m + j] = Sys
    BY <2>3, <1>1 DEF Left
  <2>5. m + j \in 1 .. n /\ ~(m + j <= m)
    BY <2>4, <1>1
  <2>6. /\ t.idx[C[m + j]] = Back(t.slot, n + 1 - (m + j))
        /\ t.ring[Back(t.slot, n + 1 - (m + j))] = IF m + j <= m THEN Null ELSE C[m + j]
    BY <2>5, <1>1 DEF Sending
  <2> QED BY <2>4, <2>5, <2>6, <2>1, SeqTypes
<1> QED BY <1>3, <1>14, <1>15, <1>16 DEF r

-----------------------------------------------------------------------------
(* The jobs. *)

\* The table leads to hardware addresses.
LooksUp(tab) ==
  \A ip : FindByIp(tab, ip) # Null => tab.mac[FindByIp(tab, ip)] \in Mac \cup {NoMac}

\* The requests sent for the first job, when r follows t.
Asked(t, r, n) == IF r.jfirst = t.jfirst THEN n ELSE 0

\* What a step from t to r does to the packets of the pool: what is being sent
\* stays as it is, what starts being sent goes where the table says, and what
\* waited is given up after all tries only.
PacketStep(t, r, J, n, tab) ==
  /\ \A p \in 1 .. Pool : t.status[p] = 1 => r.status[p] = 1 /\ r.frame[p] = t.frame[p]
  /\ \A p \in 1 .. Pool :
       t.status[p] = 0 /\ r.status[p] = 1 /\ r.frame[p].kind = "datagram"
       => /\ FindByIp(tab, r.frame[p].hop) # Null
          /\ r.frame[p].mac = tab.mac[FindByIp(tab, r.frame[p].hop)]
  /\ \A k \in 1 .. Len(J) : r.frame[J[k]] = NoFrame => n = MaxTries

\* A job stays in the list until it is sent or given up.
JobStep(t, r, J, K) ==
  /\ \A k \in 1 .. Len(J) : In(J[k], K) \/ r.status[J[k]] = 1 \/ r.frame[J[k]] = NoFrame
  /\ t.phase = 0 => r.jfirst = t.jfirst
  /\ r.jfirst # t.jfirst => r.phase = 0

\* A member that the lists do not depend on is set.
LEMMA SetKeeps ==
  ASSUME NEW t, NEW F, NEW C, NEW J, NEW h, NEW a, NEW m, NEW r \in FieldType,
         InPlace(t, F, C, J, h, a, m),
         r.next = t.next, r.free = t.free, r.sfirst = t.sfirst, r.slast = t.slast,
         r.jfirst = t.jfirst, r.jlast = t.jlast, r.status = t.status, r.idx = t.idx,
         r.ring = t.ring, r.slot = t.slot
  PROVE  InPlace(r, F, C, J, h, a, m) /\ (Pending(t) <=> Pending(r))
<1>1. Linkage(t, F, C, J) /\ Places(t, F, C, J, h) /\ Sending(t, C, a, m)
  BY DEF InPlace
<1>2. Linkage(r, F, C, J)
  BY <1>1, SameLists
<1>3. Places(r, F, C, J, h)
  BY <1>1, SameLists
<1>4. Sending(r, C, a, m)
  BY <1>1, SameLists
<1>5. Pending(t) <=> Pending(r)
  BY SameLists
<1> QED BY <1>2, <1>3, <1>4, <1>5 DEF InPlace

\* The packet of the requests is with the MAC only while it is being sent.
LEMMA PendingSent ==
  ASSUME NEW t, NEW F, NEW C, NEW J, NEW h, NEW a, NEW m,
         InPlace(t, F, C, J, h, a, m), Pending(t)
  PROVE  t.status[Sys] = 1
<1>1. PICK i \in Slot : t.ring[i] = Sys
  BY DEF Pending
<1>2. Sys # Null /\ Sys \in Packet
  BY SeqTypes
<1>3. PICK k \in 1 .. Len(C) : i = Back(t.slot, Len(C) + 1 - k)
  BY <1>1, <1>2 DEF InPlace, Sending
<1>4. t.ring[i] = IF k <= m THEN Null ELSE C[k]
  BY <1>3 DEF InPlace, Sending
<1>5. In(Sys, C)
  BY <1>1, <1>2, <1>4 DEF In
<1> QED BY <1>2, <1>5 DEF InPlace, Places

\* The request, when it is not being sent, is ArpRun's to send.
LEMMA SysInHand ==
  ASSUME NEW t, NEW F, NEW C, NEW J, NEW a, NEW m,
         InPlace(t, F, C, J, Null, a, m), t.status[Sys] = 0
  PROVE  InPlace(t, F, C, J, Sys, a, m)
<1>1. Places(t, F, C, J, Null)
  BY DEF InPlace
<1>2. ~In(Sys, C)
  BY <1>1, SeqTypes DEF Places
<1>3. ~In(Sys, F) /\ ~In(Sys, J)
  <2>1. F \in Seq(1 .. Pool) /\ J \in Seq(1 .. Pool)
    BY <1>1 DEF Places
  <2>2. \A q : (In(q, F) => q \in 1 .. Pool) /\ (In(q, J) => q \in 1 .. Pool)
    BY <2>1, InList
  <2> QED BY <2>2, SeqTypes
<1>4. (IF Null \in 1 .. Pool THEN 1 ELSE 0) = (IF Sys \in 1 .. Pool THEN 1 ELSE 0)
  BY SeqTypes
<1>5. \A p \in 1 .. Pool : In(p, F) \/ In(p, C) \/ In(p, J)
  <2>1. \A p \in 1 .. Pool : p = Null \/ In(p, F) \/ In(p, C) \/ In(p, J)
    BY <1>1 DEF Places
  <2> QED BY <2>1, SeqTypes
<1>6. Places(t, F, C, J, Sys)
  BY <1>1, <1>2, <1>3, <1>4, <1>5 DEF Places
<1> QED BY <1>6 DEF InPlace

\* The request in r, which followed t.
RequestedAs(t, r, tries) ==
  /\ Pending(r)
  /\ r.phase = 1 /\ r.trycnt = tries /\ r.expired = FALSE
  /\ r.frame = t.frame /\ r.jfirst = t.jfirst
  /\ \A p \in 1 .. Pool : r.status[p] = t.status[p]

\* ArpRun sends the request.
LEMMA SendRequestKeeps ==
  ASSUME NEW t, NEW F, NEW C, NEW J, NEW a, NEW m, NEW tries \in 1 .. MaxTries,
         InPlace(t, F, C, J, Null, a, m), t.status[Sys] = 0
  PROVE  /\ InPlace(SendRequest(t, tries), F, Append(C, Sys), J, Null, a, m)
         /\ RequestedAs(t, SendRequest(t, tries), tries)
<1> DEFINE s == SendTxPacket(t, Sys)
           r == SendRequest(t, tries)
<1>1. InPlace(t, F, C, J, Sys, a, m) /\ Sys \in Packet
  BY SysInHand, SeqTypes
<1>2. SentAs(t, Sys, s) /\ InPlace(s, F, Append(C, Sys), J, Null, a, m)
  BY <1>1, SendKeeps
<1>3. r = [s EXCEPT !.phase = 1, !.trycnt = tries, !.expired = FALSE]
  BY DEF SendRequest
<1> HIDE DEF s, r
<1>4. s \in FieldType
  BY <1>2 DEF SentAs
<1>5. tries \in 0 .. MaxTries
  OBVIOUS
<1>6. r \in FieldType
  BY <1>3, <1>4, <1>5 DEF FieldType
<1>7. /\ r.next = s.next /\ r.free = s.free /\ r.sfirst = s.sfirst /\ r.slast = s.slast
      /\ r.jfirst = s.jfirst /\ r.jlast = s.jlast /\ r.status = s.status /\ r.idx = s.idx
      /\ r.ring = s.ring /\ r.slot = s.slot /\ r.frame = s.frame
      /\ r.phase = 1 /\ r.trycnt = tries /\ r.expired = FALSE
  BY <1>3, <1>4 DEF FieldType
<1>8. InPlace(r, F, Append(C, Sys), J, Null, a, m)
  BY <1>2, <1>6, <1>7, SetKeeps
<1>9. t \in FieldType /\ t.slot \in Slot /\ t.ring \in [Slot -> PacketOrNull]
      /\ t.status \in [Packet -> {0, 1}]
  BY <1>1, Typed DEF InPlace
<1>10. s.ring = [t.ring EXCEPT ![t.slot] = Sys] /\ s.status = [t.status EXCEPT ![Sys] = 1]
       /\ s.frame = t.frame /\ s.jfirst = t.jfirst
  BY <1>2 DEF SentAs
<1>11. Pending(r)
  BY <1>7, <1>9, <1>10 DEF Pending
<1>12. \A p \in 1 .. Pool : r.status[p] = t.status[p]
  BY <1>7, <1>9, <1>10, SeqTypes
<1> QED BY <1>7, <1>8, <1>10, <1>11, <1>12 DEF r, RequestedAs

\* What Rest sets.
LEMMA RestFields ==
  ASSUME NEW t \in FieldType
  PROVE  LET r == Rest(t)
         IN /\ r \in FieldType
            /\ r.next = t.next /\ r.free = t.free /\ r.sfirst = t.sfirst /\ r.slast = t.slast
            /\ r.jfirst = t.jfirst /\ r.jlast = t.jlast /\ r.status = t.status /\ r.idx = t.idx
            /\ r.ring = t.ring /\ r.slot = t.slot
            /\ r.phase = 0 /\ r.trycnt = 0 /\ r.expired = FALSE
            /\ \A p \in 1 .. Pool : r.frame[p] = t.frame[p]
<1> DEFINE r == Rest(t)
           f == IF t.status[Sys] = 0 THEN NoFrame ELSE t.frame[Sys]
<1>1. t.frame \in [Packet -> FrameType] /\ f \in FrameType /\ Sys \in Packet /\ 0 \in 0 .. MaxTries
  BY Typed, Frames, SeqTypes, Sizes
<1>2. r = [t EXCEPT !.phase = 0, !.trycnt = 0, !.expired = FALSE, !.frame[Sys] = f]
  BY DEF Rest
<1> HIDE DEF f, r
<1>3. r \in FieldType
  BY <1>1, <1>2 DEF FieldType
<1>4. /\ r.next = t.next /\ r.free = t.free /\ r.sfirst = t.sfirst /\ r.slast = t.slast
      /\ r.jfirst = t.jfirst /\ r.jlast = t.jlast /\ r.status = t.status /\ r.idx = t.idx
      /\ r.ring = t.ring /\ r.slot = t.slot
      /\ r.phase = 0 /\ r.trycnt = 0 /\ r.expired = FALSE
      /\ r.frame = [t.frame EXCEPT ![Sys] = f]
  BY <1>2 DEF FieldType
<1>5. \A p \in 1 .. Pool : r.frame[p] = t.frame[p]
  BY <1>1, <1>4, SeqTypes
<1> QED BY <1>3, <1>4, <1>5 DEF r

\* What a job is.
LEMMA FirstJob ==
  ASSUME NEW t, NEW F, NEW C, NEW J, NEW h, NEW a, NEW m,
         InPlace(t, F, C, J, h, a, m)
  PROVE  /\ t.jfirst = Null <=> J = <<>>
         /\ J # <<>> => /\ t.jfirst = J[1] /\ J[1] \in 1 .. Pool /\ J[1] \in Packet
                        /\ 1 \in 1 .. Len(J) /\ t.status[J[1]] = 0
                        /\ t.frame[J[1]] \in FrameType
<1>1. /\ t \in FieldType /\ J \in Seq(1 .. Pool) /\ Linked(t.jfirst, t.next, J) /\ Apart(C, J)
      /\ \A p \in Packet : t.status[p] = 1 <=> In(p, C)
  BY DEF InPlace, Linkage, Places
<1>2. /\ t.jfirst = Null <=> J = <<>>
      /\ J # <<>> => t.jfirst = J[1] /\ t.jfirst \in 1 .. Pool /\ 1 \in 1 .. Len(J)
  BY <1>1, FirstOfPool
<1>3. ASSUME J # <<>>
      PROVE  J[1] \in Packet /\ t.status[J[1]] = 0 /\ t.frame[J[1]] \in FrameType
  <2>1. J[1] \in Packet /\ 1 \in 1 .. Len(J)
    BY <1>2, <1>3, SeqTypes
  <2>2. ~In(J[1], C)
    BY <1>1, <2>1 DEF In, Apart
  <2> QED BY <1>1, <2>1, <2>2, Typed
<1> QED BY <1>2, <1>3

\* Nothing but the phase of the first job and its time changes.
WaitsAs(t, r) ==
  /\ r \in FieldType
  /\ r.next = t.next /\ r.free = t.free /\ r.sfirst = t.sfirst /\ r.slast = t.slast
  /\ r.jfirst = t.jfirst /\ r.jlast = t.jlast /\ r.status = t.status /\ r.idx = t.idx
  /\ r.ring = t.ring /\ r.slot = t.slot /\ r.frame = t.frame

\* ArpRun waits, or moves to its next phase.
LEMMA WaitStep ==
  ASSUME NEW t, NEW F, NEW C, NEW J, NEW a, NEW m, NEW n, NEW r, NEW tab,
         InPlace(t, F, C, J, Null, a, m), Asking(t, J, n), WaitsAs(t, r)
  PROVE  InPlace(r, F, C, J, Null, a, m) /\ PacketStep(t, r, J, n, tab) /\ JobStep(t, r, J, J)
<1>1. InPlace(r, F, C, J, Null, a, m) /\ (Pending(t) <=> Pending(r))
  BY SetKeeps DEF WaitsAs
<1>2. \A k \in 1 .. Len(J) : r.frame[J[k]] # NoFrame
  BY Frames DEF Asking, WaitsAs
<1>3. PacketStep(t, r, J, n, tab)
  BY <1>2 DEF PacketStep, WaitsAs
<1>4. JobStep(t, r, J, J)
  BY DEF In, JobStep, WaitsAs
<1> QED BY <1>1, <1>3, <1>4

\* The cases of ArpRun.
LEMMA AskFirst ==
  ASSUME NEW t, NEW F, NEW C, NEW J, NEW a, NEW m, NEW n, NEW tab,
         InPlace(t, F, C, J, Null, a, m), Asking(t, J, n), J # <<>>, t.phase = 0
  PROVE  LET u == [t EXCEPT !.frame[Sys] = Frame("request", t.frame[t.jfirst].hop, NoMac)]
             r == SendRequest(u, 1)
         IN /\ InPlace(r, F, Append(C, Sys), J, Null, a, m)
            /\ Asking(r, J, Asked(t, r, n))
            /\ PacketStep(t, r, J, n, tab) /\ JobStep(t, r, J, J)
<1> DEFINE f == Frame("request", t.frame[t.jfirst].hop, NoMac)
           u == [t EXCEPT !.frame[Sys] = f]
           r == SendRequest(u, 1)
<1>1. t \in FieldType /\ t.frame \in [Packet -> FrameType] /\ Sys \in Packet
      /\ t.status \in [Packet -> {0, 1}]
  BY Typed, SeqTypes DEF InPlace
<1>2. /\ t.jfirst = J[1] /\ J[1] \in 1 .. Pool /\ 1 \in 1 .. Len(J)
      /\ t.frame[t.jfirst] \in FrameType
  BY FirstJob
<1>3. f \in FrameType /\ f.hop = t.frame[t.jfirst].hop
  BY <1>2 DEF FrameType, Frame
<1>4. t.status[Sys] = 0 /\ n = 0
  BY <1>1 DEF Asking
<1> HIDE DEF f
<1>5. u \in FieldType
  BY <1>1, <1>3 DEF FieldType
<1>6. /\ u.next = t.next /\ u.free = t.free /\ u.sfirst = t.sfirst /\ u.slast = t.slast
      /\ u.jfirst = t.jfirst /\ u.jlast = t.jlast /\ u.status = t.status /\ u.idx = t.idx
      /\ u.ring = t.ring /\ u.slot = t.slot
      /\ u.frame = [t.frame EXCEPT ![Sys] = f]
  BY <1>1 DEF FieldType
<1> HIDE DEF u
<1>7. InPlace(u, F, C, J, Null, a, m)
  BY <1>5, <1>6, SetKeeps
<1>8. /\ InPlace(r, F, Append(C, Sys), J, Null, a, m)
      /\ Pending(r) /\ r.phase = 1 /\ r.trycnt = 1 /\ r.expired = FALSE
      /\ r.frame = u.frame /\ r.jfirst = t.jfirst
      /\ \A p \in 1 .. Pool : r.status[p] = t.status[p]
  <2>1. 1 \in 1 .. MaxTries
    BY Sizes
  <2>2. u.status[Sys] = 0
    BY <1>4, <1>6
  <2>3. InPlace(r, F, Append(C, Sys), J, Null, a, m) /\ RequestedAs(u, r, 1)
    BY <2>1, <2>2, <1>7, SendRequestKeeps DEF r
  <2> QED BY <2>3, <1>6 DEF RequestedAs
<1> HIDE DEF r
<1>9. \A p \in 1 .. Pool : r.frame[p] = t.frame[p]
  BY <1>1, <1>6, <1>8, SeqTypes
<1>10. \A k \in 1 .. Len(J) : J[k] \in 1 .. Pool /\ In(J[k], J)
  <2>1. J \in Seq(1 .. Pool)
    BY DEF InPlace, Places
  <2> QED BY <2>1, InList
<1>11. r.frame[Sys] = f
  BY <1>1, <1>6, <1>8
<1>12. Asking(r, J, Asked(t, r, n))
  <2>1. Asked(t, r, n) = 0
    BY <1>4, <1>8 DEF Asked
  <2>2. \A k \in 1 .. Len(J) : r.frame[J[k]].kind = "datagram"
    BY <1>9, <1>10 DEF Asking
  <2>3. r.frame[Sys].hop = r.frame[J[1]].hop
    BY <1>2, <1>3, <1>9, <1>11
  <2>4. 0 + 1 = 1 /\ 1 \in 1 .. MaxTries
    BY Sizes
  <2> QED BY <2>1, <2>2, <2>3, <2>4, <1>8 DEF Asking
<1>13. PacketStep(t, r, J, n, tab)
  <2>1. \A k \in 1 .. Len(J) : r.frame[J[k]] # NoFrame
    BY <1>9, <1>10, Frames DEF Asking
  <2> QED BY <2>1, <1>8, <1>9 DEF PacketStep
<1>14. JobStep(t, r, J, J)
  BY <1>8, <1>10 DEF JobStep
<1> QED BY <1>8, <1>12, <1>13, <1>14 DEF r, u, f


\* The first job's packet is sent.
LEMMA SendFirst ==
  ASSUME NEW t, NEW F, NEW C, NEW J, NEW a, NEW m, NEW n, NEW tab, NEW item,
         InPlace(t, F, C, J, Null, a, m), Asking(t, J, n), J # <<>>, t.phase = 5,
         item = FindByIp(tab, t.frame[t.jfirst].hop), item # Null,
         tab.mac[item] \in Mac \cup {NoMac}
  PROVE  LET u == [t EXCEPT !.frame[t.jfirst].mac = tab.mac[item]]
             r == Rest(FinishJob(u, TRUE))
         IN /\ InPlace(r, F, Append(C, J[1]), Tail(J), Null, a, m)
            /\ Asking(r, Tail(J), Asked(t, r, n))
            /\ PacketStep(t, r, J, n, tab) /\ JobStep(t, r, J, Tail(J))
<1> DEFINE job == t.jfirst
           f == [t.frame[job] EXCEPT !.mac = tab.mac[item]]
           u == [t EXCEPT !.frame[job].mac = tab.mac[item]]
           v == Unqueue(u)
           s == SendTxPacket(v, job)
           r == Rest(FinishJob(u, TRUE))
<1>1. /\ t \in FieldType /\ t.frame \in [Packet -> FrameType] /\ t.status \in [Packet -> {0, 1}]
      /\ job = J[1] /\ job \in 1 .. Pool /\ job \in Packet /\ 1 \in 1 .. Len(J)
      /\ t.status[job] = 0 /\ t.frame[job] \in FrameType
  BY FirstJob, Typed DEF InPlace
<1>2. /\ f \in FrameType /\ f.hop = t.frame[job].hop /\ f.kind = t.frame[job].kind
      /\ f.mac = tab.mac[item]
  BY <1>1 DEF FrameType
<1>3. u = [t EXCEPT !.frame = [t.frame EXCEPT ![job] = f]]
  BY <1>1 DEF FieldType
<1> HIDE DEF f
<1>4. u \in FieldType
  <2> DEFINE g == [t.frame EXCEPT ![job] = f]
  <2>1. g \in [Packet -> FrameType]
    BY <1>1, <1>2
  <2>2. u = [t EXCEPT !.frame = g]
    BY <1>3
  <2> HIDE DEF g, u
  <2> QED BY <1>1, <2>1, <2>2 DEF FieldType
<1>5. /\ u.next = t.next /\ u.free = t.free /\ u.sfirst = t.sfirst /\ u.slast = t.slast
      /\ u.jfirst = t.jfirst /\ u.jlast = t.jlast /\ u.status = t.status /\ u.idx = t.idx
      /\ u.ring = t.ring /\ u.slot = t.slot
      /\ u.phase = t.phase /\ u.trycnt = t.trycnt /\ u.expired = t.expired
      /\ u.frame = [t.frame EXCEPT ![job] = f]
  BY <1>1, <1>3 DEF FieldType
<1>6. r = Rest(s)
  BY <1>5 DEF FinishJob
<1> HIDE DEF u
<1>7. InPlace(u, F, C, J, Null, a, m)
  BY <1>4, <1>5, SetKeeps
<1>8. /\ InPlace(v, F, C, Tail(J), J[1], a, m) /\ v.jfirst # u.jfirst
      /\ v.frame = u.frame /\ v.status = u.status /\ v.phase = u.phase
  BY <1>7, UnqueueKeeps
<1> HIDE DEF v
<1>9. SentAs(v, job, s) /\ InPlace(s, F, Append(C, job), Tail(J), Null, a, m)
  BY <1>1, <1>8, SendKeeps
<1> HIDE DEF s
<1>10. s.status = [t.status EXCEPT ![job] = 1] /\ s.frame = u.frame /\ s.jfirst = v.jfirst
       /\ s \in FieldType
  BY <1>5, <1>8, <1>9 DEF SentAs
<1> HIDE DEF r
<1>11. /\ r \in FieldType
       /\ r.next = s.next /\ r.free = s.free /\ r.sfirst = s.sfirst /\ r.slast = s.slast
       /\ r.jfirst = s.jfirst /\ r.jlast = s.jlast /\ r.status = s.status /\ r.idx = s.idx
       /\ r.ring = s.ring /\ r.slot = s.slot
       /\ r.phase = 0 /\ r.trycnt = 0 /\ r.expired = FALSE
       /\ \A p \in 1 .. Pool : r.frame[p] = s.frame[p]
  BY <1>6, <1>10, RestFields
<1>12. InPlace(r, F, Append(C, J[1]), Tail(J), Null, a, m)
  BY <1>1, <1>9, <1>11, SetKeeps
<1>13. /\ r.frame[job] = f /\ r.status[job] = 1
       /\ \A p \in 1 .. Pool : p # job => r.frame[p] = t.frame[p]
       /\ \A p \in Packet : p # job => r.status[p] = t.status[p]
  <2>1. s.frame = [t.frame EXCEPT ![job] = f]
    BY <1>5, <1>10
  <2>2. r.frame[job] = f /\ \A p \in 1 .. Pool : p # job => r.frame[p] = t.frame[p]
    BY <2>1, <1>1, <1>11, SeqTypes
  <2>3. r.status[job] = 1 /\ \A p \in Packet : p # job => r.status[p] = t.status[p]
    BY <1>1, <1>10, <1>11
  <2> QED BY <2>2, <2>3
<1>14. J \in Seq(1 .. Pool) /\ Distinct(J) /\ Tail(J) \in Seq(1 .. Pool)
  <2>1. J \in Seq(1 .. Pool) /\ Distinct(J)
    BY DEF InPlace, Places
  <2> QED BY <2>1
<1>15. /\ \A q : In(q, J) <=> q = J[1] \/ In(q, Tail(J))
       /\ \A k \in 1 .. Len(J) : J[k] \in 1 .. Pool /\ In(J[k], J)
       /\ \A k \in 1 .. Len(Tail(J)) : Tail(J)[k] \in 1 .. Pool /\ In(Tail(J)[k], Tail(J))
       /\ ~In(J[1], Tail(J))
  <2> DEFINE S == 1 .. Pool
  <2> HIDE DEF S
  <2>1. J \in Seq(S) /\ Tail(J) \in Seq(S)
    BY <1>14 DEF S
  <2>2. /\ \A q : In(q, J) <=> q = J[1] \/ In(q, Tail(J))
        /\ ~In(J[1], Tail(J))
    BY <2>1, <1>14, TailList
  <2>3. \A k \in 1 .. Len(J) : J[k] \in S /\ In(J[k], J)
    BY <2>1, InList
  <2>4. \A k \in 1 .. Len(Tail(J)) : Tail(J)[k] \in S /\ In(Tail(J)[k], Tail(J))
    BY <2>1, InList
  <2> QED BY <2>2, <2>3, <2>4 DEF S
<1>16. \A q : In(q, J) => t.frame[q].kind = "datagram"
  BY DEF Asking, In
<1>17. Asking(r, Tail(J), Asked(t, r, n))
  <2>1. Asked(t, r, n) = 0
    BY <1>5, <1>8, <1>10, <1>11 DEF Asked
  <2>2. ASSUME NEW k \in 1 .. Len(Tail(J)) PROVE r.frame[Tail(J)[k]].kind = "datagram"
    BY <1>1, <1>13, <1>15, <1>16, SMTT(40)
  <2>3. r.status[Sys] = 0
    <3>1. t.status[Sys] = 0
      <4>1. t.status[Sys] \in {0, 1}
        BY <1>1, SeqTypes
      <4> QED BY <4>1 DEF Asking
    <3> QED BY <3>1, <1>1, <1>13, SeqTypes
  <2> QED BY <2>1, <2>2, <2>3, <1>11 DEF Asking
<1>18. PacketStep(t, r, J, n, tab)
  <2>1. ASSUME NEW p \in 1 .. Pool, t.status[p] = 1
        PROVE  r.status[p] = 1 /\ r.frame[p] = t.frame[p]
    BY <2>1, <1>1, <1>13, SeqTypes
  <2>2. ASSUME NEW p \in 1 .. Pool, t.status[p] = 0, r.status[p] = 1
        PROVE  /\ FindByIp(tab, r.frame[p].hop) # Null
               /\ r.frame[p].mac = tab.mac[FindByIp(tab, r.frame[p].hop)]
    <3>1. p = job
      BY <2>2, <1>13, SeqTypes
    <3> QED BY <3>1, <1>2, <1>13
  <2>3. ASSUME NEW k \in 1 .. Len(J) PROVE r.frame[J[k]] # NoFrame
    <3>1. r.frame[J[k]].kind = "datagram"
      BY <1>1, <1>2, <1>13, <1>15, <1>16
    <3> QED BY <3>1, Frames
  <2> QED BY <2>1, <2>2, <2>3 DEF PacketStep
<1>19. JobStep(t, r, J, Tail(J))
  <2>1. \A k \in 1 .. Len(J) : In(J[k], Tail(J)) \/ r.status[J[k]] = 1
    BY <1>1, <1>13, <1>15
  <2> QED BY <2>1, <1>11 DEF JobStep
<1> QED BY <1>12, <1>17, <1>18, <1>19 DEF r, u

\* The first job's packet is given up.
LEMMA GiveFirstUp ==
  ASSUME NEW t, NEW F, NEW C, NEW J, NEW a, NEW m, NEW n \in Nat, NEW tab,
         InPlace(t, F, C, J, Null, a, m), Asking(t, J, n), J # <<>>, t.phase = 9, GivesUp(t)
  PROVE  LET r == Rest(FinishJob(t, FALSE))
         IN /\ InPlace(r, <<J[1]>> \o F, C, Tail(J), Null, a, m)
            /\ Asking(r, Tail(J), Asked(t, r, n))
            /\ PacketStep(t, r, J, n, tab) /\ JobStep(t, r, J, Tail(J))
<1> DEFINE job == t.jfirst
           v == Unqueue(t)
           s == ReleaseTxPacket(v, job)
           r == Rest(FinishJob(t, FALSE))
<1>1. /\ t \in FieldType /\ t.frame \in [Packet -> FrameType] /\ t.status \in [Packet -> {0, 1}]
      /\ job = J[1] /\ job \in 1 .. Pool /\ job \in Packet /\ 1 \in 1 .. Len(J)
      /\ t.status[job] = 0
  BY FirstJob, Typed DEF InPlace
<1>2. r = Rest(s)
  BY DEF FinishJob
<1>3. /\ InPlace(v, F, C, Tail(J), J[1], a, m) /\ v.jfirst # t.jfirst
      /\ v.frame = t.frame /\ v.status = t.status
  BY UnqueueKeeps
<1> HIDE DEF v
<1>4. ReleasedAs(v, job, s) /\ InPlace(s, <<job>> \o F, C, Tail(J), Null, a, m)
  BY <1>1, <1>3, ReleaseKeeps
<1> HIDE DEF s
<1>5. s.status = [t.status EXCEPT ![job] = 0] /\ s.frame = [t.frame EXCEPT ![job] = NoFrame]
      /\ s.jfirst = v.jfirst /\ s \in FieldType
  BY <1>1, <1>3, <1>4, SeqTypes DEF ReleasedAs
<1> HIDE DEF r
<1>6. /\ r \in FieldType
      /\ r.next = s.next /\ r.free = s.free /\ r.sfirst = s.sfirst /\ r.slast = s.slast
      /\ r.jfirst = s.jfirst /\ r.jlast = s.jlast /\ r.status = s.status /\ r.idx = s.idx
      /\ r.ring = s.ring /\ r.slot = s.slot
      /\ r.phase = 0 /\ r.trycnt = 0 /\ r.expired = FALSE
      /\ \A p \in 1 .. Pool : r.frame[p] = s.frame[p]
  BY <1>2, <1>5, RestFields
<1>7. InPlace(r, <<J[1]>> \o F, C, Tail(J), Null, a, m)
  BY <1>1, <1>4, <1>6, SetKeeps
<1>8. /\ r.frame[job] = NoFrame
      /\ \A p \in 1 .. Pool : p # job => r.frame[p] = t.frame[p]
      /\ \A p \in Packet : r.status[p] = t.status[p]
  <2>1. r.frame[job] = NoFrame /\ \A p \in 1 .. Pool : p # job => r.frame[p] = t.frame[p]
    BY <1>1, <1>5, <1>6, SeqTypes, ZenonT(60)
  <2>2. \A p \in Packet : r.status[p] = t.status[p]
    BY <1>1, <1>5, <1>6
  <2> QED BY <2>1, <2>2
<1>9. J \in Seq(1 .. Pool) /\ Distinct(J) /\ Tail(J) \in Seq(1 .. Pool)
  <2>1. J \in Seq(1 .. Pool) /\ Distinct(J)
    BY DEF InPlace, Places
  <2> QED BY <2>1
<1>10. /\ \A q : In(q, J) <=> q = J[1] \/ In(q, Tail(J))
       /\ \A k \in 1 .. Len(J) : J[k] \in 1 .. Pool /\ In(J[k], J)
       /\ \A k \in 1 .. Len(Tail(J)) : Tail(J)[k] \in 1 .. Pool /\ In(Tail(J)[k], Tail(J))
       /\ ~In(J[1], Tail(J))
  <2> DEFINE S == 1 .. Pool
  <2> HIDE DEF S
  <2>1. J \in Seq(S) /\ Tail(J) \in Seq(S)
    BY <1>9 DEF S
  <2>2. /\ \A q : In(q, J) <=> q = J[1] \/ In(q, Tail(J))
        /\ ~In(J[1], Tail(J))
    BY <2>1, <1>9, TailList
  <2>3. \A k \in 1 .. Len(J) : J[k] \in S /\ In(J[k], J)
    BY <2>1, InList
  <2>4. \A k \in 1 .. Len(Tail(J)) : Tail(J)[k] \in S /\ In(Tail(J)[k], Tail(J))
    BY <2>1, InList
  <2> QED BY <2>2, <2>3, <2>4 DEF S
<1>11. \A q : In(q, J) => t.frame[q].kind = "datagram"
  BY DEF Asking, In
<1>12. t.status[Sys] = 0
  <2>1. t.status[Sys] \in {0, 1}
    BY <1>1, SeqTypes
  <2> QED BY <2>1 DEF Asking
<1>13. n = MaxTries
  <2>1. ~Pending(t)
    BY <1>12, PendingSent
  <2>2. /\ n + (IF Pending(t) THEN 1 ELSE 0) = t.trycnt /\ t.trycnt \in 1 .. MaxTries
        /\ t.trycnt >= MaxTries
    BY DEF Asking, GivesUp
  <2> QED BY <2>1, <2>2, Sizes
<1>14. Asking(r, Tail(J), Asked(t, r, n))
  <2>1. Asked(t, r, n) = 0
    BY <1>3, <1>5, <1>6 DEF Asked
  <2>2. ASSUME NEW k \in 1 .. Len(Tail(J)) PROVE r.frame[Tail(J)[k]].kind = "datagram"
    BY <1>1, <1>8, <1>10, <1>11
  <2>3. r.status[Sys] = 0
    BY <1>8, <1>12, SeqTypes
  <2> QED BY <2>1, <2>2, <2>3, <1>6 DEF Asking
<1>15. PacketStep(t, r, J, n, tab)
  <2>1. ASSUME NEW p \in 1 .. Pool, t.status[p] = 1
        PROVE  r.status[p] = 1 /\ r.frame[p] = t.frame[p]
    BY <2>1, <1>1, <1>8, SeqTypes
  <2>2. \A p \in 1 .. Pool : r.status[p] = t.status[p]
    BY <1>8, SeqTypes
  <2> QED BY <2>1, <2>2, <1>13 DEF PacketStep
<1>16. JobStep(t, r, J, Tail(J))
  <2>1. \A k \in 1 .. Len(J) : In(J[k], Tail(J)) \/ r.frame[J[k]] = NoFrame
    BY <1>1, <1>8, <1>10
  <2> QED BY <2>1, <1>6 DEF JobStep
<1> QED BY <1>7, <1>14, <1>15, <1>16 DEF r

\* The next request for the first job.
LEMMA AskAgain ==
  ASSUME NEW t, NEW F, NEW C, NEW J, NEW a, NEW m, NEW n \in Nat, NEW tab,
         InPlace(t, F, C, J, Null, a, m), Asking(t, J, n), J # <<>>, t.phase = 9, ~GivesUp(t)
  PROVE  LET r == SendRequest(t, t.trycnt + 1)
         IN /\ InPlace(r, F, Append(C, Sys), J, Null, a, m)
            /\ Asking(r, J, Asked(t, r, n))
            /\ PacketStep(t, r, J, n, tab) /\ JobStep(t, r, J, J)
<1> DEFINE tries == t.trycnt + 1
           r == SendRequest(t, tries)
<1>1. t \in FieldType /\ Sys \in Packet /\ t.status \in [Packet -> {0, 1}]
  BY Typed, SeqTypes DEF InPlace
<1>2. t.status[Sys] = 0
  BY <1>1 DEF Asking
<1>3. ~Pending(t)
  BY <1>2, PendingSent
<1>4. n + 1 = tries /\ tries \in 1 .. MaxTries
  <2>1. /\ n + (IF Pending(t) THEN 1 ELSE 0) = t.trycnt /\ t.trycnt \in 1 .. MaxTries
        /\ ~(t.trycnt >= MaxTries)
    BY DEF Asking, GivesUp
  <2> QED BY <2>1, <1>3, Sizes
<1> HIDE DEF tries
<1>5. InPlace(r, F, Append(C, Sys), J, Null, a, m) /\ RequestedAs(t, r, tries)
  BY <1>2, <1>4, SendRequestKeeps
<1> HIDE DEF r
<1>6. /\ Pending(r) /\ r.phase = 1 /\ r.trycnt = tries /\ r.expired = FALSE
      /\ r.frame = t.frame /\ r.jfirst = t.jfirst
      /\ \A p \in 1 .. Pool : r.status[p] = t.status[p]
  BY <1>5 DEF RequestedAs
<1>7. \A k \in 1 .. Len(J) : t.frame[J[k]] # NoFrame /\ In(J[k], J)
  BY Frames DEF Asking, In
<1>8. Asking(r, J, Asked(t, r, n))
  <2>1. Asked(t, r, n) = n
    BY <1>6 DEF Asked
  <2> QED BY <2>1, <1>4, <1>6 DEF Asking
<1>9. PacketStep(t, r, J, n, tab)
  BY <1>6, <1>7 DEF PacketStep
<1>10. JobStep(t, r, J, J)
  BY <1>6, <1>7 DEF JobStep
<1> QED BY <1>5, <1>8, <1>9, <1>10 DEF r, tries


\* ArpRun, case by case.
LEMMA ArpRunCases ==
  ASSUME NEW t, NEW tab, t.jfirst # Null
  PROVE  LET item == FindByIp(tab, t.frame[t.jfirst].hop)
             r == ArpRun(t, tab)
         IN /\ t.phase = 0 => r = SendRequest([t EXCEPT !.frame[Sys] = Frame("request", t.frame[t.jfirst].hop, NoMac)], 1)
            /\ t.phase = 1 =>
                 r = [t EXCEPT !.phase = IF t.status[Sys] = 0 THEN 5 ELSE IF TimedOut(t) THEN 9 ELSE 1]
            /\ t.phase = 5 /\ item # Null =>
                 r = Rest(FinishJob([t EXCEPT !.frame[t.jfirst].mac = tab.mac[item]], TRUE))
            /\ t.phase = 5 /\ item = Null => r = [t EXCEPT !.phase = IF TimedOut(t) THEN 9 ELSE 5]
            /\ t.phase = 9 /\ GivesUp(t) => r = Rest(FinishJob(t, FALSE))
            /\ t.phase = 9 /\ ~GivesUp(t) => r = SendRequest(t, t.trycnt + 1)
<1> DEFINE item == FindByIp(tab, t.frame[t.jfirst].hop)
           c0 == SendRequest([t EXCEPT !.frame[Sys] = Frame("request", t.frame[t.jfirst].hop, NoMac)], 1)
           c1 == [t EXCEPT !.phase = IF t.status[Sys] = 0 THEN 5 ELSE IF TimedOut(t) THEN 9 ELSE 1]
           c2 == Rest(FinishJob([t EXCEPT !.frame[t.jfirst].mac = tab.mac[item]], TRUE))
           c3 == [t EXCEPT !.phase = IF TimedOut(t) THEN 9 ELSE 5]
           c4 == Rest(FinishJob(t, FALSE))
           c5 == SendRequest(t, t.trycnt + 1)
           ph == t.phase
           up == GivesUp(t)
<1>1. ArpRun(t, tab) = CASE ph = 0 -> c0 [] ph = 1 -> c1 [] ph = 5 /\ item # Null -> c2
                         [] ph = 5 /\ item = Null -> c3 [] ph = 9 /\ up -> c4 [] ph = 9 /\ ~up -> c5
  BY DEF ArpRun
<1> HIDE DEF c0, c1, c2, c3, c4, c5, ph, up, item
<1>2. /\ ph = 0 => ArpRun(t, tab) = c0
      /\ ph = 1 => ArpRun(t, tab) = c1
      /\ ph = 5 /\ item # Null => ArpRun(t, tab) = c2
      /\ ph = 5 /\ item = Null => ArpRun(t, tab) = c3
      /\ ph = 9 /\ up => ArpRun(t, tab) = c4
      /\ ph = 9 /\ ~up => ArpRun(t, tab) = c5
  BY <1>1
<1> QED BY <1>2 DEF c0, c1, c2, c3, c4, c5, ph, up, item

\* What a step that works on the jobs keeps.
JobsWorked(t, r, J, a, m, n, tab) ==
  \E F, C, K : /\ InPlace(r, F, C, K, Null, a, m)
               /\ Asking(r, K, Asked(t, r, n))
               /\ PacketStep(t, r, J, n, tab) /\ JobStep(t, r, J, K)

\* ArpRun keeps the packets in their places.
LEMMA ArpRunKeeps ==
  ASSUME NEW t, NEW F, NEW C, NEW J, NEW a, NEW m, NEW n \in Nat, NEW tab,
         InPlace(t, F, C, J, Null, a, m), Asking(t, J, n), LooksUp(tab)
  PROVE  JobsWorked(t, ArpRun(t, tab), J, a, m, n, tab)
<1> DEFINE r == ArpRun(t, tab)
           item == FindByIp(tab, t.frame[t.jfirst].hop)
<1>1. t \in FieldType /\ t.status \in [Packet -> {0, 1}] /\ t.phase \in {0, 1, 5, 9}
  BY Typed DEF InPlace
<1>2. t.jfirst = Null <=> J = <<>>
  BY FirstJob
<1>3. ASSUME NEW x, WaitsAs(t, x), Asking(x, J, Asked(t, x, n))
      PROVE  JobsWorked(t, x, J, a, m, n, tab)
  <2>1. InPlace(x, F, C, J, Null, a, m) /\ PacketStep(t, x, J, n, tab) /\ JobStep(t, x, J, J)
    BY <1>3, WaitStep
  <2> QED BY <2>1, <1>3 DEF JobsWorked
<1>4. CASE J = <<>>
  <2>1. r = t
    BY <1>2, <1>4 DEF ArpRun
  <2>2. WaitsAs(t, t) /\ Asked(t, t, n) = n
    BY <1>1 DEF Asked, WaitsAs
  <2> QED BY <1>3, <2>1, <2>2
<1>5. CASE J # <<>> /\ t.phase = 0
  <2> DEFINE u == [t EXCEPT !.frame[Sys] = Frame("request", t.frame[t.jfirst].hop, NoMac)]
  <2>1. r = SendRequest(u, 1)
    BY <1>2, <1>5, ArpRunCases
  <2> DEFINE y == SendRequest(u, 1)
  <2>3. /\ InPlace(y, F, Append(C, Sys), J, Null, a, m)
        /\ Asking(y, J, Asked(t, y, n))
        /\ PacketStep(t, y, J, n, tab) /\ JobStep(t, y, J, J)
    BY <1>5, AskFirst
  <2> HIDE DEF r, y
  <2>2. /\ InPlace(r, F, Append(C, Sys), J, Null, a, m)
        /\ Asking(r, J, Asked(t, r, n))
        /\ PacketStep(t, r, J, n, tab) /\ JobStep(t, r, J, J)
    BY <2>1, <2>3 DEF y
  <2> QED BY <2>2 DEF JobsWorked, r
<1>6. ASSUME NEW ph \in {0, 1, 5, 9}, r = [t EXCEPT !.phase = ph]
      PROVE  WaitsAs(t, r) /\ r.phase = ph /\ r.trycnt = t.trycnt /\ r.expired = t.expired
             /\ Asked(t, r, n) = n /\ (Pending(t) <=> Pending(r))
  <2> HIDE DEF r
  <2>1. r \in FieldType
    BY <1>1, <1>6 DEF FieldType
  <2>2. /\ r.next = t.next /\ r.free = t.free
        /\ r.sfirst = t.sfirst /\ r.slast = t.slast
        /\ r.jfirst = t.jfirst /\ r.jlast = t.jlast
        /\ r.status = t.status /\ r.idx = t.idx
        /\ r.ring = t.ring /\ r.slot = t.slot /\ r.frame = t.frame
        /\ r.phase = ph /\ r.trycnt = t.trycnt /\ r.expired = t.expired
    BY <1>1, <1>6 DEF FieldType
  <2> QED BY <2>1, <2>2 DEF Asked, Pending, WaitsAs
<1>7. CASE J # <<>> /\ t.phase = 1
  <2> DEFINE ph == IF t.status[Sys] = 0 THEN 5 ELSE IF TimedOut(t) THEN 9 ELSE 1
  <2>1. r = [t EXCEPT !.phase = ph]
    BY <1>2, <1>7, ArpRunCases
  <2>2. ph \in {0, 1, 5, 9} /\ (t.status[Sys] = 1 => ph = 1) /\ ph # 0
    BY <1>7 DEF Asking, TimedOut
  <2> HIDE DEF ph, r
  <2>3. WaitsAs(t, r) /\ r.phase = ph /\ r.trycnt = t.trycnt /\ r.expired = t.expired
        /\ Asked(t, r, n) = n /\ (Pending(t) <=> Pending(r))
    BY <1>6, <2>1, <2>2 DEF r
  <2>4. Asking(r, J, Asked(t, r, n))
    BY <2>2, <2>3, <1>7 DEF Asking, WaitsAs
  <2> QED BY <2>3, <2>4, <1>3, <1>7 DEF r
<1>8. CASE J # <<>> /\ t.phase = 5 /\ item = Null
  <2> DEFINE ph == IF TimedOut(t) THEN 9 ELSE 5
  <2>1. r = [t EXCEPT !.phase = ph]
    BY <1>2, <1>8, ArpRunCases
  <2>2. ph \in {0, 1, 5, 9} /\ ph # 0 /\ ph # 1
    OBVIOUS
  <2> HIDE DEF ph, r
  <2>3. WaitsAs(t, r) /\ r.phase = ph /\ r.trycnt = t.trycnt /\ r.expired = t.expired
        /\ Asked(t, r, n) = n /\ (Pending(t) <=> Pending(r))
    BY <1>6, <2>1, <2>2 DEF r
  <2>4. t.status[Sys] # 1
    BY <1>8 DEF Asking
  <2>5. Asking(r, J, Asked(t, r, n))
    BY <2>2, <2>3, <2>4, <1>8 DEF Asking, WaitsAs
  <2> QED BY <2>3, <2>5, <1>3, <1>8 DEF r
<1>9. CASE J # <<>> /\ t.phase = 5 /\ item # Null
  <2> DEFINE u == [t EXCEPT !.frame[t.jfirst].mac = tab.mac[item]]
  <2>1. r = Rest(FinishJob(u, TRUE))
    BY <1>2, <1>9, ArpRunCases
  <2>2. tab.mac[item] \in Mac \cup {NoMac}
    BY <1>9 DEF LooksUp
  <2> DEFINE y == Rest(FinishJob(u, TRUE))
  <2>4. /\ InPlace(y, F, Append(C, J[1]), Tail(J), Null, a, m)
        /\ Asking(y, Tail(J), Asked(t, y, n))
        /\ PacketStep(t, y, J, n, tab) /\ JobStep(t, y, J, Tail(J))
    BY <1>9, <2>2, SendFirst
  <2> HIDE DEF r, y
  <2>3. /\ InPlace(r, F, Append(C, J[1]), Tail(J), Null, a, m)
        /\ Asking(r, Tail(J), Asked(t, r, n))
        /\ PacketStep(t, r, J, n, tab) /\ JobStep(t, r, J, Tail(J))
    BY <2>1, <2>4 DEF y
  <2> QED BY <2>3 DEF JobsWorked, r
<1>10. CASE J # <<>> /\ t.phase = 9 /\ GivesUp(t)
  <2>1. r = Rest(FinishJob(t, FALSE))
    BY <1>2, <1>10, ArpRunCases
  <2>2. /\ InPlace(r, <<J[1]>> \o F, C, Tail(J), Null, a, m)
        /\ Asking(r, Tail(J), Asked(t, r, n))
        /\ PacketStep(t, r, J, n, tab) /\ JobStep(t, r, J, Tail(J))
    BY <1>10, <2>1, GiveFirstUp
  <2> HIDE DEF r
  <2> QED BY <2>2 DEF JobsWorked, r
<1>11. CASE J # <<>> /\ t.phase = 9 /\ ~GivesUp(t)
  <2>1. r = SendRequest(t, t.trycnt + 1)
    BY <1>2, <1>11, ArpRunCases
  <2>2. /\ InPlace(r, F, Append(C, Sys), J, Null, a, m)
        /\ Asking(r, J, Asked(t, r, n))
        /\ PacketStep(t, r, J, n, tab) /\ JobStep(t, r, J, J)
    BY <1>11, <2>1, AskAgain
  <2> HIDE DEF r
  <2> QED BY <2>2 DEF JobsWorked, r
<1> QED BY <1>1, <1>4, <1>5, <1>7, <1>8, <1>9, <1>10, <1>11

\* Two steps after each other.
LEMMA PacketThen ==
  ASSUME NEW t, NEW h, NEW r, NEW J \in Seq(1 .. Pool), NEW K, NEW n, NEW l, NEW tab,
         h.status \in [Packet -> {0, 1}],
         PacketStep(t, h, J, n, tab), PacketStep(h, r, K, l, tab),
         \A k \in 1 .. Len(J) : In(J[k], K) \/ h.status[J[k]] = 1 \/ h.frame[J[k]] = NoFrame,
         l = MaxTries => n = MaxTries
  PROVE  PacketStep(t, r, J, n, tab)
<1>1. ASSUME NEW p \in 1 .. Pool, t.status[p] = 1
      PROVE  r.status[p] = 1 /\ r.frame[p] = t.frame[p]
  BY <1>1 DEF PacketStep
<1>2. ASSUME NEW p \in 1 .. Pool,
             t.status[p] = 0, r.status[p] = 1, r.frame[p].kind = "datagram"
      PROVE  /\ FindByIp(tab, r.frame[p].hop) # Null
             /\ r.frame[p].mac = tab.mac[FindByIp(tab, r.frame[p].hop)]
  <2>1. h.status[p] \in {0, 1}
    BY SeqTypes
  <2>2. CASE h.status[p] = 1
    <3>1. r.frame[p] = h.frame[p]
      BY <2>2 DEF PacketStep
    <3> QED BY <3>1, <1>2, <2>2 DEF PacketStep
  <2>3. CASE h.status[p] = 0
    BY <1>2, <2>3 DEF PacketStep
  <2> QED BY <2>1, <2>2, <2>3
<1>3. ASSUME NEW k \in 1 .. Len(J), r.frame[J[k]] = NoFrame
      PROVE  n = MaxTries
  <2>1. J[k] \in 1 .. Pool
    BY InList
  <2>2. CASE In(J[k], K)
    <3>1. l = MaxTries
      BY <1>3, <2>2 DEF PacketStep, In
    <3> QED BY <3>1
  <2>3. CASE h.status[J[k]] = 1
    <3>1. h.frame[J[k]] = NoFrame
      BY <1>3, <2>1, <2>3 DEF PacketStep
    <3> QED BY <3>1 DEF PacketStep
  <2>4. CASE h.frame[J[k]] = NoFrame
    BY <2>4 DEF PacketStep
  <2> QED BY <2>2, <2>3, <2>4
<1> QED BY <1>1, <1>2, <1>3 DEF PacketStep

\* What two steps do to the packets, together.
LEMMA WorkedThen ==
  ASSUME NEW t, NEW h, NEW r, NEW J \in Seq(1 .. Pool), NEW K, NEW L, NEW n \in Nat, NEW tab,
         h.status \in [Packet -> {0, 1}],
         PacketStep(t, h, J, n, tab), JobStep(t, h, J, K),
         PacketStep(h, r, K, Asked(t, h, n), tab), JobStep(h, r, K, L)
  PROVE  PacketStep(t, r, J, n, tab) /\ Asked(h, r, Asked(t, h, n)) = Asked(t, r, n)
<1>1. Asked(t, h, n) = MaxTries => n = MaxTries
  BY Sizes DEF Asked
<1>2. \A k \in 1 .. Len(J) : In(J[k], K) \/ h.status[J[k]] = 1 \/ h.frame[J[k]] = NoFrame
  BY DEF JobStep
<1>3. PacketStep(t, r, J, n, tab)
  BY <1>1, <1>2, PacketThen
<1>4. CASE h.jfirst = t.jfirst
  BY <1>3, <1>4 DEF Asked
<1>5. CASE h.jfirst # t.jfirst
  <2>1. r.jfirst = h.jfirst
    BY <1>5 DEF JobStep
  <2> QED BY <1>3, <1>5, <2>1 DEF Asked
<1> QED BY <1>4, <1>5


\* A packet at the end of the jobs.
Added(t, p) ==
  LET ended == [t EXCEPT !.next[p] = Null]
  IN IF ended.jlast # Null THEN [ended EXCEPT !.next[t.jlast] = p, !.jlast = p]
                           ELSE [ended EXCEPT !.jfirst = p, !.jlast = p]

\* What it changes.
AddedAs(t, p, r) ==
  /\ r \in FieldType
  /\ r.free = t.free /\ r.sfirst = t.sfirst /\ r.slast = t.slast
  /\ r.jfirst = (IF t.jlast = Null THEN p ELSE t.jfirst) /\ r.jlast = p
  /\ \A q \in Packet : r.next[q] = IF q = t.jlast THEN p ELSE IF q = p THEN Null ELSE t.next[q]
  /\ r.status = t.status /\ r.idx = t.idx /\ r.ring = t.ring /\ r.slot = t.slot
  /\ r.frame = t.frame /\ r.phase = t.phase /\ r.trycnt = t.trycnt /\ r.expired = t.expired

\* A new job, member by member.
LEMMA AddFields ==
  ASSUME NEW t \in FieldType, NEW p \in Packet
  PROVE  AddedAs(t, p, Added(t, p))
<1> DEFINE e == [t EXCEPT !.next[p] = Null]
           x == [e EXCEPT !.next[t.jlast] = p, !.jlast = p]
           y == [e EXCEPT !.jfirst = p, !.jlast = p]
<1>1. /\ t.next \in [Packet -> PacketOrNull] /\ t.jlast \in PacketOrNull
      /\ Null \in PacketOrNull /\ p \in PacketOrNull
      /\ \A q \in PacketOrNull : q # Null => q \in Packet
  BY Typed DEF PacketOrNull
<1>2. e \in FieldType
  BY <1>1 DEF FieldType
<1>3. /\ e.free = t.free /\ e.sfirst = t.sfirst /\ e.slast = t.slast
      /\ e.jfirst = t.jfirst /\ e.jlast = t.jlast
      /\ e.next = [t.next EXCEPT ![p] = Null]
      /\ e.status = t.status /\ e.idx = t.idx /\ e.ring = t.ring /\ e.slot = t.slot
      /\ e.frame = t.frame /\ e.phase = t.phase /\ e.trycnt = t.trycnt /\ e.expired = t.expired
  BY DEF FieldType
<1>4. Added(t, p) = IF t.jlast # Null THEN x ELSE y
  BY <1>3 DEF Added
<1> HIDE DEF e
<1>5. e.next \in [Packet -> PacketOrNull]
  BY <1>2, Typed
<1>6. CASE t.jlast # Null
  <2>1. t.jlast \in Packet
    BY <1>1, <1>6
  <2>2. x \in FieldType
    BY <2>1, <1>1, <1>2, <1>5 DEF FieldType
  <2>3. /\ x.free = e.free /\ x.sfirst = e.sfirst /\ x.slast = e.slast
        /\ x.jfirst = e.jfirst /\ x.jlast = p
        /\ x.next = [e.next EXCEPT ![t.jlast] = p]
        /\ x.status = e.status /\ x.idx = e.idx /\ x.ring = e.ring /\ x.slot = e.slot
        /\ x.frame = e.frame /\ x.phase = e.phase /\ x.trycnt = e.trycnt /\ x.expired = e.expired
    BY <1>2 DEF FieldType
  <2> HIDE DEF x
  <2>4. \A q \in Packet : x.next[q] = IF q = t.jlast THEN p ELSE IF q = p THEN Null ELSE t.next[q]
    BY <2>1, <2>3, <1>1, <1>3, <1>5
  <2>5. AddedAs(t, p, x)
    BY <2>2, <2>3, <2>4, <1>3, <1>6 DEF AddedAs
  <2> QED BY <2>5, <1>4, <1>6
<1>7. CASE t.jlast = Null
  <2>2. y \in FieldType
    BY <1>1, <1>2 DEF FieldType
  <2>3. /\ y.free = e.free /\ y.sfirst = e.sfirst /\ y.slast = e.slast
        /\ y.jfirst = p /\ y.jlast = p
        /\ y.next = e.next
        /\ y.status = e.status /\ y.idx = e.idx /\ y.ring = e.ring /\ y.slot = e.slot
        /\ y.frame = e.frame /\ y.phase = e.phase /\ y.trycnt = e.trycnt /\ y.expired = e.expired
    BY <1>2 DEF FieldType
  <2> HIDE DEF y
  <2>4. \A q \in Packet : y.next[q] = IF q = t.jlast THEN p ELSE IF q = p THEN Null ELSE t.next[q]
    <3> TAKE q \in Packet
    <3>1. q # t.jlast
      BY <1>7, SeqTypes
    <3>2. y.next[q] = IF q = p THEN Null ELSE t.next[q]
      BY <2>3, <1>1, <1>3
    <3> QED BY <3>1, <3>2
  <2>5. AddedAs(t, p, y)
    BY <2>2, <2>3, <2>4, <1>3, <1>7 DEF AddedAs
  <2> QED BY <2>5, <1>4, <1>7
<1> QED BY <1>6, <1>7

\* A new job is at the end of the jobs.
LEMMA AddLinkage ==
  ASSUME NEW t \in FieldType, NEW p \in 1 .. Pool, NEW r, AddedAs(t, p, r),
         NEW F, NEW C, NEW J, Linkage(t, F, C, J), Places(t, F, C, J, p)
  PROVE  Linkage(r, F, C, Append(J, p))
<1>1. /\ F \in Seq(1 .. Pool) /\ C \in Seq(Packet) /\ J \in Seq(1 .. Pool)
      /\ F \in Seq(Packet) /\ J \in Seq(Packet) /\ p \in Packet
      /\ Distinct(J) /\ ~In(p, F) /\ ~In(p, C) /\ ~In(p, J)
  <2>1. \A L : L \in Seq(1 .. Pool) => L \in Seq(Packet)
    <3> DEFINE S == 1 .. Pool
    <3>1. S \subseteq Packet
      BY SeqTypes
    <3> HIDE DEF S
    <3>2. \A L : L \in Seq(S) => L \in Seq(Packet)
      BY <3>1
    <3> QED BY <3>2 DEF S
  <2> QED BY <2>1, SeqTypes DEF Places
<1>2. \A q \in Packet : r.next[q] = IF q = t.jlast THEN p ELSE IF q = p THEN Null ELSE t.next[q]
  BY DEF AddedAs
<1>3. /\ t.jlast = Null <=> J = <<>>
      /\ J # <<>> => t.jlast = J[Len(J)] /\ Len(J) \in 1 .. Len(J)
  <2>1. EndsAt(J, t.jlast)
    BY DEF Linkage
  <2>2. Null \notin Packet
    BY SeqTypes
  <2> QED BY <1>1, <2>1, <2>2, LastOf, Zenon
<1>4. \A k \in 1 .. Len(J) : J[k] \in Packet /\ J[k] # p
  BY <1>1, InList
<1>5. p # t.jlast
  <2>1. CASE J = <<>>
    BY <2>1, <1>1, <1>3, SeqTypes
  <2>2. CASE J # <<>>
    BY <2>2, <1>3, <1>4
  <2> QED BY <2>1, <2>2
<1>6. Linked(IF J = <<>> THEN p ELSE t.jfirst, r.next, Append(J, p))
  <2>1. \A k \in 1 .. Len(J) : r.next[J[k]] = IF k = Len(J) THEN p ELSE t.next[J[k]]
    <3> TAKE k \in 1 .. Len(J)
    <3>1. J # <<>>
      BY <1>1, Empty
    <3>2. J[k] = t.jlast <=> k = Len(J)
      BY <3>1, <1>3, <1>1 DEF Distinct
    <3> QED BY <3>2, <1>2, <1>4
  <2>2. r.next[p] = Null
    BY <1>1, <1>2, <1>5
  <2>3. Linked(t.jfirst, t.next, J)
    BY DEF Linkage
  <2> QED BY <2>1, <2>2, <2>3, <1>1, LinkedAppend
<1>7. r.jfirst = (IF J = <<>> THEN p ELSE t.jfirst)
  BY <1>3 DEF AddedAs
<1>8. ASSUME NEW first, NEW L \in Seq(Packet), Linked(first, t.next, L), ~In(p, L), Apart(L, J)
      PROVE  Linked(first, r.next, L)
  <2>1. ASSUME NEW k \in 1 .. Len(L) PROVE r.next[L[k]] = t.next[L[k]]
    <3>1. L[k] \in Packet /\ L[k] # p
      <4>1. L[k] \in Packet /\ In(L[k], L)
        BY <1>8, InList
      <4> QED BY <4>1, <1>8
    <3>2. L[k] # t.jlast
      <4>1. CASE J = <<>>
        BY <4>1, <3>1, <1>3, SeqTypes
      <4>2. CASE J # <<>>
        BY <4>2, <1>3, <1>8 DEF Apart
      <4> QED BY <4>1, <4>2
    <3> QED BY <3>1, <3>2, <1>2
  <2> QED BY <2>1, <1>8, LinkedKept
<1>9. Apart(F, J) /\ Apart(C, J)
  BY DEF Places
<1>10. Linked(r.free, r.next, F) /\ Linked(r.sfirst, r.next, C)
  <2>1. Linked(t.free, r.next, F)
    BY <1>1, <1>8, <1>9 DEF Linkage
  <2>2. Linked(t.sfirst, r.next, C)
    BY <1>1, <1>8, <1>9 DEF Linkage
  <2> QED BY <2>1, <2>2 DEF AddedAs
<1>11. EndsAt(Append(J, p), r.jlast)
  <2>1. r.jlast = p
    BY DEF AddedAs
  <2> QED BY <2>1, <1>1, AppendList
<1>12. EndsAt(C, r.slast)
  BY DEF Linkage, AddedAs
<1> QED BY <1>6, <1>7, <1>10, <1>11, <1>12 DEF Linkage

\* AddLast keeps the packets in place.
LEMMA AddKeeps ==
  ASSUME NEW t, NEW F, NEW C, NEW J, NEW p \in 1 .. Pool, NEW a, NEW m,
         InPlace(t, F, C, J, p, a, m)
  PROVE  /\ AddedAs(t, p, Added(t, p))
         /\ InPlace(Added(t, p), F, C, Append(J, p), Null, a, m)
<1> DEFINE r == Added(t, p)
<1>1. t \in FieldType /\ Linkage(t, F, C, J) /\ Places(t, F, C, J, p) /\ Sending(t, C, a, m)
  BY DEF InPlace
<1>2. AddedAs(t, p, r)
  BY <1>1, AddFields, SeqTypes
<1> HIDE DEF r
<1>3. r \in FieldType /\ r.status = t.status /\ r.idx = t.idx /\ r.ring = t.ring /\ r.slot = t.slot
  BY <1>2 DEF AddedAs
<1>4. Linkage(r, F, C, Append(J, p))
  BY <1>1, <1>2, AddLinkage
<1>5. Places(r, F, C, Append(J, p), Null)
  BY <1>1, <1>3, PutPlaces
<1>6. Sending(r, C, a, m)
  BY <1>1, <1>3 DEF Sending
<1>7. InPlace(r, F, C, Append(J, p), Null, a, m)
  BY <1>3, <1>4, <1>5, <1>6 DEF InPlace
<1> QED BY <1>2, <1>7 DEF r


\* A packet of the free list.
LEMMA FirstFree ==
  ASSUME NEW t, NEW F, NEW C, NEW J, NEW h, NEW a, NEW m,
         InPlace(t, F, C, J, h, a, m), F # <<>>
  PROVE  /\ F[1] \in 1 .. Pool /\ F[1] \in Packet /\ t.status[F[1]] = 0
         /\ \A k \in 1 .. Len(J) : J[k] # F[1]
<1>1. /\ t.status \in [Packet -> {0, 1}] /\ F \in Seq(1 .. Pool) /\ Linked(t.free, t.next, F)
      /\ Apart(F, C) /\ Apart(F, J)
      /\ \A p \in Packet : t.status[p] = 1 <=> In(p, C)
  BY Typed DEF InPlace, Linkage, Places
<1>2. F[1] \in 1 .. Pool /\ 1 \in 1 .. Len(F)
  BY <1>1, FirstOfPool
<1>3. ~In(F[1], C)
  BY <1>1, <1>2 DEF In, Apart
<1>4. \A k \in 1 .. Len(J) : J[k] # F[1]
  BY <1>1, <1>2 DEF Apart
<1> QED BY <1>1, <1>2, <1>3, <1>4, SeqTypes

\* What is taken from the free list is sent.
LEMMA SendNew ==
  ASSUME NEW t, NEW F, NEW C, NEW J, NEW a, NEW m, NEW n, NEW tab, NEW v, NEW g \in FrameType,
         InPlace(t, F, C, J, Null, a, m), Asking(t, J, n), F # <<>>,
         InPlace(v, Tail(F), C, J, F[1], a, m),
         v.frame = [t.frame EXCEPT ![F[1]] = g], v.ring = t.ring, v.status = t.status,
         v.jfirst = t.jfirst, v.phase = t.phase, v.trycnt = t.trycnt, v.expired = t.expired,
         g.kind = "datagram" => /\ FindByIp(tab, g.hop) # Null
                                /\ g.mac = tab.mac[FindByIp(tab, g.hop)]
  PROVE  JobsWorked(t, SendTxPacket(v, F[1]), J, a, m, n, tab)
<1> DEFINE p == F[1]
           r == SendTxPacket(v, p)
<1>1. /\ p \in 1 .. Pool /\ p \in Packet /\ t.status[p] = 0
      /\ \A k \in 1 .. Len(J) : J[k] # p
  BY FirstFree
<1>2. SentAs(v, p, r) /\ InPlace(r, Tail(F), Append(C, p), J, Null, a, m)
  BY <1>1, SendKeeps
<1> HIDE DEF r
<1>3. /\ r.status = [t.status EXCEPT ![p] = 1] /\ r.frame = [t.frame EXCEPT ![p] = g]
      /\ r.ring = [t.ring EXCEPT ![v.slot] = p] /\ r.jfirst = t.jfirst
      /\ r.phase = t.phase /\ r.trycnt = t.trycnt /\ r.expired = t.expired
  BY <1>2 DEF SentAs
<1>4. /\ t.status \in [Packet -> {0, 1}] /\ t.frame \in [Packet -> FrameType]
      /\ t.ring \in [Slot -> PacketOrNull] /\ v \in FieldType /\ v.slot \in Slot
      /\ C \in Seq(Packet)
  BY Typed DEF InPlace, Places
<1>5. t.ring[v.slot] = Null
  <2>1. Len(C) <= Pool
    BY <1>1, <1>4, RoomInRing DEF InPlace
  <2>2. v.ring[v.slot] = Null
    BY <1>4, <2>1, RingFree DEF InPlace
  <2> QED BY <2>2
<1>6. Pending(r) <=> Pending(t)
  <2>1. \A i \in Slot : r.ring[i] = Sys <=> t.ring[i] = Sys
    <3> TAKE i \in Slot
    <3>1. p # Sys /\ Sys # Null
      BY <1>1, SeqTypes
    <3>2. CASE i = v.slot
      BY <3>1, <3>2, <1>3, <1>4, <1>5
    <3>3. CASE i # v.slot
      BY <3>3, <1>3, <1>4
    <3> QED BY <3>2, <3>3
  <2> QED BY <2>1 DEF Pending
<1>7. /\ r.status[p] = 1 /\ r.frame[p] = g
      /\ \A q \in Packet : q # p => r.status[q] = t.status[q] /\ r.frame[q] = t.frame[q]
  BY <1>1, <1>3, <1>4
<1>8. \A k \in 1 .. Len(J) : J[k] \in Packet /\ In(J[k], J) /\ r.frame[J[k]] = t.frame[J[k]]
  <2>1. J \in Seq(1 .. Pool)
    BY DEF InPlace, Places
  <2>2. \A k \in 1 .. Len(J) : J[k] \in 1 .. Pool /\ In(J[k], J)
    BY <2>1, InList
  <2> QED BY <2>2, <1>1, <1>7, SeqTypes
<1>9. Sys \in Packet /\ r.status[Sys] = t.status[Sys] /\ r.frame[Sys] = t.frame[Sys]
  BY <1>1, <1>7, SeqTypes
<1>10. Asking(r, J, Asked(t, r, n))
  <2>1. Asked(t, r, n) = n
    BY <1>3 DEF Asked
  <2>2. \A k \in 1 .. Len(J) : r.frame[J[k]].kind = "datagram"
    BY <1>8 DEF Asking
  <2>3. J # <<>> => r.frame[J[1]] = t.frame[J[1]]
    BY <1>8, FirstJob
  <2> QED BY <2>1, <2>2, <2>3, <1>3, <1>6, <1>9 DEF Asking
<1>11. PacketStep(t, r, J, n, tab)
  <2>1. ASSUME NEW q \in 1 .. Pool, t.status[q] = 1
        PROVE  r.status[q] = 1 /\ r.frame[q] = t.frame[q]
    BY <2>1, <1>1, <1>7, SeqTypes
  <2>2. ASSUME NEW q \in 1 .. Pool, t.status[q] = 0, r.status[q] = 1, r.frame[q].kind = "datagram"
        PROVE  /\ FindByIp(tab, r.frame[q].hop) # Null
               /\ r.frame[q].mac = tab.mac[FindByIp(tab, r.frame[q].hop)]
    <3>1. q = p
      BY <2>2, <1>7, SeqTypes
    <3> QED BY <3>1, <2>2, <1>7
  <2>3. \A k \in 1 .. Len(J) : r.frame[J[k]] # NoFrame
    BY <1>8, Frames DEF Asking
  <2> QED BY <2>1, <2>2, <2>3 DEF PacketStep
<1>12. JobStep(t, r, J, J)
  BY <1>3, <1>8 DEF JobStep
<1> QED BY <1>2, <1>10, <1>11, <1>12 DEF JobsWorked, r

\* Nothing happens.
LEMMA NothingWorked ==
  ASSUME NEW t, NEW F, NEW C, NEW J, NEW a, NEW m, NEW n, NEW tab,
         InPlace(t, F, C, J, Null, a, m), Asking(t, J, n)
  PROVE  JobsWorked(t, t, J, a, m, n, tab)
<1>1. WaitsAs(t, t)
  BY DEF WaitsAs, InPlace
<1>2. InPlace(t, F, C, J, Null, a, m) /\ PacketStep(t, t, J, n, tab) /\ JobStep(t, t, J, J)
  BY <1>1, WaitStep
<1>3. Asked(t, t, n) = n
  BY DEF Asked
<1> QED BY <1>2, <1>3 DEF JobsWorked

\* An answer is sent from a free packet.
LEMMA ReplyKeeps ==
  ASSUME NEW t, NEW F, NEW C, NEW J, NEW a, NEW m, NEW n, NEW tab,
         InPlace(t, F, C, J, Null, a, m), Asking(t, J, n)
  PROVE  JobsWorked(t, Reply(t), J, a, m, n, tab)
<1>1. CASE t.free = Null
  BY <1>1, NothingWorked DEF Reply
<1>2. CASE t.free # Null
  <2> DEFINE u == Allocate(t, Answer)
  <2>1. Answer \in FrameType /\ Answer.kind # "datagram"
    BY Frames
  <2>2. /\ F # <<>> /\ t.free = F[1] /\ F[1] \in 1 .. Pool
        /\ InPlace(u, Tail(F), C, J, F[1], a, m)
        /\ u.frame = [t.frame EXCEPT ![t.free] = Answer] /\ u.ring = t.ring
        /\ u.status = t.status /\ u.jfirst = t.jfirst /\ u.jlast = t.jlast
        /\ u.phase = t.phase /\ u.trycnt = t.trycnt /\ u.expired = t.expired
    <3>1. AllocatedAs(t, F, C, J, Answer, a, m, u)
      BY <2>1, <1>2, AllocateKeeps
    <3> QED BY <3>1 DEF AllocatedAs
  <2>3. Reply(t) = SendTxPacket(u, F[1])
    BY <1>2, <2>2 DEF Reply, Allocated
  <2> HIDE DEF u
  <2>4. u.frame = [t.frame EXCEPT ![F[1]] = Answer]
    BY <2>2
  <2>5. JobsWorked(t, SendTxPacket(u, F[1]), J, a, m, n, tab)
    BY <2>1, <2>2, <2>4, SendNew
  <2> QED BY <2>3, <2>5
<1> QED BY <1>1, <1>2

\* What a call that sends leaves: the packets in their places.
TxStep(t, r, J, a, n, tab) ==
  /\ \E F, C, K, m : InPlace(r, F, C, K, Null, a, m) /\ Asking(r, K, Asked(t, r, n))
  /\ PacketStep(t, r, J, n, tab)

\* HandleRxPacket, and ArpRun after it.
LEMMA HandleKeeps ==
  ASSUME NEW t, NEW F, NEW C, NEW J, NEW a, NEW m, NEW n \in Nat, NEW tab, NEW f \in Arriving,
         InPlace(t, F, C, J, Null, a, m), Asking(t, J, n), LooksUp(tab)
  PROVE  TxStep(t, ArpRun(HandleRxPacket(t, tab, f), tab), J, a, n, tab)
<1> DEFINE h == HandleRxPacket(t, tab, f)
           r == ArpRun(h, tab)
<1>1. f.kind \in {"request", "reply", "echo", "datagram", "other"}
  BY NetAssumption DEF Arriving, Datagram
<1>2. JobsWorked(t, h, J, a, m, n, tab)
  <2>1. CASE f.kind \in {"request", "echo"}
    <3>1. h = Reply(t)
      BY <2>1 DEF HandleRxPacket
    <3> QED BY <3>1, ReplyKeeps
  <2>2. CASE f.kind = "reply"
    <3>1. h = ArpRun(t, tab)
      BY <2>2 DEF HandleRxPacket
    <3> QED BY <3>1, ArpRunKeeps
  <2>3. CASE f.kind \in {"datagram", "other"}
    <3>1. h = t
      BY <2>3 DEF HandleRxPacket
    <3> QED BY <3>1, NothingWorked
  <2> QED BY <1>1, <2>1, <2>2, <2>3
<1> HIDE DEF h
<1>3. PICK G, D, K : /\ InPlace(h, G, D, K, Null, a, m)
                     /\ Asking(h, K, Asked(t, h, n))
                     /\ PacketStep(t, h, J, n, tab) /\ JobStep(t, h, J, K)
  BY <1>2 DEF JobsWorked
<1>4. Asked(t, h, n) \in Nat
  BY DEF Asked
<1>5. JobsWorked(h, r, K, a, m, Asked(t, h, n), tab)
  BY <1>3, <1>4, ArpRunKeeps
<1> HIDE DEF r
<1>6. PICK GG, DD, L : /\ InPlace(r, GG, DD, L, Null, a, m)
                       /\ Asking(r, L, Asked(h, r, Asked(t, h, n)))
                       /\ PacketStep(h, r, K, Asked(t, h, n), tab) /\ JobStep(h, r, K, L)
  BY <1>5 DEF JobsWorked
<1>7. PacketStep(t, r, J, n, tab) /\ Asked(h, r, Asked(t, h, n)) = Asked(t, r, n)
  <2>1. J \in Seq(1 .. Pool) /\ h.status \in [Packet -> {0, 1}]
    BY <1>3, Typed DEF InPlace, Places
  <2> QED BY <2>1, <1>3, <1>6, WorkedThen
<1> QED BY <1>6, <1>7 DEF TxStep, r, h


\* A datagram is sent, or waits for an address.
LEMMA SendWithArpKeeps ==
  ASSUME NEW t, NEW F, NEW C, NEW J, NEW a, NEW m, NEW n \in Nat, NEW tab, NEW ip \in Ip,
         InPlace(t, F, C, J, Null, a, m), Asking(t, J, n), LooksUp(tab), t.free # Null
  PROVE  TxStep(t, SendWithArp(Allocate(t, Frame("datagram", ip, NoMac)), tab, t.free), J, a, n, tab)
<1> DEFINE fr == Frame("datagram", ip, NoMac)
           u == Allocate(t, fr)
           p == F[1]
           item == FindByIp(tab, ip)
           r == SendWithArp(u, tab, p)
<1>1. fr \in FrameType /\ fr.kind = "datagram" /\ fr.hop = ip
  BY Frames
<1> HIDE DEF fr
<1>2. /\ F # <<>> /\ t.free = p /\ p \in 1 .. Pool
      /\ InPlace(u, Tail(F), C, J, p, a, m)
      /\ u.frame = [t.frame EXCEPT ![p] = fr] /\ u.ring = t.ring
      /\ u.status = t.status /\ u.jfirst = t.jfirst /\ u.jlast = t.jlast
      /\ u.phase = t.phase /\ u.trycnt = t.trycnt /\ u.expired = t.expired
  <2>1. AllocatedAs(t, F, C, J, fr, a, m, u)
    BY <1>1, AllocateKeeps
  <2> QED BY <2>1 DEF AllocatedAs
<1> HIDE DEF u
<1>3. /\ p \in Packet /\ t.status[p] = 0 /\ \A k \in 1 .. Len(J) : J[k] # p
  BY <1>2, FirstFree
<1>4. u \in FieldType /\ t.frame \in [Packet -> FrameType] /\ t.status \in [Packet -> {0, 1}]
      /\ t.phase \in {0, 1, 5, 9}
  BY <1>2, Typed DEF InPlace
<1>5. u.frame[p] = fr /\ \A q \in Packet : q # p => u.frame[q] = t.frame[q]
  BY <1>2, <1>3, <1>4
<1>6. ASSUME item # Null PROVE TxStep(t, r, J, a, n, tab)
  <2> DEFINE v == [u EXCEPT !.frame[p].mac = tab.mac[item]]
             g == [fr EXCEPT !.mac = tab.mac[item]]
  <2>1. r = SendTxPacket(v, p)
    BY <1>1, <1>5, <1>6 DEF SendWithArp
  <2>2. /\ g \in FrameType /\ g.hop = ip /\ g.mac = tab.mac[item]
    <3>1. tab.mac[item] \in Mac \cup {NoMac}
      BY <1>6 DEF LooksUp
    <3> QED BY <1>1, <3>1 DEF FrameType
  <2>3. v = [u EXCEPT !.frame = [u.frame EXCEPT ![p] = g]]
    BY <1>4, <1>5 DEF FieldType
  <2> HIDE DEF v, g
  <2>4. [u.frame EXCEPT ![p] = g] \in [Packet -> FrameType]
        /\ [u.frame EXCEPT ![p] = g] = [t.frame EXCEPT ![p] = g]
    BY <1>2, <1>3, <1>4, <2>2
  <2>5. v \in FieldType
    BY <1>4, <2>3, <2>4 DEF FieldType
  <2>6. /\ v.next = u.next /\ v.free = u.free /\ v.sfirst = u.sfirst /\ v.slast = u.slast
        /\ v.jfirst = u.jfirst /\ v.jlast = u.jlast /\ v.status = u.status /\ v.idx = u.idx
        /\ v.ring = u.ring /\ v.slot = u.slot
        /\ v.phase = u.phase /\ v.trycnt = u.trycnt /\ v.expired = u.expired
        /\ v.frame = [u.frame EXCEPT ![p] = g]
    BY <1>4, <2>3 DEF FieldType
  <2>7. InPlace(v, Tail(F), C, J, p, a, m)
    BY <1>2, <2>5, <2>6, SetKeeps
  <2>8. v.frame = [t.frame EXCEPT ![p] = g]
    BY <2>4, <2>6
  <2>9. FindByIp(tab, g.hop) # Null /\ g.mac = tab.mac[FindByIp(tab, g.hop)]
    BY <2>2, <1>6
  <2>10. JobsWorked(t, SendTxPacket(v, p), J, a, m, n, tab)
    <3>1. /\ v.ring = t.ring /\ v.status = t.status /\ v.jfirst = t.jfirst
          /\ v.phase = t.phase /\ v.trycnt = t.trycnt /\ v.expired = t.expired
      BY <1>2, <2>6
    <3>2. F # <<>> /\ g \in FrameType
      BY <1>2, <2>2
    <3> HIDE DEF item
    <3> QED BY <3>1, <3>2, <2>7, <2>8, <2>9, SendNew
  <2> HIDE DEF r
  <2> QED BY <2>1, <2>10 DEF TxStep, JobsWorked
<1>7. ASSUME item = Null PROVE TxStep(t, r, J, a, n, tab)
  <2> DEFINE q == Added(u, p)
             K == Append(J, p)
  <2>1. r = ArpRun(q, tab)
    BY <1>1, <1>5, <1>7 DEF SendWithArp, Added
  <2>2. AddedAs(u, p, q) /\ InPlace(q, Tail(F), C, K, Null, a, m)
    BY <1>2, AddKeeps
  <2> HIDE DEF q
  <2>3. /\ q.frame = u.frame /\ q.status = t.status /\ q.ring = t.ring
        /\ q.phase = t.phase /\ q.trycnt = t.trycnt /\ q.expired = t.expired
        /\ q.jfirst = (IF t.jlast = Null THEN p ELSE t.jfirst)
    BY <1>2, <2>2 DEF AddedAs
  <2>4. /\ J \in Seq(1 .. Pool) /\ EndsAt(J, t.jlast) /\ Null \notin 1 .. Pool
        /\ Len(J) \in Nat
    BY SeqTypes, InList DEF InPlace, Places, Linkage
  <2>5. /\ t.jlast = Null <=> J = <<>>
        /\ t.jfirst = Null <=> J = <<>>
    <3> DEFINE S == 1 .. Pool
    <3>1. J \in Seq(S) /\ Null \notin S
      BY <2>4
    <3> HIDE DEF S
    <3>2. t.jlast = Null <=> J = <<>>
      BY <2>4, <3>1, LastOf
    <3> QED BY <3>2, FirstJob
  <2>6. /\ Len(K) = Len(J) + 1 /\ K[Len(J) + 1] = p
        /\ \A k \in 1 .. Len(J) : K[k] = J[k] /\ J[k] \in Packet
    <3>1. \A k \in 1 .. Len(J) : J[k] \in Packet
      BY <2>4, InList, SeqTypes
    <3> QED BY <1>2, <2>4, <3>1
  <2> HIDE DEF K
  <2>7. Asking(q, K, n)
    <3>1. ASSUME NEW k \in 1 .. Len(K) PROVE q.frame[K[k]].kind = "datagram"
      <4>1. CASE k = Len(J) + 1
        BY <4>1, <1>1, <1>5, <2>3, <2>6
      <4>2. CASE k # Len(J) + 1
        <5>1. k \in 1 .. Len(J)
          BY <4>2, <2>4, <2>6
        <5> QED BY <5>1, <1>3, <1>5, <2>3, <2>6 DEF Asking
      <4> QED BY <4>1, <4>2
    <3>2. t.phase # 0 => K # <<>> /\ K[1] = J[1] /\ q.frame[J[1]] = t.frame[J[1]]
      <4> SUFFICES ASSUME t.phase # 0 PROVE K # <<>> /\ K[1] = J[1] /\ q.frame[J[1]] = t.frame[J[1]]
        OBVIOUS
      <4>1. J # <<>>
        BY DEF Asking
      <4>2. 1 \in 1 .. Len(J)
        BY <4>1, FirstJob
      <4>3. K # <<>>
        <5>1. Len(K) # 0
          BY <2>4, <2>6
        <5> QED BY <5>1
      <4> QED BY <4>2, <4>3, <1>3, <1>5, <2>3, <2>6
    <3>3. q.frame[Sys] = t.frame[Sys]
      BY <1>2, <1>5, <2>3, SeqTypes
    <3>4. Pending(q) <=> Pending(t)
      BY <2>3 DEF Pending
    <3> QED BY <3>1, <3>2, <3>3, <3>4, <2>3 DEF Asking
  <2>8. JobsWorked(q, r, K, a, m, n, tab)
    BY <2>1, <2>2, <2>7, ArpRunKeeps
  <2> HIDE DEF r
  <2>9. PICK GG, DD, L : /\ InPlace(r, GG, DD, L, Null, a, m)
                         /\ Asking(r, L, Asked(q, r, n))
                         /\ PacketStep(q, r, K, n, tab) /\ JobStep(q, r, K, L)
    BY <2>8 DEF JobsWorked
  <2>10. PacketStep(t, q, J, n, tab)
    <3>1. ASSUME NEW x \in 1 .. Pool, t.status[x] = 1
          PROVE  q.status[x] = 1 /\ q.frame[x] = t.frame[x]
      BY <3>1, <1>3, <1>5, <2>3, SeqTypes
    <3>2. \A k \in 1 .. Len(J) : q.frame[J[k]] # NoFrame
      BY <1>3, <1>5, <2>3, <2>6, Frames DEF Asking
    <3> QED BY <3>1, <3>2, <2>3 DEF PacketStep
  <2>11. \A k \in 1 .. Len(J) : In(J[k], K)
    BY <2>4, <2>6 DEF In
  <2>12. PacketStep(t, r, J, n, tab)
    BY <2>3, <2>4, <2>9, <2>10, <2>11, <1>4, PacketThen
  <2>13. Asked(q, r, n) = Asked(t, r, n)
    <3>1. CASE J = <<>>
      <4>1. n = 0
        BY <3>1 DEF Asking
      <4> QED BY <4>1 DEF Asked
    <3>2. CASE J # <<>>
      BY <3>2, <2>3, <2>5 DEF Asked
    <3> QED BY <3>1, <3>2
  <2> QED BY <2>9, <2>12, <2>13 DEF TxStep
<1> QED BY <1>2, <1>6, <1>7 DEF r, u, fr


\* The lists are what the pointers lead to.
LEMMA ListsAre ==
  ASSUME NEW t, NEW F, NEW C, NEW J, NEW a, NEW m, InPlace(t, F, C, J, Null, a, m)
  PROVE  Free(t) = F /\ Chain(t) = C /\ Jobs(t) = J
<1>1. /\ F \in Seq(1 .. Pool) /\ C \in Seq(Packet) /\ J \in Seq(1 .. Pool)
      /\ Linked(t.free, t.next, F) /\ Linked(t.sfirst, t.next, C) /\ Linked(t.jfirst, t.next, J)
  BY DEF InPlace, Places, Linkage
<1>2. /\ Len(F) \in Nat /\ Len(C) \in Nat /\ Len(J) \in Nat
      /\ Len(F) <= Pool + 2 /\ Len(C) <= Pool + 2 /\ Len(J) <= Pool + 2
      /\ Pool + 2 \in Nat \ {0}
  <2>1. Len(F) + Len(C) + Len(J) = Pool + t.status[Sys] - (IF Null \in 1 .. Pool THEN 1 ELSE 0)
    BY DEF InPlace, Places
  <2>2. (IF Null \in 1 .. Pool THEN 1 ELSE 0) = 0
    BY SeqTypes
  <2>3. t.status[Sys] \in {0, 1}
    <3>1. t.status \in [Packet -> {0, 1}]
      BY Typed DEF InPlace
    <3> QED BY <3>1, SeqTypes
  <2>4. Len(F) \in Nat /\ Len(C) \in Nat /\ Len(J) \in Nat /\ Pool \in Nat
    BY <1>1, InList, Sizes
  <2> QED BY ONLY <2>1, <2>2, <2>3, <2>4
<1>3. Null \notin Packet /\ Null \notin 1 .. Pool
  BY SeqTypes
<1>4. Free(t) = F
  BY <1>1, <1>2, <1>3, FollowLinked DEF Free
<1>5. Chain(t) = C
  BY <1>1, <1>2, <1>3, FollowLinked DEF Chain
<1>6. Jobs(t) = J
  BY <1>1, <1>2, <1>3, FollowLinked DEF Jobs
<1> QED BY <1>4, <1>5, <1>6

\* The MAC reads a packet and gives its descriptor back.
MacSent(t, a) ==
  LET p == t.ring[a]
  IN [t EXCEPT !.ring[a] = Null, !.frame[p] = IF p = Sys THEN @ ELSE NoFrame]

\* The frame that the MAC is at is the first in the chain that it has not sent.
LEMMA MacAtNext ==
  ASSUME NEW t, NEW C, NEW a, NEW m, t \in FieldType, C \in Seq(Packet), Len(C) <= Pool + 1,
         Sending(t, C, a, m), t.ring[a] # Null
  PROVE  /\ m + 1 \in 1 .. Len(C) /\ t.ring[a] = C[m + 1] /\ a = Back(t.slot, Len(C) + 1 - (m + 1))
         /\ a \in Slot /\ NextSlot(a) = Back(t.slot, Len(C) - (m + 1))
<1>1. /\ t.slot \in Slot /\ Len(C) \in Nat /\ m \in 0 .. Len(C) /\ a = Back(t.slot, Len(C) - m)
      /\ Pool \in Nat
  BY Typed, InList, Sizes DEF Sending
<1>2. a \in Slot
  <2>1. Len(C) - m \in 0 .. Pool + 1
    BY <1>1
  <2> QED BY <2>1, <1>1, BackSlot
<1>3. PICK k \in 1 .. Len(C) : a = Back(t.slot, Len(C) + 1 - k)
  BY <1>2 DEF Sending
<1>4. t.ring[a] = IF k <= m THEN Null ELSE C[k]
  BY <1>3 DEF Sending
<1>5. k > m
  BY <1>1, <1>4
<1>6. k = m + 1
  <2>1. Len(C) - m \in 1 .. Pool + 1 /\ Len(C) + 1 - k \in 1 .. Pool + 1
    BY <1>1, <1>5
  <2>2. Len(C) - m = Len(C) + 1 - k
    BY <2>1, <1>1, <1>3, BackInjective
  <2> QED BY <2>2, <1>1
<1>7. NextSlot(a) = Back(t.slot, Len(C) - (m + 1))
  <2>1. Len(C) - m \in 1 .. Pool + 1 /\ Len(C) - m - 1 = Len(C) - (m + 1)
    BY <1>1, <1>5
  <2> QED BY <2>1, <1>1, NextBack
<1> QED BY <1>1, <1>2, <1>3, <1>4, <1>5, <1>6, <1>7

\* What the MAC changes.
LEMMA MacFields ==
  ASSUME NEW t \in FieldType, NEW a \in Slot, t.ring[a] \in Packet
  PROVE  LET r == MacSent(t, a)
             p == t.ring[a]
         IN /\ r \in FieldType
            /\ r.next = t.next /\ r.free = t.free /\ r.sfirst = t.sfirst /\ r.slast = t.slast
            /\ r.jfirst = t.jfirst /\ r.jlast = t.jlast /\ r.status = t.status /\ r.idx = t.idx
            /\ r.slot = t.slot /\ r.phase = t.phase /\ r.trycnt = t.trycnt /\ r.expired = t.expired
            /\ r.ring = [t.ring EXCEPT ![a] = Null]
            /\ r.frame[Sys] = t.frame[Sys]
            /\ \A q \in Packet : q # p => r.frame[q] = t.frame[q]
<1> DEFINE p == t.ring[a]
           f == IF p = Sys THEN t.frame[p] ELSE NoFrame
           r == [t EXCEPT !.ring[a] = Null, !.frame[p] = f]
<1>1. /\ t.frame \in [Packet -> FrameType] /\ t.ring \in [Slot -> PacketOrNull]
      /\ Null \in PacketOrNull /\ Sys \in Packet
  BY Typed, SeqTypes DEF PacketOrNull
<1>2. MacSent(t, a) = r
  BY <1>1 DEF MacSent, FieldType
<1>3. f \in FrameType
  BY <1>1, Frames
<1>4. (p = Sys => f = t.frame[Sys]) /\ p \in Packet
  OBVIOUS
<1> HIDE DEF f, p
<1>5. r \in FieldType
  BY <1>1, <1>3, <1>4 DEF FieldType
<1>6. /\ r.next = t.next /\ r.free = t.free /\ r.sfirst = t.sfirst /\ r.slast = t.slast
      /\ r.jfirst = t.jfirst /\ r.jlast = t.jlast /\ r.status = t.status /\ r.idx = t.idx
      /\ r.slot = t.slot /\ r.phase = t.phase /\ r.trycnt = t.trycnt /\ r.expired = t.expired
      /\ r.ring = [t.ring EXCEPT ![a] = Null]
      /\ r.frame = [t.frame EXCEPT ![p] = f]
  BY DEF FieldType
<1> HIDE DEF r
<1>7. r.frame[Sys] = t.frame[Sys] /\ \A q \in Packet : q # p => r.frame[q] = t.frame[q]
  BY <1>1, <1>4, <1>6
<1> QED BY <1>2, <1>5, <1>6, <1>7 DEF p

\* The requests sent for the first job, when the MAC has sent the frame at a.
Counted(t, a, n) ==
  IF t.ring[a] = Sys /\ t.jfirst # Null /\ t.frame[t.ring[a]].hop = t.frame[t.jfirst].hop
  THEN n + 1 ELSE n

\* What the MAC leaves when it sent a frame.
MacLeaves(t, r, F, C, J, a, m, l) ==
  /\ InPlace(r, F, C, J, Null, a, m)
  /\ Asking(r, J, l) /\ l \in Nat
  /\ r.status = t.status
  /\ \A k \in 1 .. Len(J) : r.frame[J[k]] # NoFrame

\* The MAC sends the frame that it is at.
LEMMA MacKeeps ==
  ASSUME NEW t, NEW F, NEW C, NEW J, NEW a, NEW m, NEW n \in Nat, NEW l,
         InPlace(t, F, C, J, Null, a, m), Asking(t, J, n), t.ring[a] # Null,
         l = Counted(t, a, n)
  PROVE  MacLeaves(t, MacSent(t, a), F, C, J, NextSlot(a), m + 1, l)
<1> SUFFICES ASSUME l = IF t.ring[a] = Sys /\ t.jfirst # Null
                              /\ t.frame[t.ring[a]].hop = t.frame[t.jfirst].hop
                        THEN n + 1 ELSE n
             PROVE  /\ InPlace(MacSent(t, a), F, C, J, Null, NextSlot(a), m + 1)
                    /\ Asking(MacSent(t, a), J, l) /\ l \in Nat
                    /\ MacSent(t, a).status = t.status
                    /\ \A k \in 1 .. Len(J) : MacSent(t, a).frame[J[k]] # NoFrame
  BY DEF MacLeaves, Counted
<1> DEFINE r == MacSent(t, a)
           p == t.ring[a]
           d == Len(C)
<1>1. /\ t \in FieldType /\ Linkage(t, F, C, J) /\ Places(t, F, C, J, Null) /\ Sending(t, C, a, m)
      /\ C \in Seq(Packet) /\ J \in Seq(1 .. Pool) /\ Distinct(C) /\ Apart(C, J)
      /\ t.slot \in Slot /\ t.ring \in [Slot -> PacketOrNull] /\ d \in Nat /\ Pool \in Nat
  BY Typed, Sizes, InList DEF InPlace, Places
<1>2. d <= Pool + 1
  <2>1. Len(F) + Len(C) + Len(J) = Pool + t.status[Sys] - (IF Null \in 1 .. Pool THEN 1 ELSE 0)
    BY DEF InPlace, Places
  <2>2. (IF Null \in 1 .. Pool THEN 1 ELSE 0) = 0
    BY SeqTypes
  <2>3. t.status[Sys] \in {0, 1}
    <3>1. t.status \in [Packet -> {0, 1}]
      BY <1>1, Typed
    <3> QED BY <3>1, SeqTypes
  <2>4. Len(F) \in Nat /\ Len(J) \in Nat
    BY InList DEF InPlace, Places
  <2> QED BY ONLY <1>1, <2>1, <2>2, <2>3, <2>4
<1>3. /\ m + 1 \in 1 .. d /\ p = C[m + 1] /\ a = Back(t.slot, d + 1 - (m + 1))
      /\ a \in Slot /\ NextSlot(a) = Back(t.slot, d - (m + 1)) /\ m \in 0 .. d
  <2>1. m \in 0 .. d
    BY <1>1 DEF Sending
  <2> QED BY <2>1, <1>1, <1>2, MacAtNext
<1>4. \A k \in 1 .. d : C[k] \in Packet
  BY <1>1, InList
<1>5. p \in Packet
  BY <1>3, <1>4
<1>6. /\ r \in FieldType
      /\ r.next = t.next /\ r.free = t.free /\ r.sfirst = t.sfirst /\ r.slast = t.slast
      /\ r.jfirst = t.jfirst /\ r.jlast = t.jlast /\ r.status = t.status /\ r.idx = t.idx
      /\ r.slot = t.slot /\ r.phase = t.phase /\ r.trycnt = t.trycnt /\ r.expired = t.expired
      /\ r.ring = [t.ring EXCEPT ![a] = Null]
      /\ r.frame[Sys] = t.frame[Sys]
      /\ \A q \in Packet : q # p => r.frame[q] = t.frame[q]
  BY <1>1, <1>3, <1>5, MacFields
<1> HIDE DEF r
<1>7. \A j, k \in 1 .. d : Back(t.slot, d + 1 - j) = Back(t.slot, d + 1 - k) => j = k
  <2> TAKE j, k \in 1 .. d
  <2> HAVE Back(t.slot, d + 1 - j) = Back(t.slot, d + 1 - k)
  <2>1. d + 1 - j \in 1 .. Pool + 1 /\ d + 1 - k \in 1 .. Pool + 1
    BY <1>1, <1>2
  <2>2. d + 1 - j = d + 1 - k
    BY <2>1, <1>1, BackInjective
  <2> QED BY <2>2, <1>1
<1>8. \A k \in 1 .. d : Back(t.slot, d + 1 - k) \in Slot
  <2> TAKE k \in 1 .. d
  <2>1. d + 1 - k \in 0 .. Pool + 1
    BY <1>1, <1>2
  <2> QED BY <2>1, <1>1, BackSlot
<1>9. Sending(r, C, NextSlot(a), m + 1)
  <2>1. m + 1 \in 0 .. d
    BY <1>1, <1>3
  <2>2. ASSUME NEW k \in 1 .. d
        PROVE  /\ r.idx[C[k]] = Back(r.slot, d + 1 - k)
               /\ r.ring[Back(r.slot, d + 1 - k)] = IF k <= m + 1 THEN Null ELSE C[k]
    <3>1. /\ t.idx[C[k]] = Back(t.slot, d + 1 - k)
          /\ t.ring[Back(t.slot, d + 1 - k)] = IF k <= m THEN Null ELSE C[k]
      BY <1>1 DEF Sending
    <3>2. CASE k = m + 1
      <4>1. Back(t.slot, d + 1 - k) = a /\ k <= m + 1
        BY <3>2, <1>3
      <4> QED BY <4>1, <3>1, <1>1, <1>3, <1>6
    <3>3. CASE k # m + 1
      <4>1. Back(t.slot, d + 1 - k) # a
        BY <3>3, <1>3, <1>7
      <4>2. r.ring[Back(t.slot, d + 1 - k)] = t.ring[Back(t.slot, d + 1 - k)]
        BY <4>1, <1>1, <1>6, <1>8
      <4>3. k <= m <=> k <= m + 1
        BY <3>3, <1>1, <1>3
      <4> QED BY <4>2, <4>3, <3>1, <1>6
    <3> QED BY <3>2, <3>3
  <2>3. ASSUME NEW i \in Slot, r.ring[i] # Null
        PROVE  \E k \in 1 .. d : i = Back(r.slot, d + 1 - k)
    <3>1. t.ring[i] # Null
      BY <2>3, <1>1, <1>6, <1>3
    <3> QED BY <3>1, <1>1, <1>6 DEF Sending
  <2> QED BY <2>1, <2>2, <2>3, <1>3, <1>6 DEF Sending
<1>10. Linkage(r, F, C, J)
  BY <1>1, <1>6 DEF Linkage
<1>11. Places(r, F, C, J, Null)
  BY <1>1, <1>6 DEF Places
<1>12. InPlace(r, F, C, J, Null, NextSlot(a), m + 1)
  BY <1>6, <1>9, <1>10, <1>11 DEF InPlace
<1>13. \A k \in 1 .. Len(J) : r.frame[J[k]] = t.frame[J[k]]
  <2> TAKE k \in 1 .. Len(J)
  <2>1. J[k] \in Packet
    BY <1>1, InList, SeqTypes
  <2>2. J[k] # p
    BY <1>1, <1>3 DEF Apart
  <2> QED BY <2>1, <2>2, <1>6
<1>14. \A k \in 1 .. Len(J) : r.frame[J[k]] # NoFrame
  BY <1>13, Frames DEF Asking
<1>15. CASE p = Sys
  <2>1. Pending(t)
    BY <1>3, <1>15 DEF Pending
  <2>2. t.phase = 1 /\ J # <<>>
    <3>1. t.status[Sys] = 1
      BY <2>1, PendingSent
    <3> QED BY <3>1 DEF Asking
  <2>3. t.jfirst # Null /\ t.jfirst = J[1] /\ 1 \in 1 .. Len(J)
    BY <2>2, FirstJob
  <2>4. t.frame[Sys].hop = t.frame[J[1]].hop /\ n + (IF Pending(t) THEN 1 ELSE 0) = t.trycnt
        /\ t.trycnt \in 1 .. MaxTries
    BY <2>2 DEF Asking
  <2>5. l = n + 1
    BY <1>15, <2>3, <2>4
  <2>6. ~Pending(r)
    <3> SUFFICES ASSUME NEW i \in Slot, r.ring[i] = Sys PROVE FALSE
      BY DEF Pending
    <3>1. i # a
      BY <1>1, <1>3, <1>6, SeqTypes
    <3>2. t.ring[i] = Sys /\ Sys # Null
      BY <3>1, <1>1, <1>6, SeqTypes
    <3>3. PICK k \in 1 .. d : i = Back(t.slot, d + 1 - k)
      BY <3>2, <1>1 DEF Sending
    <3>4. t.ring[i] = IF k <= m THEN Null ELSE C[k]
      BY <3>3, <1>1 DEF Sending
    <3>5. k = m + 1
      BY <3>2, <3>4, <1>1, <1>3, <1>15 DEF Distinct
    <3> QED BY <3>1, <3>3, <3>5, <1>3
  <2>7. Asking(r, J, l)
    <3>1. \A k \in 1 .. Len(J) : r.frame[J[k]].kind = "datagram"
      BY <1>13 DEF Asking
    <3>2. r.frame[Sys].hop = r.frame[J[1]].hop
      BY <2>3, <2>4, <1>6, <1>13
    <3>3. l + 0 = t.trycnt
      BY <2>1, <2>4, <2>5
    <3>4. (r.phase = 1 /\ r.expired) => r.status[Sys] = 0
      BY <1>6 DEF Asking
    <3>5. r.phase = 1 /\ r.trycnt = t.trycnt
      BY <1>6, <2>2
    <3> QED BY <2>2, <2>4, <2>6, <3>1, <3>2, <3>3, <3>4, <3>5 DEF Asking
  <2> QED BY <2>5, <2>7, <1>6, <1>12, <1>14 DEF r
<1>16. CASE p # Sys
  <2>1. l = n
    BY <1>16
  <2>2. Pending(r) <=> Pending(t)
    <3>1. \A i \in Slot : r.ring[i] = Sys <=> t.ring[i] = Sys
      BY <1>1, <1>6, <1>16, SeqTypes
    <3> QED BY <3>1 DEF Pending
  <2>3. Asking(r, J, l)
    <3>1. \A k \in 1 .. Len(J) : r.frame[J[k]].kind = "datagram"
      BY <1>13 DEF Asking
    <3>2. J # <<>> => r.frame[J[1]] = t.frame[J[1]]
      BY <1>13, FirstJob
    <3> QED BY <2>1, <2>2, <3>1, <3>2, <1>6 DEF Asking
  <2> QED BY <2>1, <2>3, <1>6, <1>12, <1>14 DEF r
<1> QED BY <1>15, <1>16


-----------------------------------------------------------------------------
(* The inductive invariant of the address table. *)

\* The type of the table.
TableType ==
  [first : TableRange, last : TableRange, free : TableRange,
   prev : [Item -> TableRange], next : [Item -> TableRange],
   ip : [Item -> Ip \cup {NoIp}], mac : [Item -> Mac \cup {NoMac}]]

\* L and U are the items in use, the latest first, and those not used yet; h is
\* the item in hand, or Null.
InTable(t, L, U, h) ==
  /\ t \in TableType
  /\ L \in Seq(Item) /\ U \in Seq(Item)
  /\ Distinct(L) /\ Distinct(U) /\ Apart(L, U) /\ ~In(h, L) /\ ~In(h, U)
  /\ \A i \in Item : i = h \/ In(i, L) \/ In(i, U)
  /\ Len(L) + Len(U) = MaxItems - (IF h \in Item THEN 1 ELSE 0)
  /\ Linked(t.first, t.next, L) /\ Linked(t.free, t.next, U) /\ EndsAt(L, t.last)
  /\ \A k \in 1 .. Len(L) : t.prev[L[k]] = IF k = 1 THEN Null ELSE L[k - 1]
  /\ \A k \in 1 .. Len(L) : t.ip[L[k]] \in Ip /\ t.mac[L[k]] \in Mac
  /\ \A j, k \in 1 .. Len(L) : t.mac[L[j]] = t.mac[L[k]] => j = k

\* The stations that the items of the list hold.
Stations(t, L) == [k \in 1 .. Len(L) |-> [ip |-> t.ip[L[k]], mac |-> t.mac[L[k]]]]

\* What SelectInSeq finds: the first index, or 0.
LEMMA LeastIndex ==
  ASSUME NEW n \in Nat, NEW I, I \subseteq 1 .. n
  PROVE  LET k == IF I # {} THEN Min(I) ELSE 0
         IN /\ k \in 0 .. n /\ (k = 0 <=> I = {})
            /\ k # 0 => k \in I /\ \A j \in I : k <= j
<1>1. CASE I = {}
  BY <1>1
<1>2. CASE I # {}
  <2>1. I \subseteq Nat
    OBVIOUS
  <2>2. \E x \in I : \A y \in I : x <= y
    BY <2>1, <1>2, Least
  <2>3. Min(I) \in I /\ \A y \in I : Min(I) <= y
    BY <2>2 DEF Min
  <2> DEFINE k == IF I # {} THEN Min(I) ELSE 0
  <2>4. k = Min(I)
    BY <1>2
  <2> HIDE DEF k
  <2>5. k \in I /\ \A y \in I : k <= y
    BY <2>3, <2>4
  <2>6. k \in 1 .. n
    BY <2>5
  <2>7. k \in 0 .. n /\ k # 0
    BY <2>6
  <2> QED BY <2>5, <2>7, <1>2 DEF k
<1> QED BY <1>1, <1>2

\* Without the element k.
LEMMA RemovedAt ==
  ASSUME NEW S, NEW list \in Seq(S), NEW k \in 1 .. Len(list)
  PROVE  /\ RemoveAt(list, k) \in Seq(S) /\ Len(RemoveAt(list, k)) = Len(list) - 1
         /\ \A j \in 1 .. Len(list) - 1 : RemoveAt(list, k)[j] = IF j < k THEN list[j] ELSE list[j + 1]
<1> DEFINE s == SubSeq(list, 1, k - 1)
           u == SubSeq(list, k + 1, Len(list))
<1>1. Len(list) \in Nat /\ k \in Int
  OBVIOUS
<1>2. s \in Seq(S) /\ Len(s) = k - 1 /\ \A j \in 1 .. k - 1 : s[j] = list[j]
  OBVIOUS
<1>3. u \in Seq(S) /\ Len(u) = Len(list) - k /\ \A j \in 1 .. Len(list) - k : u[j] = list[k + j]
  OBVIOUS
<1>4. RemoveAt(list, k) = s \o u
  BY DEF RemoveAt
<1> HIDE DEF s, u
<1>5. /\ s \o u \in Seq(S) /\ Len(s \o u) = Len(s) + Len(u)
      /\ \A j \in 1 .. Len(s) + Len(u) : (s \o u)[j] = IF j <= Len(s) THEN s[j] ELSE u[j - Len(s)]
  BY <1>2, <1>3, ConcatProperties
<1>6. Len(s \o u) = Len(list) - 1
  BY <1>1, <1>2, <1>3, <1>5
<1>7. ASSUME NEW j \in 1 .. Len(list) - 1
      PROVE  (s \o u)[j] = IF j < k THEN list[j] ELSE list[j + 1]
  <2>1. j \in 1 .. Len(s) + Len(u)
    BY <1>1, <1>2, <1>3
  <2>2. CASE j < k
    <3>1. j <= Len(s) /\ j \in 1 .. k - 1
      BY <2>2, <1>1, <1>2
    <3> QED BY <2>1, <2>2, <3>1, <1>2, <1>5
  <2>3. CASE ~(j < k)
    <3>1. ~(j <= Len(s)) /\ j - Len(s) \in 1 .. Len(list) - k /\ k + (j - Len(s)) = j + 1
      BY <2>3, <1>1, <1>2
    <3> QED BY <2>1, <2>3, <3>1, <1>3, <1>5
  <2> QED BY <2>2, <2>3
<1> QED BY <1>4, <1>5, <1>6, <1>7

\* The elements of a list without one of them.
LEMMA RemoveList ==
  ASSUME NEW S, NEW list \in Seq(S), NEW k \in 1 .. Len(list), Distinct(list)
  PROVE  /\ Distinct(RemoveAt(list, k))
         /\ \A q : In(q, list) <=> q = list[k] \/ In(q, RemoveAt(list, k))
         /\ ~In(list[k], RemoveAt(list, k))
<1> DEFINE rest == RemoveAt(list, k)
           n == Len(list)
           On(j) == IF j < k THEN j ELSE j + 1
<1>1. /\ rest \in Seq(S) /\ Len(rest) = n - 1 /\ n \in Nat
      /\ \A j \in 1 .. n - 1 : rest[j] = IF j < k THEN list[j] ELSE list[j + 1]
  <2>1. /\ RemoveAt(list, k) \in Seq(S) /\ Len(RemoveAt(list, k)) = Len(list) - 1
        /\ \A j \in 1 .. Len(list) - 1 :
             RemoveAt(list, k)[j] = IF j < k THEN list[j] ELSE list[j + 1]
    BY RemovedAt, Zenon
  <2>2. Len(list) \in Nat
    OBVIOUS
  <2> QED BY <2>1, <2>2, Zenon
<1> HIDE DEF rest
<1>2. \A j \in 1 .. n - 1 : rest[j] = list[On(j)] /\ On(j) \in 1 .. n /\ On(j) # k
  BY <1>1
<1>3. \A i, j \in 1 .. n - 1 : On(i) = On(j) => i = j
  OBVIOUS
<1>4. Distinct(rest)
  <2> HIDE DEF On
  <2> QED BY <1>1, <1>2, <1>3 DEF Distinct
<1>5. ~In(list[k], rest)
  <2> HIDE DEF On
  <2> QED BY <1>1, <1>2 DEF Distinct, In
<1>6. ASSUME NEW q, In(q, list), q # list[k] PROVE In(q, rest)
  <2>1. PICK i \in 1 .. n : list[i] = q
    BY <1>6 DEF In
  <2>2. i # k
    BY <2>1, <1>6
  <2>3. \E j \in 1 .. n - 1 : On(j) = i
    <3>1. CASE i < k
      <4>1. i \in 1 .. n - 1 /\ On(i) = i
        BY <3>1, <1>1
      <4> QED BY <4>1
    <3>2. CASE i > k
      <4>1. i - 1 \in 1 .. n - 1 /\ On(i - 1) = i
        BY <3>2, <1>1
      <4> QED BY <4>1
    <3> QED BY <2>2, <3>1, <3>2, <1>1
  <2> HIDE DEF On
  <2> QED BY <2>1, <2>3, <1>1, <1>2 DEF In
<1>7. ASSUME NEW q, In(q, rest) PROVE In(q, list)
  <2> HIDE DEF On
  <2> QED BY <1>7, <1>1, <1>2 DEF In
<1>8. In(list[k], list)
  BY DEF In
<1> QED BY <1>4, <1>5, <1>6, <1>7, <1>8 DEF rest

\* Find returns the first item of the list that has the value.
LEMMA FindIs ==
  ASSUME NEW t, NEW L \in Seq(Item), NEW field, NEW value, Items(t) = L
  PROVE  \/ Find(t, field, value) = Null /\ \A k \in 1 .. Len(L) : field[L[k]] # value
         \/ \E k \in 1 .. Len(L) : /\ Find(t, field, value) = L[k] /\ field[L[k]] = value
                                   /\ \A j \in 1 .. k - 1 : field[L[j]] # value
<1> DEFINE I == {i \in 1 .. Len(L) : field[L[i]] = value}
           k == IF I # {} THEN Min(I) ELSE 0
<1>1. Find(t, field, value) = IF k = 0 THEN Null ELSE L[k]
  BY DEF Find, SelectInSeq
<1>2. Len(L) \in Nat /\ I \subseteq 1 .. Len(L)
  OBVIOUS
<1>3. /\ k \in 0 .. Len(L) /\ (k = 0 <=> I = {})
      /\ k # 0 => k \in I /\ \A j \in I : k <= j
  <2> HIDE DEF I
  <2> QED BY <1>2, LeastIndex
<1> HIDE DEF k
<1>4. CASE k = 0
  BY <1>1, <1>3, <1>4
<1>5. CASE k # 0
  <2>1. k \in 1 .. Len(L) /\ field[L[k]] = value
    BY <1>3, <1>5
  <2>2. \A j \in 1 .. k - 1 : field[L[j]] # value
    <3> SUFFICES ASSUME NEW j \in 1 .. k - 1, field[L[j]] = value PROVE FALSE
      OBVIOUS
    <3>1. j \in I
      BY <2>1, <1>2
    <3>2. k <= j
      BY <3>1, <1>3, <1>5
    <3> QED BY <3>2, <2>1
  <2>3. Find(t, field, value) = L[k]
    BY <1>1, <1>5
  <2> QED BY <2>1, <2>2, <2>3
<1> QED BY <1>4, <1>5


\* The members of the table.
LEMMA TableFields ==
  ASSUME NEW t \in TableType
  PROVE  /\ t.first \in TableRange /\ t.last \in TableRange /\ t.free \in TableRange
         /\ t.prev \in [Item -> TableRange] /\ t.next \in [Item -> TableRange]
         /\ t.ip \in [Item -> Ip \cup {NoIp}] /\ t.mac \in [Item -> Mac \cup {NoMac}]
BY DEF TableType

\* Null is not an item.
LEMMA Items0 ==
  /\ Null = 0 /\ Null \notin Item /\ Null \in TableRange /\ Item \subseteq TableRange
  /\ \A i \in TableRange : i # Null => i \in Item
BY Sizes DEF Item, TableRange

\* The length of the two lists together.
LEMMA TableSizes ==
  ASSUME NEW t, NEW L, NEW U, NEW h, InTable(t, L, U, h)
  PROVE  /\ Len(L) \in Nat /\ Len(U) \in Nat /\ Len(L) <= MaxItems /\ Len(U) <= MaxItems
         /\ h = Null => Len(L) + Len(U) = MaxItems
         /\ h \in Item => Len(L) + Len(U) = MaxItems - 1
<1>1. Len(L) \in Nat /\ Len(U) \in Nat /\ MaxItems \in Nat
  BY InList, Sizes DEF InTable
<1>2. Len(L) + Len(U) = MaxItems - (IF h \in Item THEN 1 ELSE 0)
  BY DEF InTable
<1>3. h = Null => h \notin Item
  BY Items0
<1> QED BY <1>1, <1>2, <1>3

\* The lists are what the pointers lead to.
LEMMA ItemsAre ==
  ASSUME NEW t, NEW L, NEW U, NEW h, InTable(t, L, U, h)
  PROVE  Items(t) = L /\ Follow(t.free, t.next, MaxItems + 1) = U
<1>1. L \in Seq(Item) /\ U \in Seq(Item) /\ Linked(t.first, t.next, L) /\ Linked(t.free, t.next, U)
  BY DEF InTable
<1>2. Len(L) <= MaxItems + 1 /\ Len(U) <= MaxItems + 1 /\ MaxItems + 1 \in Nat \ {0}
  BY TableSizes, Sizes
<1>3. Null \notin Item
  BY Items0
<1>4. Items(t) = L
  BY <1>1, <1>2, <1>3, FollowLinked DEF Items
<1>5. Follow(t.free, t.next, MaxItems + 1) = U
  BY <1>1, <1>2, <1>3, FollowLinked
<1> QED BY <1>4, <1>5

\* What Unchain changes.
UnchainedAs(t, i, r) ==
  LET before == t.prev[i]
      after  == t.next[i]
  IN /\ r \in TableType
     /\ r.free = t.free /\ r.ip = t.ip /\ r.mac = t.mac
     /\ r.first = (IF before = Null THEN after ELSE t.first)
     /\ r.last = (IF after = Null THEN before ELSE t.last)
     /\ \A q \in Item : r.next[q] = IF q = before THEN after ELSE t.next[q]
     /\ \A q \in Item : r.prev[q] = IF q = after THEN before ELSE t.prev[q]

\* Unchain, member by member.
LEMMA UnchainFields ==
  ASSUME NEW t \in TableType, NEW i \in Item
  PROVE  UnchainedAs(t, i, Unchain(t, i))
<1> DEFINE before == t.prev[i]
           after == t.next[i]
           cut == IF before # Null THEN [t EXCEPT !.next[before] = after]
                                   ELSE [t EXCEPT !.first = after]
           r == IF after # Null THEN [cut EXCEPT !.prev[after] = before]
                                ELSE [cut EXCEPT !.last = before]
<1>1. /\ before \in TableRange /\ after \in TableRange
      /\ t.prev \in [Item -> TableRange] /\ t.next \in [Item -> TableRange]
  BY TableFields
<1>2. Unchain(t, i) = r
  BY DEF Unchain
<1> HIDE DEF before, after
<1>3. /\ cut \in TableType /\ cut.free = t.free /\ cut.ip = t.ip /\ cut.mac = t.mac
      /\ cut.prev = t.prev /\ cut.last = t.last
      /\ cut.first = (IF before = Null THEN after ELSE t.first)
      /\ \A q \in Item : cut.next[q] = IF q = before THEN after ELSE t.next[q]
  <2>1. CASE before # Null
    <3> DEFINE c == [t EXCEPT !.next[before] = after]
    <3>1. before \in Item
      BY <2>1, <1>1, Items0
    <3>2. c \in TableType
      BY <3>1, <1>1 DEF TableType
    <3>3. /\ c.free = t.free /\ c.ip = t.ip /\ c.mac = t.mac
          /\ c.prev = t.prev /\ c.last = t.last /\ c.first = t.first
          /\ c.next = [t.next EXCEPT ![before] = after]
      BY DEF TableType
    <3>4. cut = c
      BY <2>1
    <3> HIDE DEF c, cut
    <3>5. \A q \in Item : c.next[q] = IF q = before THEN after ELSE t.next[q]
      BY <3>1, <3>3, <1>1
    <3> QED BY <2>1, <3>2, <3>3, <3>4, <3>5
  <2>2. CASE before = Null
    <3> DEFINE c == [t EXCEPT !.first = after]
    <3>2. c \in TableType
      BY <1>1 DEF TableType
    <3>3. /\ c.free = t.free /\ c.ip = t.ip /\ c.mac = t.mac
          /\ c.prev = t.prev /\ c.last = t.last /\ c.first = after /\ c.next = t.next
      BY DEF TableType
    <3>4. cut = c
      BY <2>2
    <3> HIDE DEF c, cut
    <3>5. \A q \in Item : q # before
      BY <2>2, Items0
    <3> QED BY <2>2, <3>2, <3>3, <3>4, <3>5
  <2> QED BY <2>1, <2>2
<1> HIDE DEF cut
<1>4. CASE after # Null
  <2> DEFINE c == [cut EXCEPT !.prev[after] = before]
  <2>1. after \in Item
    BY <1>4, <1>1, Items0
  <2>2. c \in TableType
    BY <2>1, <1>1, <1>3 DEF TableType
  <2>3. /\ c.free = cut.free /\ c.ip = cut.ip /\ c.mac = cut.mac
        /\ c.next = cut.next /\ c.last = cut.last /\ c.first = cut.first
        /\ c.prev = [cut.prev EXCEPT ![after] = before]
    BY <1>3 DEF TableType
  <2>4. r = c
    BY <1>4
  <2> HIDE DEF c, r
  <2>5. \A q \in Item : c.prev[q] = IF q = after THEN before ELSE t.prev[q]
    BY <2>1, <2>3, <1>1, <1>3
  <2>6. /\ c.free = t.free /\ c.ip = t.ip /\ c.mac = t.mac
        /\ c.first = (IF before = Null THEN after ELSE t.first)
        /\ c.last = (IF after = Null THEN before ELSE t.last)
        /\ \A q \in Item : c.next[q] = IF q = before THEN after ELSE t.next[q]
    BY <1>3, <1>4, <2>3
  <2>7. UnchainedAs(t, i, c)
    BY <2>2, <2>5, <2>6 DEF UnchainedAs, before, after
  <2> QED BY <1>2, <2>4, <2>7
<1>5. CASE after = Null
  <2> DEFINE c == [cut EXCEPT !.last = before]
  <2>2. c \in TableType
    BY <1>1, <1>3 DEF TableType
  <2>3. /\ c.free = cut.free /\ c.ip = cut.ip /\ c.mac = cut.mac
        /\ c.next = cut.next /\ c.last = before /\ c.first = cut.first
        /\ c.prev = cut.prev
    BY <1>3 DEF TableType
  <2>4. r = c
    BY <1>5
  <2> HIDE DEF c, r
  <2>5. \A q \in Item : q # after
    BY <1>5, Items0
  <2> QED BY <1>2, <1>3, <1>5, <2>2, <2>3, <2>4, <2>5 DEF UnchainedAs, before, after
<1> QED BY <1>4, <1>5

\* The members of the items in use.
LEMMA FirstsOfTable ==
  ASSUME NEW t, NEW L, NEW U, NEW h, InTable(t, L, U, h)
  PROVE  /\ Len(L) \in Nat /\ \A k \in 1 .. Len(L) : L[k] \in Item /\ L[k] # Null
         /\ \A j, k \in 1 .. Len(L) : L[j] = L[k] => j = k
         /\ t.first = (IF Len(L) = 0 THEN Null ELSE L[1])
         /\ t.last = (IF Len(L) = 0 THEN Null ELSE L[Len(L)])
         /\ \A k \in 1 .. Len(L) : t.next[L[k]] = IF k = Len(L) THEN Null ELSE L[k + 1]
         /\ \A k \in 1 .. Len(L) : t.prev[L[k]] = IF k = 1 THEN Null ELSE L[k - 1]
<1>1. L \in Seq(Item) /\ Len(L) \in Nat /\ (L = <<>> <=> Len(L) = 0)
  BY Empty DEF InTable
<1>2. \A k \in 1 .. Len(L) : L[k] \in Item /\ L[k] # Null
  BY <1>1, InList, Items0
<1>3. \A j, k \in 1 .. Len(L) : L[j] = L[k] => j = k
  BY DEF InTable, Distinct
<1>4. /\ t.first = (IF Len(L) = 0 THEN Null ELSE L[1])
      /\ \A k \in 1 .. Len(L) : t.next[L[k]] = IF k = Len(L) THEN Null ELSE L[k + 1]
  BY <1>1 DEF InTable, Linked
<1>5. t.last = (IF Len(L) = 0 THEN Null ELSE L[Len(L)])
  BY <1>1 DEF InTable, EndsAt
<1>6. \A k \in 1 .. Len(L) : t.prev[L[k]] = IF k = 1 THEN Null ELSE L[k - 1]
  BY DEF InTable
<1> QED BY <1>1, <1>2, <1>3, <1>4, <1>5, <1>6


\* An item is taken out of the list.
LEMMA UnchainTable ==
  ASSUME NEW t, NEW L, NEW U, NEW k \in 1 .. Len(L), InTable(t, L, U, Null),
         NEW r, UnchainedAs(t, L[k], r)
  PROVE  InTable(r, RemoveAt(L, k), U, L[k])
<1> DEFINE n == Len(L)
           i == L[k]
           R == RemoveAt(L, k)
           before == t.prev[i]
           after == t.next[i]
<1>1. /\ n \in Nat /\ \A j \in 1 .. n : L[j] \in Item /\ L[j] # Null
      /\ \A j, l \in 1 .. n : L[j] = L[l] => j = l
      /\ t.first = (IF n = 0 THEN Null ELSE L[1])
      /\ t.last = (IF n = 0 THEN Null ELSE L[n])
      /\ \A j \in 1 .. n : t.next[L[j]] = IF j = n THEN Null ELSE L[j + 1]
      /\ \A j \in 1 .. n : t.prev[L[j]] = IF j = 1 THEN Null ELSE L[j - 1]
  <2>1. InTable(t, L, U, Null)
    OBVIOUS
  <2> QED BY <2>1, FirstsOfTable
<1>2. /\ L \in Seq(Item) /\ U \in Seq(Item) /\ Distinct(L) /\ Distinct(U) /\ Apart(L, U)
      /\ Linked(t.free, t.next, U)
  BY DEF InTable
<1>3. /\ R \in Seq(Item) /\ Len(R) = n - 1
      /\ \A j \in 1 .. n - 1 : R[j] = IF j < k THEN L[j] ELSE L[j + 1]
  BY <1>2, RemovedAt, Zenon
<1>4. /\ Distinct(R) /\ ~In(i, R)
      /\ \A q : In(q, L) <=> q = i \/ In(q, R)
  BY <1>2, RemoveList, Zenon
<1>5. /\ before = (IF k = 1 THEN Null ELSE L[k - 1])
      /\ after = (IF k = n THEN Null ELSE L[k + 1])
      /\ i \in Item /\ i # Null /\ k \in 1 .. n
  BY <1>1
<1>6. /\ r \in TableType /\ r.free = t.free /\ r.ip = t.ip /\ r.mac = t.mac
      /\ r.first = (IF before = Null THEN after ELSE t.first)
      /\ r.last = (IF after = Null THEN before ELSE t.last)
      /\ \A q \in Item : r.next[q] = IF q = before THEN after ELSE t.next[q]
      /\ \A q \in Item : r.prev[q] = IF q = after THEN before ELSE t.prev[q]
  BY DEF UnchainedAs
<1> HIDE DEF n, i, R, before, after
<1>7. R = <<>> <=> n = 1
  BY <1>1, <1>3, <1>5, Empty
<1>8. r.first = IF R = <<>> THEN Null ELSE R[1]
  <2>1. CASE n = 1
    <3>1. k = 1
      BY <2>1, <1>5
    <3> QED BY <3>1, <2>1, <1>5, <1>6, <1>7
  <2>2. CASE n # 1 /\ k = 1
    <3>1. 1 \in 1 .. n - 1 /\ ~(1 < k) /\ 1 + 1 = 2 /\ k # n
      BY <2>2, <1>1, <1>5
    <3> QED BY <3>1, <2>2, <1>3, <1>5, <1>6, <1>7
  <2>3. CASE n # 1 /\ k # 1
    <3>1. 1 \in 1 .. n - 1 /\ 1 < k /\ k - 1 \in 1 .. n /\ n # 0
      BY <2>3, <1>1, <1>5
    <3>2. before # Null
      BY <3>1, <2>3, <1>1, <1>5
    <3> QED BY <3>1, <3>2, <2>3, <1>1, <1>3, <1>6, <1>7
  <2> QED BY <2>1, <2>2, <2>3
<1>9. EndsAt(R, r.last)
  <2>1. CASE n = 1
    <3>1. k = 1 /\ k = n
      BY <2>1, <1>5
    <3> QED BY <3>1, <2>1, <1>5, <1>6, <1>7 DEF EndsAt
  <2>2. CASE n # 1 /\ k = n
    <3>1. n - 1 \in 1 .. n - 1 /\ n - 1 < k /\ k # 1 /\ k - 1 = n - 1
      BY <2>2, <1>1, <1>5
    <3> QED BY <3>1, <2>2, <1>3, <1>5, <1>6, <1>7 DEF EndsAt
  <2>3. CASE n # 1 /\ k # n
    <3>1. n - 1 \in 1 .. n - 1 /\ ~(n - 1 < k) /\ n - 1 + 1 = n /\ k + 1 \in 1 .. n /\ n # 0
      BY <2>3, <1>1, <1>5
    <3>2. after # Null
      BY <3>1, <2>3, <1>1, <1>5
    <3> QED BY <3>1, <3>2, <2>3, <1>1, <1>3, <1>6, <1>7 DEF EndsAt
  <2> QED BY <2>1, <2>2, <2>3
<1>10. ASSUME NEW j \in 1 .. n - 1
       PROVE  /\ r.next[R[j]] = IF j = n - 1 THEN Null ELSE R[j + 1]
              /\ r.prev[R[j]] = IF j = 1 THEN Null ELSE R[j - 1]
  <2>0. j \in Int /\ n \in Int /\ k \in Int /\ 1 <= j /\ j <= n - 1 /\ 1 <= k /\ k <= n
    BY <1>1, <1>5
  <2>1. CASE j < k
    <3>1. R[j] = L[j] /\ j \in 1 .. n /\ L[j] \in Item /\ j # n
      BY <2>0, <2>1, <1>1, <1>3
    <3>2. L[j] # after
      <4>1. CASE k = n
        BY <4>1, <3>1, <1>1, <1>5
      <4>2. CASE k # n
        <5>1. k + 1 \in 1 .. n /\ j # k + 1
          BY <4>2, <2>0, <2>1
        <5> QED BY <5>1, <4>2, <3>1, <1>1, <1>5
      <4> QED BY <4>1, <4>2
    <3>3. r.prev[R[j]] = IF j = 1 THEN Null ELSE R[j - 1]
      <4>1. j # 1 => j - 1 \in 1 .. n - 1 /\ j - 1 < k
        BY <2>0, <2>1
      <4>2. r.prev[R[j]] = t.prev[L[j]]
        BY <3>1, <3>2, <1>6
      <4>3. t.prev[L[j]] = IF j = 1 THEN Null ELSE L[j - 1]
        BY <3>1, <1>1
      <4>4. j # 1 => R[j - 1] = L[j - 1]
        BY <4>1, <1>3
      <4> QED BY <4>2, <4>3, <4>4
    <3>4. CASE j = k - 1
      <4>1. L[j] = before
        BY <3>4, <2>0, <1>5
      <4>2. r.next[R[j]] = after
        BY <4>1, <3>1, <1>6
      <4>3. CASE k = n
        BY <4>2, <4>3, <3>4, <3>3, <1>5
      <4>4. CASE k # n
        <5>1. j + 1 \in 1 .. n - 1 /\ ~(j + 1 < k) /\ j + 1 = k /\ j # n - 1
          BY <4>4, <3>4, <2>0
        <5>2. R[j + 1] = L[k + 1]
          BY <5>1, <1>3
        <5> QED BY <5>1, <5>2, <4>2, <4>4, <3>3, <1>5
      <4> QED BY <4>3, <4>4
    <3>5. CASE j # k - 1
      <4>1. j + 1 \in 1 .. n - 1 /\ j + 1 < k /\ j # n - 1
        BY <3>5, <2>0, <2>1
      <4>2. L[j] # before
        <5>1. CASE k = 1
          BY <5>1, <2>0, <2>1
        <5>2. CASE k # 1
          <6>1. k - 1 \in 1 .. n
            BY <5>2, <2>0
          <6> QED BY <6>1, <5>2, <3>1, <3>5, <1>1, <1>5
        <5> QED BY <5>1, <5>2
      <4>3. r.next[R[j]] = L[j + 1]
        BY <4>2, <3>1, <1>1, <1>6, ZenonT(60)
      <4> QED BY <4>1, <4>3, <3>3, <1>3
    <3> QED BY <3>4, <3>5
  <2>2. CASE ~(j < k)
    <3>1. R[j] = L[j + 1] /\ j + 1 \in 1 .. n /\ L[j + 1] \in Item /\ j + 1 # 1
      BY <2>0, <2>2, <1>1, <1>3
    <3>2. L[j + 1] # before
      <4>1. CASE k = 1
        BY <4>1, <3>1, <1>1, <1>5
      <4>2. CASE k # 1
        <5>1. k - 1 \in 1 .. n /\ j + 1 # k - 1
          BY <4>2, <2>0, <2>2
        <5> QED BY <5>1, <4>2, <3>1, <1>1, <1>5
      <4> QED BY <4>1, <4>2
    <3>3. r.next[R[j]] = IF j = n - 1 THEN Null ELSE R[j + 1]
      <4>1. r.next[R[j]] = IF j + 1 = n THEN Null ELSE L[j + 1 + 1]
        BY <3>1, <3>2, <1>1, <1>6, SMTT(40)
      <4>2. j + 1 = n <=> j = n - 1
        BY <2>0
      <4>3. j # n - 1 => j + 1 \in 1 .. n - 1 /\ ~(j + 1 < k)
        BY <2>0, <2>2
      <4> QED BY <4>1, <4>2, <4>3, <1>3
    <3>4. CASE j = k
      <4>1. L[j + 1] = after
        BY <3>4, <2>0, <1>5
      <4>2. r.prev[R[j]] = before
        BY <4>1, <3>1, <1>6
      <4>3. CASE k = 1
        BY <4>2, <4>3, <3>4, <3>3, <1>5
      <4>4. CASE k # 1
        <5>1. j - 1 \in 1 .. n - 1 /\ j - 1 < k /\ j - 1 = k - 1 /\ j # 1
          BY <4>4, <3>4, <2>0
        <5>2. R[j - 1] = L[k - 1]
          BY <5>1, <1>3
        <5> QED BY <5>1, <5>2, <4>2, <4>4, <3>3, <1>5
      <4> QED BY <4>3, <4>4
    <3>5. CASE j # k
      <4>1. j - 1 \in 1 .. n - 1 /\ ~(j - 1 < k) /\ j # 1 /\ j - 1 + 1 = j /\ j + 1 - 1 = j
        BY <3>5, <2>0, <2>2
      <4>2. L[j + 1] # after
        <5>1. CASE k = n
          BY <5>1, <2>0, <2>2
        <5>2. CASE k # n
          <6>1. k + 1 \in 1 .. n /\ k + 1 # j + 1
            BY <5>2, <3>5, <2>0
          <6> QED BY <6>1, <5>2, <3>1, <1>1, <1>5
        <5> QED BY <5>1, <5>2
      <4>3. r.prev[R[j]] = L[j]
        <5>1. r.prev[R[j]] = t.prev[L[j + 1]]
          BY <4>2, <3>1, <1>6
        <5>2. t.prev[L[j + 1]] = IF j + 1 = 1 THEN Null ELSE L[j + 1 - 1]
          BY <3>1, <1>1
        <5> QED BY <5>1, <5>2, <4>1, <3>1
      <4>4. R[j - 1] = L[j]
        BY <4>1, <1>3
      <4> QED BY <4>1, <4>3, <4>4, <3>3
    <3> QED BY <3>4, <3>5
  <2> QED BY <2>0, <2>1, <2>2
<1>11. Linked(r.first, r.next, R)
  BY <1>3, <1>8, <1>10 DEF Linked
<1>12. Linked(r.free, r.next, U)
  <2>1. ASSUME NEW j \in 1 .. Len(U) PROVE r.next[U[j]] = t.next[U[j]]
    <3>1. U[j] \in Item /\ U[j] # Null
      BY <1>2, InList, Items0
    <3>2. \A l \in 1 .. n : L[l] # U[j]
      BY <1>2 DEF Apart, n
    <3>3. U[j] # before
      <4>1. k # 1 => k - 1 \in 1 .. n
        BY <1>1, <1>5
      <4> QED BY <4>1, <3>1, <3>2, <1>5
    <3> QED BY <3>1, <3>3, <1>6
  <2> QED BY <2>1, <1>2, <1>6, LinkedKept
<1>13. Apart(R, U) /\ ~In(i, U)
  <2>1. ~ \E q : In(q, L) /\ In(q, U)
    BY <1>2, ApartIn
  <2>2. In(i, L)
    BY <1>4
  <2> QED BY <2>1, <2>2, <1>4, ApartIn
<1>14. \A q \in Item : q = i \/ In(q, R) \/ In(q, U)
  <2>1. \A q \in Item : q = Null \/ In(q, L) \/ In(q, U)
    BY DEF InTable
  <2> QED BY <2>1, <1>4, Items0
<1>15. Len(R) + Len(U) = MaxItems - (IF i \in Item THEN 1 ELSE 0)
  <2>1. n + Len(U) = MaxItems /\ Len(U) \in Nat
    BY TableSizes DEF n
  <2> QED BY <2>1, <1>1, <1>3, <1>5, Sizes
<1>16. /\ \A j \in 1 .. Len(R) : r.ip[R[j]] \in Ip /\ r.mac[R[j]] \in Mac
       /\ \A j, l \in 1 .. Len(R) : r.mac[R[j]] = r.mac[R[l]] => j = l
  <2>1. /\ \A j \in 1 .. n : t.ip[L[j]] \in Ip /\ t.mac[L[j]] \in Mac
        /\ \A j, l \in 1 .. n : t.mac[L[j]] = t.mac[L[l]] => j = l
    BY DEF InTable, n
  <2> DEFINE On(j) == IF j < k THEN j ELSE j + 1
  <2>2. \A j \in 1 .. n - 1 : R[j] = L[On(j)] /\ On(j) \in 1 .. n
    BY <1>1, <1>3, <1>5
  <2>3. \A j, l \in 1 .. n - 1 : On(j) = On(l) => j = l
    BY <1>1, <1>5
  <2> HIDE DEF On
  <2>4. \A j \in 1 .. n - 1 : r.ip[R[j]] \in Ip /\ r.mac[R[j]] \in Mac
    BY <2>1, <2>2, <1>6
  <2>5. ASSUME NEW j \in 1 .. n - 1, NEW l \in 1 .. n - 1, r.mac[R[j]] = r.mac[R[l]]
        PROVE  j = l
    <3>1. t.mac[L[On(j)]] = t.mac[L[On(l)]] /\ On(j) \in 1 .. n /\ On(l) \in 1 .. n
      BY <2>2, <2>5, <1>6
    <3>2. On(j) = On(l)
      BY <3>1, <2>1
    <3> QED BY <3>2, <2>3
  <2> QED BY <2>4, <2>5, <1>3
<1> QED BY <1>2, <1>3, <1>4, <1>6, <1>9, <1>10, <1>11, <1>12, <1>13, <1>14, <1>15, <1>16
        DEF InTable, R, i


\* What AddAsFirst changes.
FirstAs(t, i, ip, r) ==
  /\ r \in TableType
  /\ r.free = t.free /\ r.mac = t.mac /\ r.first = i
  /\ r.last = (IF t.last = Null THEN i ELSE t.last)
  /\ r.ip = [t.ip EXCEPT ![i] = ip] /\ r.next = [t.next EXCEPT ![i] = t.first]
  /\ \A q \in Item : r.prev[q] = IF q = t.first THEN i ELSE IF q = i THEN Null ELSE t.prev[q]

\* AddAsFirst, member by member.
LEMMA AddFirstFields ==
  ASSUME NEW t \in TableType, NEW i \in Item, NEW ip \in Ip
  PROVE  FirstAs(t, i, ip, AddAsFirst(t, i, ip))
<1> DEFINE l == [t EXCEPT !.ip[i] = ip, !.next[i] = t.first, !.prev[i] = Null]
           b == IF t.first # Null THEN [l EXCEPT !.prev[t.first] = i] ELSE l
           r == [b EXCEPT !.first = i, !.last = IF t.last = Null THEN i ELSE t.last]
<1>1. /\ t.first \in TableRange /\ t.last \in TableRange /\ i \in TableRange /\ Null \in TableRange
      /\ t.prev \in [Item -> TableRange] /\ t.next \in [Item -> TableRange]
      /\ t.ip \in [Item -> Ip \cup {NoIp}]
  BY TableFields, Items0
<1>2. /\ l \in TableType
      /\ l.free = t.free /\ l.mac = t.mac /\ l.first = t.first /\ l.last = t.last
      /\ l.ip = [t.ip EXCEPT ![i] = ip] /\ l.next = [t.next EXCEPT ![i] = t.first]
      /\ l.prev = [t.prev EXCEPT ![i] = Null]
  <2>1. l \in TableType
    BY <1>1 DEF TableType
  <2> QED BY <2>1 DEF TableType
<1> HIDE DEF l
<1>3. /\ b \in TableType
      /\ b.free = t.free /\ b.mac = t.mac /\ b.first = t.first /\ b.last = t.last
      /\ b.ip = l.ip /\ b.next = l.next
      /\ \A q \in Item : b.prev[q] = IF q = t.first THEN i ELSE IF q = i THEN Null ELSE t.prev[q]
  <2>1. CASE t.first # Null
    <3> DEFINE c == [l EXCEPT !.prev[t.first] = i]
    <3>1. t.first \in Item
      BY <2>1, <1>1, Items0
    <3>2. c \in TableType
      BY <3>1, <1>1, <1>2 DEF TableType
    <3>3. /\ c.free = l.free /\ c.mac = l.mac /\ c.first = l.first /\ c.last = l.last
          /\ c.ip = l.ip /\ c.next = l.next /\ c.prev = [l.prev EXCEPT ![t.first] = i]
      BY <1>2 DEF TableType
    <3>4. b = c
      BY <2>1
    <3> HIDE DEF b, c
    <3>5. \A q \in Item : c.prev[q] = IF q = t.first THEN i ELSE IF q = i THEN Null ELSE t.prev[q]
      BY <3>1, <3>3, <1>1, <1>2
    <3> QED BY <3>2, <3>3, <3>4, <3>5, <1>2
  <2>2. CASE t.first = Null
    <3>1. b = l
      BY <2>2
    <3>2. \A q \in Item : q # t.first
      BY <2>2, Items0
    <3> HIDE DEF b
    <3>3. \A q \in Item : l.prev[q] = IF q = i THEN Null ELSE t.prev[q]
      BY <1>1, <1>2
    <3> QED BY <3>1, <3>2, <3>3, <1>2
  <2> QED BY <2>1, <2>2
<1>4. AddAsFirst(t, i, ip) = r
  <2>1. AddAsFirst(t, i, ip) = [b EXCEPT !.first = i, !.last = IF t.last = Null THEN i ELSE @]
    BY DEF AddAsFirst, l
  <2> HIDE DEF b
  <2> QED BY <2>1, <1>3 DEF TableType
<1> HIDE DEF b
<1>5. r \in TableType
  BY <1>1, <1>3 DEF TableType
<1>6. /\ r.free = b.free /\ r.mac = b.mac /\ r.first = i
      /\ r.last = (IF t.last = Null THEN i ELSE t.last)
      /\ r.ip = b.ip /\ r.next = b.next /\ r.prev = b.prev
  BY <1>3 DEF TableType
<1> HIDE DEF r
<1>7. FirstAs(t, i, ip, r)
  BY <1>2, <1>3, <1>5, <1>6 DEF FirstAs
<1> QED BY <1>4, <1>7

\* AddAsFirst puts the item in hand before the list, when no other item has its address.
LEMMA AddFirstTable ==
  ASSUME NEW t, NEW L, NEW U, NEW i \in Item, NEW ip \in Ip, InTable(t, L, U, i),
         t.mac[i] \in Mac, \A k \in 1 .. Len(L) : t.mac[L[k]] # t.mac[i],
         NEW r, FirstAs(t, i, ip, r)
  PROVE  InTable(r, <<i>> \o L, U, Null)
<1> DEFINE n == Len(L)
           R == <<i>> \o L
<1>1. /\ n \in Nat /\ \A j \in 1 .. n : L[j] \in Item /\ L[j] # Null
      /\ \A j, k \in 1 .. n : L[j] = L[k] => j = k
      /\ t.first = (IF n = 0 THEN Null ELSE L[1])
      /\ t.last = (IF n = 0 THEN Null ELSE L[n])
      /\ \A j \in 1 .. n : t.prev[L[j]] = IF j = 1 THEN Null ELSE L[j - 1]
  <2>1. InTable(t, L, U, i)
    OBVIOUS
  <2> QED BY <2>1, FirstsOfTable
<1>2. /\ L \in Seq(Item) /\ U \in Seq(Item) /\ Distinct(L) /\ Distinct(U) /\ Apart(L, U)
      /\ Linked(t.free, t.next, U) /\ Linked(t.first, t.next, L) /\ ~In(i, L) /\ ~In(i, U)
      /\ t \in TableType
  BY DEF InTable
<1>3. /\ t.next \in [Item -> TableRange] /\ t.ip \in [Item -> Ip \cup {NoIp}] /\ i # Null
  BY <1>2, TableFields, Items0
<1>4. /\ r \in TableType
      /\ r.free = t.free /\ r.mac = t.mac /\ r.first = i
      /\ r.last = (IF t.last = Null THEN i ELSE t.last)
      /\ r.ip = [t.ip EXCEPT ![i] = ip] /\ r.next = [t.next EXCEPT ![i] = t.first]
      /\ \A q \in Item : r.prev[q] = IF q = t.first THEN i ELSE IF q = i THEN Null ELSE t.prev[q]
  BY DEF FirstAs
<1>5. /\ R \in Seq(Item) /\ Len(R) = n + 1 /\ Distinct(R)
      /\ \A q : In(q, R) <=> q = i \/ In(q, L)
  BY <1>2, ConsList
<1>6. R[1] = i /\ \A j \in 2 .. n + 1 : R[j] = L[j - 1]
  BY <1>2
<1>7. \A j \in 1 .. n : L[j] # i
  BY <1>2 DEF In
<1> HIDE DEF n, R
<1>8. Linked(i, r.next, R)
  <2>1. \A j \in 1 .. Len(L) : r.next[L[j]] = t.next[L[j]]
    BY <1>1, <1>3, <1>4, <1>7 DEF n
  <2>2. r.next[i] = t.first
    BY <1>3, <1>4
  <2> QED BY <2>1, <2>2, <1>2, LinkedCons DEF R
<1>9. Linked(r.free, r.next, U)
  <2>1. ASSUME NEW j \in 1 .. Len(U) PROVE r.next[U[j]] = t.next[U[j]]
    <3>1. U[j] \in Item /\ U[j] # i
      BY <1>2, InList DEF In
    <3> QED BY <3>1, <1>3, <1>4
  <2> QED BY <2>1, <1>2, <1>4, LinkedKept
<1>10. EndsAt(R, r.last)
  <2>1. R # <<>>
    BY <1>1, <1>5, Empty
  <2>2. CASE n = 0
    BY <2>1, <2>2, <1>1, <1>4, <1>5, <1>6 DEF EndsAt
  <2>3. CASE n # 0
    <3>1. n \in 1 .. n /\ n + 1 \in 2 .. n + 1 /\ n + 1 - 1 = n
      BY <2>3, <1>1
    <3>2. t.last = L[n] /\ t.last # Null
      BY <3>1, <2>3, <1>1
    <3> QED BY <2>1, <3>1, <3>2, <1>4, <1>5, <1>6 DEF EndsAt
  <2> QED BY <2>2, <2>3
<1>11. ASSUME NEW j \in 1 .. n + 1
       PROVE  r.prev[R[j]] = IF j = 1 THEN Null ELSE R[j - 1]
  <2>1. CASE j = 1
    <3>1. i # t.first
      <4>1. n # 0 => 1 \in 1 .. n
        BY <1>1
      <4> QED BY <4>1, <1>1, <1>3, <1>7
    <3> QED BY <2>1, <3>1, <1>4, <1>6
  <2>2. CASE j = 2
    <3>1. n # 0 /\ 1 \in 1 .. n /\ j \in 2 .. n + 1 /\ j - 1 = 1 /\ j # 1
      BY <2>2, <1>1
    <3>2. R[j] = L[1] /\ L[1] = t.first /\ L[1] \in Item
      BY <3>1, <1>1, <1>6
    <3>3. r.prev[R[j]] = i
      BY <3>2, <1>4
    <3> QED BY <3>1, <3>3, <1>6
  <2>3. CASE j # 1 /\ j # 2
    <3>1. j \in 2 .. n + 1 /\ j - 1 \in 2 .. n + 1 /\ j - 1 \in 1 .. n /\ j - 1 # 1 /\ n # 0
          /\ 1 \in 1 .. n
      BY <2>3, <1>1
    <3>2. R[j] = L[j - 1] /\ R[j - 1] = L[j - 1 - 1]
      BY <3>1, <1>6
    <3>3. L[j - 1] # t.first /\ L[j - 1] # i /\ L[j - 1] \in Item
      BY <3>1, <1>1, <1>7
    <3>4. r.prev[R[j]] = t.prev[L[j - 1]]
      BY <3>2, <3>3, <1>4
    <3>5. t.prev[L[j - 1]] = L[j - 1 - 1]
      BY <3>1, <1>1
    <3> QED BY <2>3, <3>2, <3>4, <3>5
  <2> QED BY <2>1, <2>2, <2>3
<1>12. Apart(R, U) /\ ~In(Null, R) /\ ~In(Null, U)
  <2>1. ~ \E q : In(q, L) /\ In(q, U)
    BY <1>2, ApartIn
  <2>2. ~ \E q : In(q, R) /\ In(q, U)
    BY <2>1, <1>2, <1>5
  <2>3. \A q : (In(q, R) => q \in Item) /\ (In(q, U) => q \in Item)
    BY <1>2, <1>5, InList
  <2> QED BY <2>2, <2>3, ApartIn, Items0
<1>13. \A q \in Item : q = Null \/ In(q, R) \/ In(q, U)
  <2>1. \A q \in Item : q = i \/ In(q, L) \/ In(q, U)
    BY DEF InTable
  <2> QED BY <2>1, <1>5
<1>14. Len(R) + Len(U) = MaxItems - (IF Null \in Item THEN 1 ELSE 0)
  <2>1. n + Len(U) = MaxItems - 1 /\ Len(U) \in Nat
    BY TableSizes DEF n
  <2> QED BY <2>1, <1>1, <1>5, Sizes, Items0
<1>15. /\ \A j \in 1 .. n + 1 : r.ip[R[j]] \in Ip /\ r.mac[R[j]] \in Mac
       /\ \A j, k \in 1 .. n + 1 : r.mac[R[j]] = r.mac[R[k]] => j = k
  <2>1. /\ \A j \in 1 .. n : t.ip[L[j]] \in Ip /\ t.mac[L[j]] \in Mac /\ t.mac[L[j]] # t.mac[i]
        /\ \A j, k \in 1 .. n : t.mac[L[j]] = t.mac[L[k]] => j = k
    BY DEF InTable, n
  <2>2. ASSUME NEW j \in 1 .. n + 1 PROVE j = 1 \/ (j \in 2 .. n + 1 /\ j - 1 \in 1 .. n)
    BY <1>1
  <2>3. r.ip[i] = ip /\ \A q \in Item : q # i => r.ip[q] = t.ip[q]
    BY <1>3, <1>4
  <2>4. ASSUME NEW j \in 1 .. n + 1 PROVE r.ip[R[j]] \in Ip /\ r.mac[R[j]] \in Mac
    <3>1. CASE j = 1
      BY <3>1, <2>3, <1>4, <1>6
    <3>2. CASE j \in 2 .. n + 1 /\ j - 1 \in 1 .. n
      BY <3>2, <2>1, <2>3, <1>1, <1>4, <1>6, <1>7
    <3> QED BY <3>1, <3>2, <2>2
  <2>5. ASSUME NEW j \in 1 .. n + 1, NEW k \in 1 .. n + 1, r.mac[R[j]] = r.mac[R[k]]
        PROVE  j = k
    <3>1. CASE j = 1 /\ k = 1
      BY <3>1
    <3>2. CASE j = 1 /\ k # 1
      <4>1. k \in 2 .. n + 1 /\ k - 1 \in 1 .. n
        BY <3>2, <2>2
      <4> QED BY <4>1, <3>2, <2>1, <2>5, <1>4, <1>6
    <3>3. CASE j # 1 /\ k = 1
      <4>1. j \in 2 .. n + 1 /\ j - 1 \in 1 .. n
        BY <3>3, <2>2
      <4> QED BY <4>1, <3>3, <2>1, <2>5, <1>4, <1>6
    <3>4. CASE j # 1 /\ k # 1
      <4>1. j \in 2 .. n + 1 /\ j - 1 \in 1 .. n /\ k \in 2 .. n + 1 /\ k - 1 \in 1 .. n
        BY <3>4, <2>2
      <4>2. t.mac[L[j - 1]] = t.mac[L[k - 1]]
        BY <4>1, <2>5, <1>4, <1>6
      <4>3. j - 1 = k - 1
        BY <4>1, <4>2, <2>1
      <4> QED BY <4>3
    <3> QED BY <3>1, <3>2, <3>3, <3>4
  <2> QED BY <2>4, <2>5
<1>16. Linked(r.first, r.next, R)
  BY <1>4, <1>8
<1> HIDE DEF InTable
<1>17. InTable(r, R, U, Null)
  BY <1>2, <1>4, <1>5, <1>9, <1>10, <1>11, <1>12, <1>13, <1>14, <1>15, <1>16 DEF InTable
<1> QED BY <1>17 DEF R


\* The members of the item in hand are set.
SetItem(t, i, mac) == [t EXCEPT !.mac[i] = mac, !.prev[i] = Null, !.next[i] = Null]

\* What that changes.
SetAs(t, i, mac, r) == r.mac = [t.mac EXCEPT ![i] = mac] /\ r.ip = t.ip

\* The item in hand gets its hardware address.
LEMMA HandTable ==
  ASSUME NEW t, NEW L, NEW U, NEW i \in Item, NEW mac \in Mac, InTable(t, L, U, i)
  PROVE  /\ InTable(SetItem(t, i, mac), L, U, i)
         /\ SetAs(t, i, mac, SetItem(t, i, mac))
<1> DEFINE r == [t EXCEPT !.mac[i] = mac, !.prev[i] = Null, !.next[i] = Null]
<1>1. /\ t \in TableType /\ L \in Seq(Item) /\ U \in Seq(Item) /\ ~In(i, L) /\ ~In(i, U)
      /\ Linked(t.first, t.next, L) /\ Linked(t.free, t.next, U) /\ EndsAt(L, t.last)
      /\ \A k \in 1 .. Len(L) : t.prev[L[k]] = IF k = 1 THEN Null ELSE L[k - 1]
      /\ \A k \in 1 .. Len(L) : t.ip[L[k]] \in Ip /\ t.mac[L[k]] \in Mac
      /\ \A j, k \in 1 .. Len(L) : t.mac[L[j]] = t.mac[L[k]] => j = k
  BY DEF InTable
<1>2. /\ t.prev \in [Item -> TableRange] /\ t.next \in [Item -> TableRange]
      /\ t.mac \in [Item -> Mac \cup {NoMac}] /\ Null \in TableRange
  BY <1>1, TableFields, Items0
<1>3. r \in TableType
  BY <1>1, <1>2 DEF TableType
<1>4. /\ r.first = t.first /\ r.last = t.last /\ r.free = t.free /\ r.ip = t.ip
      /\ r.mac = [t.mac EXCEPT ![i] = mac]
      /\ r.prev = [t.prev EXCEPT ![i] = Null] /\ r.next = [t.next EXCEPT ![i] = Null]
  BY <1>1 DEF TableType
<1> HIDE DEF r
<1>5. /\ \A k \in 1 .. Len(L) : L[k] \in Item /\ L[k] # i
      /\ \A k \in 1 .. Len(U) : U[k] \in Item /\ U[k] # i
  BY <1>1, InList DEF In
<1>6. Linked(r.first, r.next, L) /\ Linked(r.free, r.next, U)
  <2>1. \A q \in Item : q # i => r.next[q] = t.next[q]
    BY <1>2, <1>4
  <2>2. Linked(t.first, r.next, L)
    BY <2>1, <1>1, <1>5, LinkedKept
  <2>3. Linked(t.free, r.next, U)
    BY <2>1, <1>1, <1>5, LinkedKept
  <2> QED BY <2>2, <2>3, <1>4
<1>7. \A k \in 1 .. Len(L) : r.prev[L[k]] = t.prev[L[k]] /\ r.mac[L[k]] = t.mac[L[k]]
  BY <1>2, <1>4, <1>5
<1>8. InTable(r, L, U, i)
  BY <1>1, <1>3, <1>4, <1>6, <1>7 DEF InTable
<1>9. SetItem(t, i, mac) = r
  BY DEF SetItem, r
<1> QED BY <1>4, <1>8, <1>9 DEF SetAs

\* An unused item is taken.
LEMMA FreeTable ==
  ASSUME NEW t, NEW L, NEW U, InTable(t, L, U, Null), t.free # Null
  PROVE  LET r == [t EXCEPT !.free = t.next[t.free]]
         IN /\ U # <<>> /\ t.free = U[1] /\ U[1] \in Item
            /\ InTable(r, L, Tail(U), U[1]) /\ r.mac = t.mac /\ r.ip = t.ip
<1> DEFINE r == [t EXCEPT !.free = t.next[t.free]]
           i == U[1]
           V == Tail(U)
<1>1. /\ t \in TableType /\ L \in Seq(Item) /\ U \in Seq(Item)
      /\ Distinct(L) /\ Distinct(U) /\ Apart(L, U)
      /\ Linked(t.first, t.next, L) /\ Linked(t.free, t.next, U) /\ EndsAt(L, t.last)
      /\ \A k \in 1 .. Len(L) : t.prev[L[k]] = IF k = 1 THEN Null ELSE L[k - 1]
      /\ \A k \in 1 .. Len(L) : t.ip[L[k]] \in Ip /\ t.mac[L[k]] \in Mac
      /\ \A j, k \in 1 .. Len(L) : t.mac[L[j]] = t.mac[L[k]] => j = k
      /\ \A q \in Item : q = Null \/ In(q, L) \/ In(q, U)
  BY DEF InTable
<1>2. U # <<>> /\ t.free = i /\ i \in Item
  <2>1. /\ Null \notin Item /\ U \in Seq(Item)
        /\ t.free = IF U = <<>> THEN Null ELSE U[1]
    BY <1>1, Items0 DEF Linked
  <2> HIDE DEF i
  <2>2. U # <<>> /\ t.free = U[1]
    BY <2>1
  <2>3. U[1] \in Item
    BY <2>1, <2>2, Empty, Sizes
  <2> QED BY <2>2, <2>3 DEF i
<1>3. t.next[t.free] \in TableRange
  BY <1>1, <1>2, TableFields
<1>4. r \in TableType
  BY <1>1, <1>3 DEF TableType
<1>5. /\ r.first = t.first /\ r.last = t.last /\ r.ip = t.ip /\ r.mac = t.mac
      /\ r.prev = t.prev /\ r.next = t.next /\ r.free = t.next[t.free]
  BY <1>1 DEF TableType
<1> HIDE DEF r, i, V
<1>6. /\ V \in Seq(Item) /\ Len(V) = Len(U) - 1 /\ Distinct(V) /\ ~In(i, V)
      /\ \A q : In(q, U) <=> q = i \/ In(q, V)
  BY <1>1, <1>2, TailList DEF V, i
<1>7. Linked(r.free, r.next, V)
  BY <1>1, <1>2, <1>5, LinkedTail DEF V
<1>8. Apart(L, V) /\ ~In(i, L)
  <2>1. ~ \E q : In(q, L) /\ In(q, U)
    BY <1>1, ApartIn
  <2> QED BY <2>1, <1>6, ApartIn
<1>9. Len(L) + Len(V) = MaxItems - (IF i \in Item THEN 1 ELSE 0)
  <2>1. Len(L) + Len(U) = MaxItems /\ Len(L) \in Nat /\ Len(U) \in Nat
    BY TableSizes
  <2> QED BY <2>1, <1>2, <1>6, Sizes
<1>10. \A q \in Item : q = i \/ In(q, L) \/ In(q, V)
  BY <1>1, <1>6, Items0
<1>11. InTable(r, L, V, i)
  BY <1>1, <1>4, <1>5, <1>6, <1>7, <1>8, <1>9, <1>10 DEF InTable
<1> QED BY <1>2, <1>5, <1>11 DEF r, i, V

\* What CreateNewItem leaves, when N is the list without the item.
CreatedAs(t, N, mac, r, i) ==
  /\ i \in Item
  /\ \E V : InTable(r, N, V, i)
  /\ r.mac = [t.mac EXCEPT ![i] = mac] /\ r.ip = t.ip

\* CreateNewItem takes an unused item, or the last of the list when all are in use.
LEMMA CreateTable ==
  ASSUME NEW t, NEW L, NEW U, NEW mac \in Mac, InTable(t, L, U, Null)
  PROVE  \/ Len(L) < MaxItems /\ CreatedAs(t, L, mac, CreateNewItem(t, mac), NewItem(t))
         \/ /\ Len(L) = MaxItems
            /\ CreatedAs(t, RemoveAt(L, Len(L)), mac, CreateNewItem(t, mac), NewItem(t))
<1> DEFINE n == Len(L)
           i == NewItem(t)
           Set(x) == SetItem(x, i, mac)
<1>1. /\ n \in Nat /\ Len(U) \in Nat /\ n + Len(U) = MaxItems
      /\ L \in Seq(Item) /\ U \in Seq(Item) /\ t \in TableType
  BY TableSizes DEF InTable
<1>2. CASE t.free # Null
  <2> DEFINE u == [t EXCEPT !.free = t.next[t.free]]
  <2>1. /\ U # <<>> /\ t.free = U[1] /\ U[1] \in Item
        /\ InTable(u, L, Tail(U), U[1]) /\ u.mac = t.mac /\ u.ip = t.ip
    BY <1>2, FreeTable
  <2>2. i = U[1]
    BY <1>2, <2>1 DEF NewItem
  <2>3. CreateNewItem(t, mac) = Set(u)
    BY <1>2 DEF CreateNewItem, NewItem, SetItem
  <2>4. n < MaxItems
    <3>1. Len(U) # 0
      BY <1>1, <2>1, Empty
    <3> QED BY <3>1, <1>1, Sizes
  <2> HIDE DEF u, i
  <2>5. InTable(Set(u), L, Tail(U), i) /\ Set(u).mac = [t.mac EXCEPT ![i] = mac] /\ Set(u).ip = t.ip
    <3>1. i \in Item /\ InTable(u, L, Tail(U), i)
      BY <2>1, <2>2
    <3>2. /\ InTable(SetItem(u, i, mac), L, Tail(U), i)
          /\ SetAs(u, i, mac, SetItem(u, i, mac))
      BY <3>1, HandTable, Zenon
    <3>3. Set(u) = SetItem(u, i, mac)
      OBVIOUS
    <3> HIDE DEF Set
    <3> QED BY <3>2, <3>3, <2>1 DEF SetAs
  <2> HIDE DEF Set
  <2>6. CreatedAs(t, L, mac, Set(u), i)
    BY <2>1, <2>2, <2>5 DEF CreatedAs
  <2> QED BY <2>3, <2>4, <2>6 DEF i
<1>3. CASE t.free = Null
  <2>1. n = MaxItems /\ n \in 1 .. n /\ n - 1 \in 1 .. n /\ n # 1
    <3>1. U = <<>>
      <4>1. Null \notin Item /\ Linked(t.free, t.next, U)
        BY Items0 DEF InTable
      <4> QED BY <4>1, <1>1, <1>3, FirstOf
    <3> QED BY <3>1, <1>1, Sizes
  <2>2. t.last = L[n] /\ L[n] \in Item /\ t.prev[L[n]] = L[n - 1] /\ L[n - 1] # Null
        /\ L[n - 1] \in Item /\ t.next[L[n]] = Null
    <3>1. InTable(t, L, U, Null)
      OBVIOUS
    <3>2. /\ n \in Nat /\ \A k \in 1 .. n : L[k] \in Item /\ L[k] # Null
          /\ t.last = (IF n = 0 THEN Null ELSE L[n])
          /\ \A k \in 1 .. n : t.next[L[k]] = IF k = n THEN Null ELSE L[k + 1]
          /\ \A k \in 1 .. n : t.prev[L[k]] = IF k = 1 THEN Null ELSE L[k - 1]
      BY <3>1, FirstsOfTable
    <3> HIDE DEF n
    <3>3. n # 0
      BY <2>1
    <3> QED BY <2>1, <3>2, <3>3
  <2>3. i = L[n]
    BY <1>3, <2>2 DEF NewItem
  <2> DEFINE before == t.prev[i]
             u == [t EXCEPT !.last = before, !.next[before] = Null]
  <2>4. CreateNewItem(t, mac) = Set(u)
    BY <1>3, <2>2, <2>3 DEF CreateNewItem, NewItem, SetItem
  <2>5. UnchainedAs(t, i, Unchain(t, i))
    BY <1>1, <2>2, <2>3, UnchainFields
  <2>6. Unchain(t, i) = u
    <3>1. before = L[n - 1] /\ before # Null /\ t.next[i] = Null
      BY <2>2, <2>3
    <3>2. Unchain(t, i) = [[t EXCEPT !.next[before] = Null] EXCEPT !.last = before]
      BY <3>1 DEF Unchain
    <3> HIDE DEF before, i
    <3> QED BY <3>2, <1>1 DEF TableType
  <2>7. InTable(u, RemoveAt(L, n), U, i)
    BY <2>1, <2>3, <2>5, <2>6, UnchainTable
  <2>8. u.mac = t.mac /\ u.ip = t.ip
    BY <1>1 DEF TableType
  <2> HIDE DEF u, i, n
  <2>9. InTable(Set(u), RemoveAt(L, n), U, i) /\ Set(u).mac = [t.mac EXCEPT ![i] = mac]
        /\ Set(u).ip = t.ip
    <3>1. i \in Item
      BY <2>2, <2>3
    <3>2. /\ InTable(SetItem(u, i, mac), RemoveAt(L, n), U, i)
          /\ SetAs(u, i, mac, SetItem(u, i, mac))
      BY <3>1, <2>7, HandTable, Zenon
    <3>3. Set(u) = SetItem(u, i, mac)
      OBVIOUS
    <3> HIDE DEF Set
    <3> QED BY <3>2, <3>3, <2>8 DEF SetAs
  <2> HIDE DEF Set
  <2>10. CreatedAs(t, RemoveAt(L, n), mac, Set(u), i)
    BY <2>2, <2>3, <2>9 DEF CreatedAs
  <2> QED BY <2>1, <2>4, <2>10 DEF i, n
<1> QED BY <1>2, <1>3

\* What the items in use hold, as a sequence of announcements.
LEMMA StationsSeq ==
  ASSUME NEW t, NEW L, NEW U, NEW h, InTable(t, L, U, h)
  PROVE  /\ Stations(t, L) \in Seq(Announcement) /\ Len(Stations(t, L)) = Len(L)
         /\ \A k \in 1 .. Len(L) : /\ Stations(t, L)[k] = [ip |-> t.ip[L[k]], mac |-> t.mac[L[k]]]
                                   /\ Stations(t, L)[k] \in Announcement
<1> DEFINE n == Len(L)
           f == [k \in 1 .. n |-> [ip |-> t.ip[L[k]], mac |-> t.mac[L[k]]]]
<1>1. n \in Nat
  BY TableSizes
<1>2. \A k \in 1 .. n : t.ip[L[k]] \in Ip /\ t.mac[L[k]] \in Mac
  BY DEF InTable
<1>3. \A k \in 1 .. n : [ip |-> t.ip[L[k]], mac |-> t.mac[L[k]]] \in Announcement
  BY <1>2 DEF Announcement
<1>4. f \in [1 .. n -> Announcement]
  BY <1>3
<1>5. f \in Seq(Announcement) /\ Len(f) = n
  BY <1>1, <1>4, SeqDef
<1>6. \A k \in 1 .. n : f[k] = [ip |-> t.ip[L[k]], mac |-> t.mac[L[k]]] /\ f[k] \in Announcement
  BY <1>3
<1>7. Stations(t, L) = f
  BY DEF Stations
<1> HIDE DEF f
<1> QED BY <1>5, <1>6, <1>7

\* The same without the item k.
LEMMA StationsRemoved ==
  ASSUME NEW t, NEW L, NEW U, NEW h, InTable(t, L, U, h), NEW k \in 1 .. Len(L)
  PROVE  RemoveAt(Stations(t, L), k) = Stations(t, RemoveAt(L, k))
<1> DEFINE M == Stations(t, L)
           R == RemoveAt(L, k)
           Q == RemoveAt(M, k)
           n == Len(L)
<1>1. n \in Nat /\ L \in Seq(Item)
  BY TableSizes DEF InTable
<1>2. /\ M \in Seq(Announcement) /\ Len(M) = n
      /\ \A j \in 1 .. n : M[j] = [ip |-> t.ip[L[j]], mac |-> t.mac[L[j]]]
  BY StationsSeq
<1>3. /\ RemoveAt(L, k) \in Seq(Item) /\ Len(RemoveAt(L, k)) = n - 1
      /\ \A j \in 1 .. n - 1 : RemoveAt(L, k)[j] = IF j < k THEN L[j] ELSE L[j + 1]
  BY <1>1, RemovedAt, Zenon
<1> HIDE DEF M, R
<1>4. /\ RemoveAt(M, k) \in Seq(Announcement) /\ Len(RemoveAt(M, k)) = Len(M) - 1
      /\ \A j \in 1 .. Len(M) - 1 : RemoveAt(M, k)[j] = IF j < k THEN M[j] ELSE M[j + 1]
  <2>1. k \in 1 .. Len(M)
    BY <1>2
  <2> QED BY <2>1, <1>2, RemovedAt, Zenon
<1> HIDE DEF Q
<1>5. Q \in Seq(Announcement) /\ Len(Q) = n - 1
      /\ \A j \in 1 .. n - 1 : Q[j] = IF j < k THEN M[j] ELSE M[j + 1]
  BY <1>2, <1>4 DEF Q
<1>6. R \in Seq(Item) /\ Len(R) = n - 1
      /\ \A j \in 1 .. n - 1 : R[j] = IF j < k THEN L[j] ELSE L[j + 1]
  BY <1>3 DEF R
<1>7. \A j \in 1 .. n - 1 : Q[j] = [ip |-> t.ip[R[j]], mac |-> t.mac[R[j]]]
  <2> SUFFICES ASSUME NEW j \in 1 .. n - 1
               PROVE  Q[j] = [ip |-> t.ip[R[j]], mac |-> t.mac[R[j]]]
    OBVIOUS
  <2> HIDE DEF n
  <2>1. CASE j < k
    <3>1. j \in 1 .. n
      BY <1>1
    <3> QED BY <2>1, <3>1, <1>2, <1>5, <1>6
  <2>2. CASE ~(j < k)
    <3>1. j + 1 \in 1 .. n
      BY <1>1
    <3> QED BY <2>2, <3>1, <1>2, <1>5, <1>6
  <2> QED BY <2>1, <2>2
<1>8. Q = [j \in 1 .. n - 1 |-> [ip |-> t.ip[R[j]], mac |-> t.mac[R[j]]]]
  <2> HIDE DEF n
  <2>1. Q = [j \in 1 .. Len(Q) |-> Q[j]]
    BY <1>5, LenProperties
  <2> QED BY <2>1, <1>5, <1>7
<1> QED BY <1>6, <1>8 DEF Stations, Q, R, M

\* The item at the head, and then the others.
LEMMA StationsFirst ==
  ASSUME NEW t, NEW N, NEW U, NEW i \in Item, InTable(t, N, U, i),
         NEW r, NEW ip \in Ip, NEW mac \in Mac, NEW V, InTable(r, <<i>> \o N, V, Null),
         r.ip = [t.ip EXCEPT ![i] = ip], r.mac = t.mac, t.mac[i] = mac
  PROVE  Stations(r, <<i>> \o N) = <<[ip |-> ip, mac |-> mac]>> \o Stations(t, N)
<1> DEFINE a == [ip |-> ip, mac |-> mac]
           M == Stations(t, N)
           P == <<i>> \o N
           n == Len(N)
           R == Stations(r, P)
           W == <<a>> \o M
<1>1. n \in Nat /\ N \in Seq(Item) /\ ~In(i, N) /\ t \in TableType
  BY TableSizes DEF InTable
<1>2. /\ M \in Seq(Announcement) /\ Len(M) = n
      /\ \A j \in 1 .. n : M[j] = [ip |-> t.ip[N[j]], mac |-> t.mac[N[j]]]
  BY StationsSeq
<1>3. P \in Seq(Item) /\ Len(P) = n + 1 /\ P[1] = i
      /\ \A j \in 1 .. n : P[j + 1] = N[j]
  <2>1. /\ <<i>> \in Seq(Item) /\ Len(<<i>>) = 1 /\ <<i>>[1] = i
    OBVIOUS
  <2>2. /\ P \in Seq(Item) /\ Len(P) = Len(<<i>>) + Len(N)
        /\ \A j \in 1 .. Len(<<i>>) + Len(N) :
             P[j] = IF j <= Len(<<i>>) THEN <<i>>[j] ELSE N[j - Len(<<i>>)]
    BY <2>1, <1>1, ConcatProperties
  <2> HIDE DEF P
  <2> QED BY <2>1, <2>2, <1>1
<1>4. /\ R \in Seq(Announcement) /\ Len(R) = Len(P)
      /\ \A j \in 1 .. Len(P) : R[j] = [ip |-> r.ip[P[j]], mac |-> r.mac[P[j]]]
  <2>1. InTable(r, P, V, Null)
    OBVIOUS
  <2> HIDE DEF P
  <2>2. /\ Stations(r, P) \in Seq(Announcement) /\ Len(Stations(r, P)) = Len(P)
        /\ \A k \in 1 .. Len(P) : /\ Stations(r, P)[k] = [ip |-> r.ip[P[k]], mac |-> r.mac[P[k]]]
                                  /\ Stations(r, P)[k] \in Announcement
    BY <2>1, StationsSeq, Zenon
  <2> QED BY <2>2
<1>5. a \in Announcement
  BY DEF Announcement
<1> HIDE DEF M, P, R, a
<1>6. W \in Seq(Announcement) /\ Len(W) = n + 1 /\ W[1] = a
      /\ \A j \in 1 .. n : W[j + 1] = M[j]
  <2>1. /\ <<a>> \in Seq(Announcement) /\ Len(<<a>>) = 1 /\ <<a>>[1] = a
    BY <1>5
  <2>2. /\ W \in Seq(Announcement) /\ Len(W) = Len(<<a>>) + Len(M)
        /\ \A j \in 1 .. Len(<<a>>) + Len(M) :
             W[j] = IF j <= Len(<<a>>) THEN <<a>>[j] ELSE M[j - Len(<<a>>)]
    BY <2>1, <1>2, ConcatProperties
  <2> HIDE DEF W
  <2> QED BY <2>1, <2>2, <1>1, <1>2
<1> HIDE DEF W
<1>7. t.ip \in [Item -> Ip \cup {NoIp}]
  BY <1>1, TableFields
<1>8. R[1] = W[1]
  <2>1. 1 \in 1 .. Len(P)
    BY <1>1, <1>3
  <2> QED BY <2>1, <1>3, <1>4, <1>6, <1>7 DEF a
<1>9. \A j \in 1 .. n : R[j + 1] = W[j + 1]
  <2> SUFFICES ASSUME NEW j \in 1 .. n PROVE R[j + 1] = W[j + 1]
    OBVIOUS
  <2>1. j + 1 \in 1 .. Len(P) /\ N[j] \in Item /\ N[j] # i
    BY <1>1, <1>3 DEF In
  <2>2. r.ip[N[j]] = t.ip[N[j]]
    BY <2>1, <1>7
  <2>3. R[j + 1] = [ip |-> r.ip[P[j + 1]], mac |-> r.mac[P[j + 1]]]
    BY <2>1, <1>4
  <2>4. P[j + 1] = N[j] /\ W[j + 1] = M[j] /\ M[j] = [ip |-> t.ip[N[j]], mac |-> t.mac[N[j]]]
    BY <1>2, <1>3, <1>6
  <2>5. R[j + 1] = [ip |-> t.ip[N[j]], mac |-> t.mac[N[j]]]
    BY ONLY <2>2, <2>3, <2>4, r.mac = t.mac
  <2> QED BY <2>4, <2>5
<1>10. \A j \in 1 .. Len(R) : R[j] = W[j]
  <2> SUFFICES ASSUME NEW j \in 1 .. Len(R) PROVE R[j] = W[j]
    OBVIOUS
  <2>1. CASE j = 1
    BY <2>1, <1>8
  <2>2. CASE j # 1
    <3>1. j - 1 \in 1 .. n /\ (j - 1) + 1 = j
      BY <2>2, <1>1, <1>3, <1>4
    <3> QED BY <3>1, <1>9
  <2> QED BY <2>1, <2>2
<1>11. R = W
  BY <1>3, <1>4, <1>6, <1>10, SameSeq
<1> QED BY <1>11 DEF R, W, P, M, a

\* What the announcement does to the sequence: it comes first, and the one of the
\* same station goes.
LEMMA MruKnown ==
  ASSUME NEW M \in Seq(Announcement), NEW ip \in Ip, NEW mac \in Mac, NEW k \in 1 .. Len(M),
         M[k].mac = mac, \A j \in 1 .. Len(M) : M[j].mac = mac => j = k, Len(M) <= MaxItems
  PROVE  MruUpdate(M, ip, mac) = <<[ip |-> ip, mac |-> mac]>> \o RemoveAt(M, k)
<1> DEFINE a == [ip |-> ip, mac |-> mac]
           I == {j \in 1 .. Len(M) : M[j].mac = mac}
           R == RemoveAt(M, k)
           W == <<a>> \o R
<1>1. RemoveFirstMatch(M, LAMBDA e : e.mac = mac) =
        RemoveAt(M, IF I # {} THEN Min(I) ELSE 0)
  <2>1. \E j \in 1 .. Len(M) : M[j].mac = mac
    OBVIOUS
  <2> QED BY <2>1 DEF RemoveFirstMatch, SelectInSeq
<1>2. (IF I # {} THEN Min(I) ELSE 0) = k
  <2>1. I = {k}
    OBVIOUS
  <2>2. Len(M) \in Nat /\ I \subseteq 1 .. Len(M)
    OBVIOUS
  <2> HIDE DEF I
  <2>3. (IF I # {} THEN Min(I) ELSE 0) \in I
    <3>1. I # {}
      BY <2>1
    <3> DEFINE x == IF I # {} THEN Min(I) ELSE 0
    <3>2. (x = 0 <=> I = {}) /\ (x # 0 => x \in I)
      BY <2>2, LeastIndex
    <3> QED BY <3>1, <3>2
  <2> QED BY <2>1, <2>3
<1>3. R \in Seq(Announcement) /\ Len(R) = Len(M) - 1
  BY RemovedAt, Zenon
<1>4. MruUpdate(M, ip, mac) =
        SubSeq(W, 1, IF Len(R) < MaxItems THEN Len(R) + 1 ELSE MaxItems)
  <2> HIDE DEF I
  <2> QED BY <1>1, <1>2 DEF MruUpdate
<1>5. a \in Announcement
  BY DEF Announcement
<1> HIDE DEF R, a
<1>6. W \in Seq(Announcement) /\ Len(W) = Len(R) + 1
  BY <1>3, <1>5
<1>7. Len(R) < MaxItems
  <2>1. Len(M) \in Nat
    OBVIOUS
  <2> QED BY <2>1, <1>3, Sizes
<1> HIDE DEF W
<1>8. SubSeq(W, 1, Len(W)) = W
  BY <1>6
<1> QED BY <1>4, <1>6, <1>7, <1>8 DEF W, a, R

\* ... and if the station is a new one, and MaxItems of them are known, the last.
LEMMA MruNew ==
  ASSUME NEW M \in Seq(Announcement), NEW ip \in Ip, NEW mac \in Mac,
         \A j \in 1 .. Len(M) : M[j].mac # mac, Len(M) <= MaxItems
  PROVE  MruUpdate(M, ip, mac) =
           <<[ip |-> ip, mac |-> mac]>> \o
             (IF Len(M) < MaxItems THEN M ELSE RemoveAt(M, Len(M)))
<1> DEFINE a == [ip |-> ip, mac |-> mac]
           W == <<a>> \o M
           R == RemoveAt(M, Len(M))
           V == <<a>> \o R
<1>1. RemoveFirstMatch(M, LAMBDA e : e.mac = mac) = M
  <2>1. ~ \E j \in 1 .. Len(M) : M[j].mac = mac
    OBVIOUS
  <2> QED BY <2>1 DEF RemoveFirstMatch
<1>2. MruUpdate(M, ip, mac) =
        SubSeq(W, 1, IF Len(M) < MaxItems THEN Len(M) + 1 ELSE MaxItems)
  BY <1>1 DEF MruUpdate
<1>3. a \in Announcement /\ Len(M) \in Nat
  BY DEF Announcement
<1> HIDE DEF a
<1>4. W \in Seq(Announcement) /\ Len(W) = Len(M) + 1 /\ W[1] = a
      /\ \A j \in 1 .. Len(M) : W[j + 1] = M[j]
  <2>1. /\ <<a>> \in Seq(Announcement) /\ Len(<<a>>) = 1 /\ <<a>>[1] = a
    BY <1>3
  <2>2. /\ W \in Seq(Announcement) /\ Len(W) = Len(<<a>>) + Len(M)
        /\ \A j \in 1 .. Len(<<a>>) + Len(M) :
             W[j] = IF j <= Len(<<a>>) THEN <<a>>[j] ELSE M[j - Len(<<a>>)]
    BY <2>1, ConcatProperties
  <2> HIDE DEF W
  <2> QED BY <2>1, <2>2, <1>3
<1>5. CASE Len(M) < MaxItems
  <2> HIDE DEF W
  <2>1. SubSeq(W, 1, Len(W)) = W
    BY <1>4
  <2> QED BY <2>1, <1>2, <1>4, <1>5 DEF W, a
<1>6. CASE ~(Len(M) < MaxItems)
  <2> DEFINE n == Len(M)
  <2>1. n = MaxItems /\ n \in 1 .. n /\ n \in Nat
    BY <1>3, <1>6, Sizes
  <2>2. R \in Seq(Announcement) /\ Len(R) = n - 1 /\ \A j \in 1 .. n - 1 : R[j] = M[j]
    <3>1. /\ RemoveAt(M, n) \in Seq(Announcement) /\ Len(RemoveAt(M, n)) = Len(M) - 1
          /\ \A j \in 1 .. Len(M) - 1 : RemoveAt(M, n)[j] = IF j < n THEN M[j] ELSE M[j + 1]
      BY <2>1, RemovedAt, Zenon
    <3>2. \A j \in 1 .. n - 1 : j < n
      BY <2>1
    <3> HIDE DEF n
    <3>3. R = RemoveAt(M, n)
      BY DEF n
    <3> HIDE DEF R
    <3> QED BY <3>1, <3>2, <3>3 DEF n
  <2> HIDE DEF R
  <2>3. V \in Seq(Announcement) /\ Len(V) = n /\ V[1] = a
        /\ \A j \in 1 .. n - 1 : V[j + 1] = R[j]
    <3>1. /\ <<a>> \in Seq(Announcement) /\ Len(<<a>>) = 1 /\ <<a>>[1] = a
      BY <1>3
    <3>2. /\ V \in Seq(Announcement) /\ Len(V) = Len(<<a>>) + Len(R)
          /\ \A j \in 1 .. Len(<<a>>) + Len(R) :
               V[j] = IF j <= Len(<<a>>) THEN <<a>>[j] ELSE R[j - Len(<<a>>)]
      BY <3>1, <2>2, ConcatProperties
    <3> HIDE DEF V
    <3> QED BY <3>1, <3>2, <2>1, <2>2
  <2> DEFINE T == SubSeq(W, 1, MaxItems)
  <2> HIDE DEF V, W
  <2>4. T \in Seq(Announcement) /\ Len(T) = n /\ \A j \in 1 .. n : T[j] = W[j]
    BY <1>4, <2>1
  <2> HIDE DEF T, n
  <2>5. \A j \in 1 .. n : T[j] = V[j]
    <3> SUFFICES ASSUME NEW j \in 1 .. n PROVE T[j] = V[j]
      OBVIOUS
    <3>1. CASE j = 1
      BY <3>1, <2>3, <2>4, <1>4
    <3>2. CASE j # 1
      <4>1. j - 1 \in 1 .. n - 1 /\ j - 1 \in 1 .. Len(M) /\ (j - 1) + 1 = j
        BY <3>2, <2>1 DEF n
      <4>2. V[(j - 1) + 1] = R[j - 1] /\ R[j - 1] = M[j - 1]
        BY <4>1, <2>2, <2>3
      <4>3. W[(j - 1) + 1] = M[j - 1]
        BY <4>1, <1>4
      <4> QED BY <4>1, <4>2, <4>3, <2>4
    <3> QED BY <3>1, <3>2
  <2>6. T = V
    BY <2>3, <2>4, <2>5, SameSeq
  <2> QED BY <2>6, <1>2, <1>6 DEF T, V, W, a, R, n
<1> QED BY <1>5, <1>6

\* The table stands for the sequence M of announcements.
Holds(t, M) == \E L, U : InTable(t, L, U, Null) /\ M = Stations(t, L)

\* An item whose station is not in the list is added to it.
LEMMA FirstHolds ==
  ASSUME NEW t, NEW N, NEW U, NEW i \in Item, NEW ip \in Ip, NEW mac \in Mac,
         InTable(t, N, U, i), t.mac[i] = mac, \A k \in 1 .. Len(N) : t.mac[N[k]] # mac
  PROVE  Holds(AddAsFirst(t, i, ip), <<[ip |-> ip, mac |-> mac]>> \o Stations(t, N))
<1> DEFINE r == AddAsFirst(t, i, ip)
<1>1. t \in TableType
  BY DEF InTable
<1>2. FirstAs(t, i, ip, r)
  BY <1>1, AddFirstFields
<1> HIDE DEF r
<1>3. InTable(r, <<i>> \o N, U, Null)
  BY <1>2, AddFirstTable
<1>4. r.ip = [t.ip EXCEPT ![i] = ip] /\ r.mac = t.mac
  BY <1>2 DEF FirstAs
<1>5. Stations(r, <<i>> \o N) = <<[ip |-> ip, mac |-> mac]>> \o Stations(t, N)
  BY <1>3, <1>4, StationsFirst
<1> QED BY <1>3, <1>5 DEF Holds, r

\* An announcement of a station that is known.
LEMMA KnownHolds ==
  ASSUME NEW t, NEW L, NEW U, NEW ip \in Ip, NEW k \in 1 .. Len(L), InTable(t, L, U, Null)
  PROVE  Holds(AddAsFirst(Unchain(t, L[k]), L[k], ip), MruUpdate(Stations(t, L), ip, t.mac[L[k]]))
<1> DEFINE i == L[k]
           mac == t.mac[i]
           u == Unchain(t, i)
           N == RemoveAt(L, k)
           M == Stations(t, L)
<1>1. /\ t \in TableType /\ L \in Seq(Item) /\ i \in Item /\ mac \in Mac /\ Len(L) \in Nat
      /\ \A j, l \in 1 .. Len(L) : t.mac[L[j]] = t.mac[L[l]] => j = l
  <2>1. L \in Seq(Item) /\ t \in TableType
    BY DEF InTable
  <2>2. \A j \in 1 .. Len(L) : L[j] \in Item
    BY <2>1, InList
  <2> QED BY <2>1, <2>2, TableSizes DEF InTable
<1>2. UnchainedAs(t, i, u)
  BY <1>1, UnchainFields
<1>3. InTable(u, N, U, i) /\ u.mac = t.mac /\ u.ip = t.ip
  <2> HIDE DEF u
  <2>1. InTable(u, RemoveAt(L, k), U, L[k])
    BY <1>2, UnchainTable
  <2> QED BY <2>1, <1>2 DEF UnchainedAs
<1>4. /\ RemoveAt(L, k) \in Seq(Item) /\ Len(RemoveAt(L, k)) = Len(L) - 1
      /\ \A j \in 1 .. Len(L) - 1 : RemoveAt(L, k)[j] = IF j < k THEN L[j] ELSE L[j + 1]
  BY <1>1, RemovedAt, Zenon
<1> HIDE DEF u, N, M
<1>5. \A j \in 1 .. Len(N) : u.mac[N[j]] # mac
  <2> SUFFICES ASSUME NEW j \in 1 .. Len(N), t.mac[N[j]] = mac PROVE FALSE
    BY <1>3
  <2>1. PICK l \in 1 .. Len(L) : N[j] = L[l] /\ l # k
    <3>1. CASE j < k
      <4>1. j \in 1 .. Len(L) /\ j \in 1 .. Len(L) - 1 /\ j # k
        BY <3>1, <1>1, <1>4 DEF N
      <4> QED BY <3>1, <4>1, <1>4 DEF N
    <3>2. CASE ~(j < k)
      <4>1. j + 1 \in 1 .. Len(L) /\ j \in 1 .. Len(L) - 1 /\ j + 1 # k
        BY <3>2, <1>1, <1>4 DEF N
      <4> QED BY <3>2, <4>1, <1>4 DEF N
    <3> QED BY <3>1, <3>2
  <2> QED BY <2>1, <1>1
<1>6. Holds(AddAsFirst(u, i, ip), <<[ip |-> ip, mac |-> mac]>> \o Stations(u, N))
  <2>1. u.mac[i] = mac
    BY <1>3
  <2> HIDE DEF mac, i
  <2> QED BY <2>1, <1>1, <1>3, <1>5, FirstHolds
<1>7. Stations(u, N) = Stations(t, N)
  BY <1>3 DEF Stations
<1>8. Stations(t, N) = RemoveAt(M, k)
  BY StationsRemoved DEF N, M
<1>9. MruUpdate(M, ip, mac) = <<[ip |-> ip, mac |-> mac]>> \o RemoveAt(M, k)
  <2>1. /\ M \in Seq(Announcement) /\ Len(M) = Len(L)
        /\ \A j \in 1 .. Len(L) : M[j] = [ip |-> t.ip[L[j]], mac |-> t.mac[L[j]]]
    BY StationsSeq DEF M
  <2>2. Len(M) <= MaxItems
    BY <2>1, TableSizes
  <2>3. k \in 1 .. Len(M) /\ M[k].mac = mac /\ \A j \in 1 .. Len(M) : M[j].mac = mac => j = k
    <3>1. ASSUME NEW j \in 1 .. Len(L) PROVE M[j].mac = t.mac[L[j]]
      <4>1. M[j] = [ip |-> t.ip[L[j]], mac |-> t.mac[L[j]]]
        BY <2>1
      <4> QED BY ONLY <4>1
    <3>2. M[k].mac = mac
      BY <3>1
    <3>3. ASSUME NEW j \in 1 .. Len(L), M[j].mac = mac PROVE j = k
      BY <3>1, <3>3, <1>1
    <3> QED BY <3>2, <3>3, <2>1
  <2> HIDE DEF mac, i
  <2> QED BY <2>1, <2>2, <2>3, <1>1, MruKnown
<1> QED BY <1>6, <1>7, <1>8, <1>9 DEF M, u

\* An announcement of a station that is not.
LEMMA NewHolds ==
  ASSUME NEW t, NEW L, NEW U, NEW ip \in Ip, NEW mac \in Mac, InTable(t, L, U, Null),
         \A k \in 1 .. Len(L) : t.mac[L[k]] # mac
  PROVE  Holds(AddAsFirst(CreateNewItem(t, mac), NewItem(t), ip), MruUpdate(Stations(t, L), ip, mac))
<1> DEFINE i == NewItem(t)
           u == CreateNewItem(t, mac)
           M == Stations(t, L)
           a == [ip |-> ip, mac |-> mac]
<1>1. /\ t \in TableType /\ L \in Seq(Item) /\ Len(L) \in Nat /\ Len(L) <= MaxItems
  BY TableSizes DEF InTable
<1>2. /\ M \in Seq(Announcement) /\ Len(M) = Len(L)
      /\ \A j \in 1 .. Len(L) : M[j] = [ip |-> t.ip[L[j]], mac |-> t.mac[L[j]]]
  BY StationsSeq
<1>3. MruUpdate(M, ip, mac) =
        <<a>> \o (IF Len(M) < MaxItems THEN M ELSE RemoveAt(M, Len(M)))
  <2>1. \A j \in 1 .. Len(M) : M[j].mac # mac
    <3> SUFFICES ASSUME NEW j \in 1 .. Len(M) PROVE M[j].mac # mac
      OBVIOUS
    <3> HIDE DEF M
    <3>1. j \in 1 .. Len(L) /\ M[j] = [ip |-> t.ip[L[j]], mac |-> t.mac[L[j]]]
      BY <1>2
    <3>2. M[j].mac = t.mac[L[j]]
      BY ONLY <3>1
    <3> QED BY <3>1, <3>2
  <2>2. Len(M) <= MaxItems
    BY <1>1, <1>2
  <2> HIDE DEF M
  <2> QED BY <2>1, <2>2, <1>2, MruNew
<1>4. \/ Len(L) < MaxItems /\ CreatedAs(t, L, mac, u, i)
      \/ Len(L) = MaxItems /\ CreatedAs(t, RemoveAt(L, Len(L)), mac, u, i)
  BY CreateTable
<1> HIDE DEF u, i, M
<1>5. ASSUME NEW N, CreatedAs(t, N, mac, u, i), \A j \in 1 .. Len(N) : t.mac[N[j]] # mac
      PROVE  Holds(AddAsFirst(u, i, ip), <<a>> \o Stations(t, N))
  <2>1. PICK V : InTable(u, N, V, i)
    BY <1>5 DEF CreatedAs
  <2>2. i \in Item /\ u.mac = [t.mac EXCEPT ![i] = mac] /\ u.ip = t.ip
    BY <1>5 DEF CreatedAs
  <2>3. t.mac \in [Item -> Mac \cup {NoMac}]
    BY <1>1, TableFields
  <2>4. u.mac[i] = mac
    BY <2>2, <2>3
  <2>5. \A j \in 1 .. Len(N) : N[j] \in Item /\ N[j] # i
    <3>1. N \in Seq(Item) /\ ~In(i, N)
      BY <2>1 DEF InTable
    <3> QED BY <3>1, InList DEF In
  <2>6. \A j \in 1 .. Len(N) : u.mac[N[j]] = t.mac[N[j]]
    BY <2>2, <2>3, <2>5
  <2>7. Holds(AddAsFirst(u, i, ip), <<[ip |-> ip, mac |-> mac]>> \o Stations(u, N))
    <3>1. \A j \in 1 .. Len(N) : u.mac[N[j]] # mac
      BY <2>6, <1>5
    <3> QED BY <3>1, <2>1, <2>2, <2>4, FirstHolds
  <2>8. Stations(u, N) = Stations(t, N)
    BY <2>2, <2>6 DEF Stations
  <2> QED BY <2>7, <2>8
<1>6. CASE Len(L) < MaxItems /\ CreatedAs(t, L, mac, u, i)
  <2>1. Holds(AddAsFirst(u, i, ip), <<a>> \o Stations(t, L))
    BY <1>5, <1>6
  <2> QED BY <2>1, <1>2, <1>3, <1>6 DEF u, i, M
<1>7. CASE Len(L) = MaxItems /\ CreatedAs(t, RemoveAt(L, Len(L)), mac, u, i)
  <2> DEFINE n == Len(L)
             N == RemoveAt(L, n)
  <2>1. n \in 1 .. n /\ n \in Nat
    BY <1>1, <1>7, Sizes
  <2>2. /\ RemoveAt(L, n) \in Seq(Item) /\ Len(RemoveAt(L, n)) = Len(L) - 1
        /\ \A j \in 1 .. Len(L) - 1 : RemoveAt(L, n)[j] = IF j < n THEN L[j] ELSE L[j + 1]
    BY <2>1, <1>1, RemovedAt, Zenon
  <2>3. \A j \in 1 .. Len(N) : t.mac[N[j]] # mac
    <3> SUFFICES ASSUME NEW j \in 1 .. Len(N) PROVE t.mac[N[j]] # mac
      OBVIOUS
    <3>1. j < n /\ j \in 1 .. n /\ j \in 1 .. n - 1
      BY <2>1, <2>2
    <3>2. N[j] = L[j]
      BY <3>1, <2>2
    <3> QED BY <3>1, <3>2
  <2>4. Holds(AddAsFirst(u, i, ip), <<a>> \o Stations(t, N))
    <3>1. CreatedAs(t, N, mac, u, i)
      BY <1>7
    <3> HIDE DEF N
    <3> QED BY <3>1, <2>3, <1>5
  <2>5. Stations(t, N) = RemoveAt(M, n)
    <3>1. n \in 1 .. Len(L)
      BY <2>1
    <3> HIDE DEF n
    <3> QED BY <3>1, StationsRemoved DEF M
  <2>6. ~(Len(M) < MaxItems) /\ Len(M) = n
    BY <1>2, <1>7, <2>1
  <2> HIDE DEF n, N
  <2> QED BY <2>4, <2>5, <2>6, <1>3 DEF u, i, M
<1> QED BY <1>4, <1>6, <1>7

\* The table follows the sequence.
LEMMA UpdateHolds ==
  ASSUME NEW t, NEW M, NEW ip \in Ip, NEW mac \in Mac, Holds(t, M)
  PROVE  Holds(Update(t, ip, mac), MruUpdate(M, ip, mac))
<1>1. PICK L, U : InTable(t, L, U, Null) /\ M = Stations(t, L)
  BY DEF Holds
<1>2. Items(t) = L
  BY <1>1, ItemsAre
<1>3. L \in Seq(Item)
  BY <1>1 DEF InTable
<1>4. \A k \in 1 .. Len(L) : L[k] # Null
  BY <1>3, InList, Items0
<1> DEFINE known == FindByMac(t, mac)
<1>5. \/ known = Null /\ \A k \in 1 .. Len(L) : t.mac[L[k]] # mac
      \/ \E k \in 1 .. Len(L) : known = L[k] /\ t.mac[L[k]] = mac
  <2> DEFINE field == t.mac
  <2>1. FindByMac(t, mac) = Find(t, field, mac)
    BY DEF FindByMac
  <2> HIDE DEF field
  <2>2. \/ Find(t, field, mac) = Null /\ \A k \in 1 .. Len(L) : field[L[k]] # mac
        \/ \E k \in 1 .. Len(L) : /\ Find(t, field, mac) = L[k] /\ field[L[k]] = mac
                                  /\ \A j \in 1 .. k - 1 : field[L[j]] # mac
    BY <1>2, <1>3, FindIs
  <2> QED BY <2>1, <2>2 DEF field
<1> HIDE DEF known
<1>6. CASE known = Null /\ \A k \in 1 .. Len(L) : t.mac[L[k]] # mac
  <2>1. Holds(AddAsFirst(CreateNewItem(t, mac), NewItem(t), ip), MruUpdate(Stations(t, L), ip, mac))
    BY <1>1, <1>6, NewHolds
  <2>2. Update(t, ip, mac) = AddAsFirst(CreateNewItem(t, mac), NewItem(t), ip)
    BY <1>6 DEF Update, known
  <2> QED BY <2>1, <2>2, <1>1
<1>7. CASE \E k \in 1 .. Len(L) : known = L[k] /\ t.mac[L[k]] = mac
  <2>1. PICK k \in 1 .. Len(L) : known = L[k] /\ t.mac[L[k]] = mac
    BY <1>7
  <2>2. Holds(AddAsFirst(Unchain(t, L[k]), L[k], ip), MruUpdate(Stations(t, L), ip, t.mac[L[k]]))
    BY <1>1, KnownHolds
  <2>3. Update(t, ip, mac) = AddAsFirst(Unchain(t, L[k]), L[k], ip)
    BY <2>1, <1>4 DEF Update, known
  <2> QED BY <2>1, <2>2, <2>3, <1>1
<1> QED BY <1>5, <1>6, <1>7

\* At the start no item is in use.
LEMMA EmptyHolds == Holds(EmptyTable, <<>>)
<1> DEFINE t == EmptyTable
           U == [k \in 1 .. MaxItems |-> k]
<1>1. MaxItems \in Nat /\ MaxItems > 1 /\ Null = 0
  BY Sizes
<1>2. t \in TableType
  <2>1. /\ Null \in TableRange /\ 1 \in TableRange
        /\ \A i \in Item : (IF i < MaxItems THEN i + 1 ELSE Null) \in TableRange
    BY <1>1 DEF TableRange, Item
  <2> QED BY <2>1 DEF EmptyTable, TableType
<1>3. U \in Seq(Item) /\ Len(U) = MaxItems
  <2>1. U \in [1 .. MaxItems -> Item]
    BY <1>1 DEF Item
  <2> QED BY <2>1, <1>1, SeqDef
<1>4. \A k \in 1 .. MaxItems : U[k] = k
  OBVIOUS
<1>5. /\ <<>> \in Seq(Item) /\ Len(<<>>) = 0
  OBVIOUS
<1>6. t.first = Null /\ t.last = Null /\ t.free = 1
      /\ \A i \in Item : t.next[i] = IF i < MaxItems THEN i + 1 ELSE Null
  BY DEF EmptyTable
<1> HIDE DEF t, U
<1>7. Linked(t.free, t.next, U)
  <2>1. U # <<>> /\ U[1] = 1
    BY <1>1, <1>3, <1>4
  <2>2. ASSUME NEW k \in 1 .. Len(U)
        PROVE  t.next[U[k]] = IF k = Len(U) THEN Null ELSE U[k + 1]
    <3>1. U[k] = k /\ k \in Item
      BY <1>3, <1>4 DEF Item
    <3>2. CASE k = Len(U)
      BY <3>1, <3>2, <1>1, <1>3, <1>6
    <3>3. CASE k # Len(U)
      <4>1. k < MaxItems /\ k + 1 \in 1 .. MaxItems
        BY <3>3, <1>1, <1>3
      <4> QED BY <3>1, <3>3, <4>1, <1>4, <1>6
    <3> QED BY <3>2, <3>3
  <2> QED BY <2>1, <2>2, <1>6 DEF Linked
<1>8. Linked(t.first, t.next, <<>>) /\ EndsAt(<<>>, t.last)
  BY <1>5, <1>6 DEF Linked, EndsAt
<1>9. \A k : ~(k \in 1 .. Len(<<>>))
  BY <1>5
<1>10. Distinct(U) /\ Distinct(<<>>) /\ Apart(<<>>, U) /\ ~In(Null, <<>>)
  BY <1>3, <1>4, <1>9 DEF Distinct, Apart, In
<1>11. ~In(Null, U) /\ \A i \in Item : In(i, U)
  <2>1. Null \notin 1 .. MaxItems
    BY <1>1
  <2> QED BY <2>1, <1>3, <1>4 DEF In, Item
<1>12. Len(<<>>) + Len(U) = MaxItems - (IF Null \in Item THEN 1 ELSE 0)
  <2>1. (IF Null \in Item THEN 1 ELSE 0) = 0
    BY <1>1 DEF Item
  <2> QED BY <2>1, <1>1, <1>3, <1>5
<1>13. InTable(t, <<>>, U, Null)
  BY <1>2, <1>3, <1>5, <1>7, <1>8, <1>9, <1>10, <1>11, <1>12 DEF InTable
<1>14. Stations(t, <<>>) = <<>>
  BY <1>5 DEF Stations
<1> QED BY <1>13, <1>14 DEF Holds, t

\* What FindByIp looks for is the latest announcement of the address.
Latest(M, ip) == SelectInSeq(M, LAMBDA a : a.ip = ip)

\* FindByIp finds the station that announced the address last.
LEMMA HoldsFinds ==
  ASSUME NEW t, NEW M, NEW ip, Holds(t, M), FindByIp(t, ip) # Null
  PROVE  /\ t.mac[FindByIp(t, ip)] \in Mac
         /\ Latest(M, ip) # 0 /\ t.mac[FindByIp(t, ip)] = M[Latest(M, ip)].mac
<1>1. PICK L, U : InTable(t, L, U, Null) /\ M = Stations(t, L)
  BY DEF Holds
<1>2. Items(t) = L
  BY <1>1, ItemsAre
<1>3. L \in Seq(Item) /\ Len(L) \in Nat /\ \A k \in 1 .. Len(L) : t.mac[L[k]] \in Mac
  BY <1>1, TableSizes DEF InTable
<1>4. /\ Len(M) = Len(L)
      /\ \A k \in 1 .. Len(L) : M[k] = [ip |-> t.ip[L[k]], mac |-> t.mac[L[k]]]
  BY <1>1, StationsSeq
<1> DEFINE item == FindByIp(t, ip)
<1>5. PICK k \in 1 .. Len(L) : /\ item = L[k] /\ t.ip[L[k]] = ip
                               /\ \A j \in 1 .. k - 1 : t.ip[L[j]] # ip
  <2> DEFINE field == t.ip
  <2>1. FindByIp(t, ip) = Find(t, field, ip)
    BY DEF FindByIp
  <2> HIDE DEF field
  <2>2. \/ Find(t, field, ip) = Null /\ \A k \in 1 .. Len(L) : field[L[k]] # ip
        \/ \E k \in 1 .. Len(L) : /\ Find(t, field, ip) = L[k] /\ field[L[k]] = ip
                                  /\ \A j \in 1 .. k - 1 : field[L[j]] # ip
    BY <1>2, <1>3, FindIs
  <2> QED BY <2>1, <2>2 DEF field
<1>6. \A j \in 1 .. Len(L) : M[j].ip = t.ip[L[j]] /\ M[j].mac = t.mac[L[j]]
  <2> SUFFICES ASSUME NEW j \in 1 .. Len(L)
               PROVE  M[j].ip = t.ip[L[j]] /\ M[j].mac = t.mac[L[j]]
    OBVIOUS
  <2>1. M[j] = [ip |-> t.ip[L[j]], mac |-> t.mac[L[j]]]
    BY <1>4
  <2> QED BY ONLY <2>1
<1> HIDE DEF item
<1> DEFINE I == {j \in 1 .. Len(M) : M[j].ip = ip}
           l == IF I # {} THEN Min(I) ELSE 0
<1>7. Latest(M, ip) = l
  BY DEF Latest, SelectInSeq
<1>8. k \in I
  BY <1>4, <1>5, <1>6
<1>9. l \in I /\ \A j \in I : l <= j
  <2>1. Len(M) \in Nat /\ I \subseteq 1 .. Len(M) /\ I # {}
    BY <1>3, <1>4, <1>8
  <2> HIDE DEF I
  <2>2. (l = 0 <=> I = {}) /\ (l # 0 => l \in I /\ \A j \in I : l <= j)
    BY <2>1, LeastIndex
  <2> QED BY <2>1, <2>2
<1> HIDE DEF l
<1>10. l = k
  <2>1. l \in 1 .. Len(L) /\ l <= k /\ t.ip[L[l]] = ip
    BY <1>4, <1>6, <1>8, <1>9
  <2>2. ~(l \in 1 .. k - 1)
    BY <2>1, <1>5
  <2> HIDE DEF I
  <2> QED BY <2>1, <2>2, <1>3
<1>11. M[k].mac = t.mac[L[k]] /\ t.mac[L[k]] \in Mac /\ k # 0
  BY <1>3, <1>6
<1> QED BY <1>5, <1>7, <1>10, <1>11 DEF item

\* What FindByIp finds has a hardware address.
LEMMA HoldsLooksUp ==
  ASSUME NEW t, NEW M, Holds(t, M)
  PROVE  LooksUp(t)
<1> SUFFICES ASSUME NEW ip, FindByIp(t, ip) # Null
             PROVE  t.mac[FindByIp(t, ip)] \in Mac \cup {NoMac}
  BY DEF LooksUp
<1>1. t.mac[FindByIp(t, ip)] \in Mac
  BY HoldsFinds
<1> QED BY <1>1

\* The properties of the run.
LEMMA HoldsTable ==
  ASSUME NEW t, NEW M, Holds(t, M)
  PROVE  t \in TableType /\ M \in Seq(Announcement) /\ WellLinked(t) /\ Contents(t) = M
<1>1. PICK L, U : InTable(t, L, U, Null) /\ M = Stations(t, L)
  BY DEF Holds
<1> DEFINE n == Len(L)
           R == [k \in 1 .. n |-> L[(n - k) + 1]]
<1>2. /\ t \in TableType /\ L \in Seq(Item) /\ U \in Seq(Item)
      /\ \A i \in Item : i = Null \/ In(i, L) \/ In(i, U)
  BY <1>1 DEF InTable
<1>3. Items(t) = L /\ Follow(t.free, t.next, MaxItems + 1) = U
  BY <1>1, ItemsAre
<1>4. n \in Nat /\ Len(U) \in Nat /\ n + Len(U) = MaxItems /\ n <= MaxItems
  BY <1>1, TableSizes
<1>5. Contents(t) = M
  BY <1>1, <1>3 DEF Contents, Stations
<1>6. M \in Seq(Announcement)
  BY <1>1, StationsSeq
<1>7. \A k \in 1 .. n : L[k] \in Item
  BY <1>2, InList
<1>8. R \in Seq(Item) /\ Len(R) = n /\ \A k \in 1 .. n : R[k] = L[(n - k) + 1]
  <2>1. R \in [1 .. n -> Item]
    BY <1>4, <1>7
  <2> QED BY <2>1, <1>4, SeqDef
<1>9. Reverse(L) = R
  BY DEF Reverse
<1> HIDE DEF R
<1>10. Linked(t.last, t.prev, R)
  <2>1. /\ t.last = (IF n = 0 THEN Null ELSE L[n])
        /\ \A k \in 1 .. n : t.prev[L[k]] = IF k = 1 THEN Null ELSE L[k - 1]
    BY <1>1, FirstsOfTable
  <2>2. t.last = IF R = <<>> THEN Null ELSE R[1]
    <3>1. CASE n = 0
      BY <3>1, <2>1, <1>8
    <3>2. CASE n # 0
      <4>1. R # <<>> /\ 1 \in 1 .. n /\ (n - 1) + 1 = n
        BY <3>2, <1>4, <1>8
      <4> QED BY <4>1, <3>2, <2>1, <1>8
    <3> QED BY <3>1, <3>2
  <2>3. ASSUME NEW k \in 1 .. Len(R)
        PROVE  t.prev[R[k]] = IF k = Len(R) THEN Null ELSE R[k + 1]
    <3> DEFINE j == (n - k) + 1
    <3>1. k \in 1 .. n /\ j \in 1 .. n /\ R[k] = L[j]
      BY <1>4, <1>8
    <3>2. CASE k = n
      <4>1. j = 1
        BY <3>2, <1>4
      <4> QED BY <4>1, <3>1, <3>2, <2>1, <1>8
    <3>3. CASE k # n
      <4>1. j # 1 /\ k + 1 \in 1 .. n /\ (n - (k + 1)) + 1 = j - 1
        BY <3>1, <3>3, <1>4
      <4>2. R[k + 1] = L[j - 1]
        BY <4>1, <1>8
      <4> QED BY <4>1, <4>2, <3>1, <3>3, <2>1, <1>8
    <3> QED BY <3>2, <3>3
  <2> QED BY <2>2, <2>3 DEF Linked
<1>11. Follow(t.last, t.prev, MaxItems + 1) = R
  <2>1. Null \notin Item /\ MaxItems + 1 \in Nat \ {0} /\ Len(R) <= MaxItems + 1
    BY <1>4, <1>8, Items0, Sizes
  <2> QED BY <2>1, <1>8, <1>10, FollowLinked
<1> DEFINE both == L \o U
<1>12. /\ both \in Seq(Item) /\ Len(both) = n + Len(U)
       /\ \A k \in 1 .. n + Len(U) : both[k] = IF k <= n THEN L[k] ELSE U[k - n]
  BY <1>2, ConcatProperties
<1> HIDE DEF both
<1>13. ToSet(both) = Item
  <2>1. \A i \in ToSet(both) : i \in Item
    BY <1>12 DEF ToSet
  <2>2. ASSUME NEW i \in Item PROVE \E k \in 1 .. Len(both) : both[k] = i
    <3>1. CASE In(i, L)
      <4>1. PICK k \in 1 .. n : L[k] = i
        BY <3>1 DEF In
      <4>2. k \in 1 .. n + Len(U) /\ k <= n
        BY <1>4
      <4> QED BY <4>1, <4>2, <1>12
    <3>2. CASE In(i, U)
      <4>1. PICK k \in 1 .. Len(U) : U[k] = i
        BY <3>2 DEF In
      <4>2. n + k \in 1 .. n + Len(U) /\ ~(n + k <= n) /\ (n + k) - n = k
        BY <1>4
      <4> QED BY <4>1, <4>2, <1>12
    <3> QED BY <3>1, <3>2, <1>2, Items0
  <2>3. DOMAIN both = 1 .. Len(both)
    BY <1>12
  <2> QED BY <2>1, <2>2, <2>3 DEF ToSet
<1>14. WellLinked(t)
  <2>1. Len(both) = MaxItems
    BY <1>4, <1>12
  <2>2. both = Items(t) \o Follow(t.free, t.next, MaxItems + 1)
    BY <1>3 DEF both
  <2> QED BY <2>1, <2>2, <1>3, <1>9, <1>11, <1>13 DEF WellLinked
<1> QED BY <1>2, <1>5, <1>6, <1>14

-----------------------------------------------------------------------------
(* The inductive invariant, when PhyStatusPoll finds the link up. *)

\* The transmit side t, when the MAC is at the descriptor a, and n requests went
\* out for the first job.
TxOk(t, a, n) == \E F, C, J, m : InPlace(t, F, C, J, Null, a, m) /\ Asking(t, J, n)

\* The transmit side and the table are in order.
Ordered ==
  /\ TxOk(tx, at, asked) /\ asked \in Nat
  /\ Holds(table, mru)
  /\ running = TRUE

\* What a step does to the packets.
StepAs(t, r, J, n, tab) ==
  /\ \A p \in 1 .. Pool :
       t.status[p] = 0 /\ r.status[p] = 1 /\ r.frame[p].kind = "datagram"
       => /\ FindByIp(tab, r.frame[p].hop) # Null
          /\ r.frame[p].mac = tab.mac[FindByIp(tab, r.frame[p].hop)]
  /\ \A k \in 1 .. Len(J) : r.frame[J[k]] = NoFrame => n = MaxTries

\* At the start all packets of the pool are free.
LEMMA InitTx ==
  ASSUME Init
  PROVE  TxOk(tx, 0, 0)
<1> DEFINE F == [k \in 1 .. Pool |-> k]
<1>1. /\ Pool \in Nat /\ Pool > 0 /\ Sys = Pool + 1 /\ Null = 0 /\ MaxTries \in Nat
  BY Sizes
<1>2. /\ Null \in PacketOrNull /\ 1 \in PacketOrNull /\ 0 \in Slot /\ NoFrame \in FrameType
      /\ \A p \in Packet : (IF p < Pool THEN p + 1 ELSE Null) \in PacketOrNull
  <2>1. NoFrame \in FrameType
    BY Frames
  <2>2. 0 \in Slot
    BY <1>1 DEF Slot
  <2>3. Null \in PacketOrNull /\ 1 \in PacketOrNull
    BY <1>1 DEF PacketOrNull, Packet
  <2>4. \A p \in Packet : (IF p < Pool THEN p + 1 ELSE Null) \in PacketOrNull
    BY <1>1 DEF PacketOrNull, Packet
  <2> QED BY <2>1, <2>2, <2>3, <2>4
<1>3. /\ tx.next = [p \in Packet |-> IF p < Pool THEN p + 1 ELSE Null]
      /\ tx.free = 1 /\ tx.sfirst = Null /\ tx.slast = Null /\ tx.jfirst = Null /\ tx.jlast = Null
      /\ tx.status = [p \in Packet |-> 0] /\ tx.slot = 0 /\ tx.phase = 0
      /\ tx.ring = [i \in Slot |-> Null]
  BY DEF Init
<1>4. tx \in FieldType
  <2>1. 0 \in 0 .. MaxTries
    BY <1>1
  <2> QED BY <2>1, <1>2 DEF Init, FieldType
<1>5. F \in Seq(1 .. Pool) /\ Len(F) = Pool
  <2>1. F \in [1 .. Pool -> 1 .. Pool]
    OBVIOUS
  <2> QED BY <2>1, <1>1, SeqDef
<1>6. \A k \in 1 .. Pool : F[k] = k
  OBVIOUS
<1> HIDE DEF F
<1>7. /\ <<>> \in Seq(1 .. Pool) /\ <<>> \in Seq(Packet) /\ Len(<<>>) = 0
      /\ \A k : ~(k \in 1 .. Len(<<>>))
  OBVIOUS
<1>8. Linked(tx.free, tx.next, F)
  <2>1. F # <<>> /\ F[1] = 1
    BY <1>1, <1>5, <1>6
  <2>2. ASSUME NEW k \in 1 .. Len(F)
        PROVE  tx.next[F[k]] = IF k = Len(F) THEN Null ELSE F[k + 1]
    <3>1. F[k] = k /\ k \in Packet
      BY <1>1, <1>5, <1>6 DEF Packet
    <3>2. tx.next[k] = IF k < Pool THEN k + 1 ELSE Null
      BY <3>1, <1>3
    <3>3. CASE k = Len(F)
      BY <3>1, <3>2, <3>3, <1>1, <1>5
    <3>4. CASE k # Len(F)
      <4>1. k < Pool /\ k + 1 \in 1 .. Pool
        BY <3>4, <1>1, <1>5
      <4> QED BY <3>1, <3>2, <3>4, <4>1, <1>6
    <3> QED BY <3>3, <3>4
  <2> QED BY <2>1, <2>2, <1>3 DEF Linked
<1>9. Linkage(tx, F, <<>>, <<>>)
  <2>1. Linked(tx.sfirst, tx.next, <<>>) /\ Linked(tx.jfirst, tx.next, <<>>)
    BY <1>3, <1>7 DEF Linked
  <2>2. EndsAt(<<>>, tx.slast) /\ EndsAt(<<>>, tx.jlast)
    BY <1>3 DEF EndsAt
  <2> QED BY <2>1, <2>2, <1>8 DEF Linkage
<1>10. Places(tx, F, <<>>, <<>>, Null)
  <2>1. Distinct(F) /\ ~In(Null, F) /\ \A p \in 1 .. Pool : In(p, F)
    BY <1>1, <1>5, <1>6 DEF Distinct, In
  <2>2. /\ Distinct(<<>>) /\ Apart(F, <<>>) /\ Apart(<<>>, <<>>)
        /\ \A p : ~In(p, <<>>)
    BY <1>7 DEF Distinct, Apart, In
  <2>3. Sys \in Packet
    BY <1>1 DEF Packet
  <2>4. \A p \in Packet : tx.status[p] = 0
    BY <1>3
  <2>5. Len(F) + Len(<<>>) + Len(<<>>) =
          Pool + tx.status[Sys] - (IF Null \in 1 .. Pool THEN 1 ELSE 0)
    <3>1. (IF Null \in 1 .. Pool THEN 1 ELSE 0) = 0
      BY <1>1
    <3> QED BY <3>1, <2>3, <2>4, <1>1, <1>5, <1>7
  <2> QED BY <2>1, <2>2, <2>4, <2>5, <1>5, <1>7 DEF Places
<1>11. Sending(tx, <<>>, 0, 0)
  <2>1. 0 \in 0 .. Len(<<>>)
    BY <1>7
  <2>2. 0 = Back(tx.slot, Len(<<>>) - 0)
    <3>1. Len(<<>>) - 0 = 0
      BY <1>7
    <3>2. Back(0, 0) = 0
      BY <1>1 DEF Back
    <3> QED BY <3>1, <3>2, <1>3
  <2>3. \A i \in Slot : tx.ring[i] = Null
    BY <1>3
  <2> QED BY <2>1, <2>2, <2>3, <1>7 DEF Sending
<1>12. Asking(tx, <<>>, 0)
  <2>1. Sys \in Packet
    BY <1>1 DEF Packet
  <2> QED BY <2>1, <1>3, <1>7 DEF Asking
<1> QED BY <1>4, <1>9, <1>10, <1>11, <1>12 DEF TxOk, InPlace

\* What Run finds after it has released what is sent.
ReadyAs(t, r, J, a, n) ==
  /\ \E G, D : InPlace(r, G, D, J, Null, a, 0)
  /\ Asking(r, J, n)
  /\ r.jfirst = t.jfirst
  /\ \A k \in 1 .. Len(J) : r.frame[J[k]] = t.frame[J[k]]
  /\ \A q \in Packet : r.status[q] = 1 => t.status[q] = 1

\* Run's first part: the time of the request is looked at, and what is sent is released.
LEMMA RunReady ==
  ASSUME NEW t, NEW F, NEW C, NEW J, NEW a, NEW m, NEW n \in Nat, NEW late \in BOOLEAN,
         InPlace(t, F, C, J, Null, a, m), Asking(t, J, n),
         late /\ t.phase = 1 => t.ring[t.idx[Sys]] = Null
  PROVE  ReadyAs(t, ReleaseSent([t EXCEPT !.expired = @ \/ late]), J, a, n)
<1> DEFINE w == [t EXCEPT !.expired = t.expired \/ late]
           r == ReleaseSent(w)
<1>1. t \in FieldType /\ J \in Seq(1 .. Pool)
  BY DEF InPlace, Places
<1>2. w \in FieldType
  <2>1. t.expired \in BOOLEAN
    BY <1>1 DEF FieldType
  <2>2. (t.expired \/ late) \in BOOLEAN
    OBVIOUS
  <2> QED BY <2>2, <1>1 DEF FieldType
<1>3. /\ w.next = t.next /\ w.free = t.free /\ w.sfirst = t.sfirst /\ w.slast = t.slast
      /\ w.jfirst = t.jfirst /\ w.jlast = t.jlast /\ w.status = t.status /\ w.idx = t.idx
      /\ w.ring = t.ring /\ w.slot = t.slot /\ w.frame = t.frame
      /\ w.phase = t.phase /\ w.trycnt = t.trycnt /\ w.expired = (t.expired \/ late)
  BY <1>1 DEF FieldType
<1>4. ReleaseSent([t EXCEPT !.expired = @ \/ late]) = r
  OBVIOUS
<1> HIDE DEF w
<1>5. InPlace(w, F, C, J, Null, a, m)
  BY <1>2, <1>3, SetKeeps
<1>6. /\ ReleasedOnly(w, r, J)
      /\ \E G, D : InPlace(r, G, D, J, Null, a, 0)
      /\ r.status[Sys] = 1 => w.ring[w.idx[Sys]] # Null
  BY <1>5, ReleaseSentKeeps
<1> HIDE DEF r
<1>7. /\ r.jfirst = t.jfirst /\ r.ring = t.ring
      /\ r.phase = t.phase /\ r.trycnt = t.trycnt /\ r.expired = (t.expired \/ late)
      /\ r.frame[Sys] = t.frame[Sys]
      /\ \A k \in 1 .. Len(J) : r.frame[J[k]] = t.frame[J[k]]
      /\ \A q \in Packet : r.status[q] = 1 => t.status[q] = 1
  BY <1>3, <1>6 DEF ReleasedOnly
<1>8. Sys \in Packet /\ r.status[Sys] \in {0, 1}
  <2>1. r \in FieldType
    BY <1>6 DEF InPlace
  <2> QED BY <2>1, Typed, SeqTypes
<1>9. Asking(r, J, n)
  <2>1. \A k \in 1 .. Len(J) : r.frame[J[k]].kind = "datagram"
    BY <1>7 DEF Asking
  <2>2. Pending(r) <=> Pending(t)
    BY <1>7 DEF Pending
  <2>3. J # <<>> => r.frame[J[1]] = t.frame[J[1]]
    BY <1>1, <1>7, FirstJob
  <2>4. r.phase = 1 /\ r.expired => r.status[Sys] = 0
    <3>1. CASE t.expired
      BY <3>1, <1>7, <1>8 DEF Asking
    <3>2. CASE late
      BY <3>2, <1>3, <1>6, <1>7, <1>8
    <3> QED BY <3>1, <3>2, <1>7
  <2>5. r.status[Sys] = 1 => r.phase = 1
    BY <1>7, <1>8 DEF Asking
  <2>6. r.phase = 0 => n = 0
    BY <1>7 DEF Asking
  <2>7. r.phase # 0 => /\ J # <<>>
                       /\ r.frame[Sys].hop = r.frame[J[1]].hop
                       /\ n + (IF Pending(r) THEN 1 ELSE 0) = r.trycnt
                       /\ r.trycnt \in 1 .. MaxTries
    BY <2>2, <2>3, <1>7 DEF Asking
  <2> QED BY <2>1, <2>4, <2>5, <2>6, <2>7 DEF Asking
<1>10. ReadyAs(t, r, J, a, n)
  BY <1>6, <1>7, <1>9 DEF ReadyAs
<1> QED BY <1>4, <1>10

\* The table after a frame.
LEMMA AnnouncedHolds ==
  ASSUME NEW t, NEW M, NEW f \in Arriving, Holds(t, M)
  PROVE  Holds(TableAfter(t, f), IF Announces(f) THEN MruUpdate(M, f.ip, f.mac) ELSE M)
<1>1. CASE Announces(f)
  <2>1. f.ip \in Ip /\ f.mac \in Mac
    <3>1. f \in Heard
      BY <1>1 DEF Arriving, Datagram, Announces
    <3> QED BY <3>1, NetAssumption
  <2>2. Holds(Update(t, f.ip, f.mac), MruUpdate(M, f.ip, f.mac))
    BY <2>1, UpdateHolds
  <2> QED BY <2>2, <1>1 DEF TableAfter
<1>2. CASE ~Announces(f)
  BY <1>2 DEF TableAfter
<1> QED BY <1>1, <1>2

\* From what ReleaseSent left to the end of a step.
LEMMA StepFrom ==
  ASSUME NEW t, NEW r, NEW s, NEW J, NEW a, NEW n, NEW tab, t \in FieldType, s \in FieldType,
         r.jfirst = t.jfirst, \A q \in Packet : r.status[q] = 1 => t.status[q] = 1,
         r \in FieldType, TxStep(r, s, J, a, n, tab)
  PROVE  TxOk(s, a, Asked(t, s, n)) /\ StepAs(t, s, J, n, tab)
<1>1. Asked(t, s, n) = Asked(r, s, n)
  BY DEF Asked
<1>2. TxOk(s, a, Asked(t, s, n))
  BY <1>1 DEF TxStep, TxOk
<1>3. \A p \in 1 .. Pool : t.status[p] = 0 => r.status[p] = 0
  <2>1. \A p \in 1 .. Pool : r.status[p] \in {0, 1} /\ p \in Packet
    BY Typed, SeqTypes
  <2> QED BY <2>1
<1>4. PacketStep(r, s, J, n, tab)
  BY DEF TxStep
<1>5. StepAs(t, s, J, n, tab)
  BY <1>3, <1>4 DEF StepAs, PacketStep
<1> QED BY <1>2, <1>5

\* TNetAdapter::Run.
LEMMA RunOrdered ==
  ASSUME Links = {TRUE}, Ordered, NEW late \in BOOLEAN, Run(late)
  PROVE  Ordered' /\ StepAs(tx, tx', Jobs(tx), asked, table')
<1>1. PICK up \in Links, k \in 0 .. (IF running THEN Burst ELSE 0) :
        LET r == Arrived(rx, k)
            t == ReleaseSent([tx EXCEPT !.expired = @ \/ late])
        IN /\ CanArrive(k)
           /\ late => MayExpire
           /\ running' = up
           /\ RunIdle(r, t, up) \/ \E f \in Arriving : RunReceive(r, t, up, f)
  BY Zenon DEF Run
<1>2. asked' = Asked(tx, tx', asked) /\ at' = at
  BY DEF Run, CountAsked, Asked
<1>3. PICK F, C, J, m : InPlace(tx, F, C, J, Null, at, m) /\ Asking(tx, J, asked)
  BY DEF Ordered, TxOk
<1>4. asked \in Nat /\ Holds(table, mru) /\ running = TRUE
  BY DEF Ordered
<1>5. Jobs(tx) = J
  BY <1>3, ListsAre
<1>6. PICK r : r = Arrived(rx, k)
  OBVIOUS
<1>7. PICK t : t = ReleaseSent([tx EXCEPT !.expired = @ \/ late])
  OBVIOUS
<1>8. /\ late => MayExpire
      /\ running' = TRUE
      /\ RunIdle(r, t, up) \/ \E f \in Arriving : RunReceive(r, t, up, f)
  BY <1>1, <1>6, <1>7
<1>9. ReadyAs(tx, t, J, at, asked)
  <2>1. late /\ tx.phase = 1 => tx.ring[tx.idx[Sys]] = Null
    BY <1>4, <1>8 DEF MayExpire, SendFinished
  <2> QED BY <2>1, <1>3, <1>4, <1>7, RunReady
<1>10. PICK G, D : InPlace(t, G, D, J, Null, at, 0)
  BY <1>9 DEF ReadyAs
<1>11. /\ Asking(t, J, asked) /\ t.jfirst = tx.jfirst
       /\ \A q \in Packet : t.status[q] = 1 => tx.status[q] = 1
  BY <1>9 DEF ReadyAs
<1>12. tx \in FieldType /\ t \in FieldType
  BY <1>3, <1>10 DEF InPlace
<1>13. ASSUME NEW s, NEW tab, s = tx', tab = table', TxStep(t, s, J, at, asked, tab),
              Holds(table', mru')
       PROVE  Ordered' /\ StepAs(tx, tx', Jobs(tx), asked, table')
  <2>1. s \in FieldType
    BY <1>13 DEF TxStep, InPlace
  <2>2. TxOk(s, at, Asked(tx, s, asked)) /\ StepAs(tx, s, J, asked, tab)
    BY <2>1, <1>11, <1>12, <1>13, StepFrom
  <2>3. asked' \in Nat
    BY <1>2, <1>4 DEF Asked
  <2> QED BY <2>2, <2>3, <1>2, <1>5, <1>8, <1>13 DEF Ordered
<1>14. CASE RunIdle(r, t, up)
  <2>1. tx' = ArpRun(t, table) /\ table' = table /\ mru' = mru
    BY <1>14 DEF RunIdle
  <2>2. PICK tab : tab = table
    OBVIOUS
  <2>3. LooksUp(tab)
    BY <2>2, <1>4, HoldsLooksUp
  <2>4. JobsWorked(t, ArpRun(t, tab), J, at, 0, asked, tab)
    BY <2>3, <1>4, <1>10, <1>11, ArpRunKeeps
  <2>5. TxStep(t, ArpRun(t, tab), J, at, asked, tab)
    BY <2>4 DEF JobsWorked, TxStep
  <2>6. PICK s : s = tx'
    OBVIOUS
  <2>7. TxStep(t, s, J, at, asked, tab) /\ tab = table' /\ Holds(table', mru')
    BY <2>1, <2>2, <2>5, <2>6, <1>4
  <2> QED BY <2>6, <2>7, <1>13
<1>15. CASE \E f \in Arriving : RunReceive(r, t, up, f)
  <2>1. PICK f \in Arriving : RunReceive(r, t, up, f)
    BY <1>15
  <2>2. /\ table' = TableAfter(table, f)
        /\ mru' = IF Announces(f) THEN MruUpdate(mru, f.ip, f.mac) ELSE mru
        /\ tx' = ArpRun(HandleRxPacket(t, table', f), table')
    BY <2>1 DEF RunReceive
  <2>3. Holds(table', mru')
    BY <2>2, <1>4, AnnouncedHolds
  <2>4. PICK tab : tab = table'
    OBVIOUS
  <2>5. LooksUp(tab)
    BY <2>3, <2>4, HoldsLooksUp
  <2>6. TxStep(t, ArpRun(HandleRxPacket(t, tab, f), tab), J, at, asked, tab)
    BY <2>5, <1>4, <1>10, <1>11, HandleKeeps
  <2>7. PICK s : s = tx'
    OBVIOUS
  <2>8. TxStep(t, s, J, at, asked, tab)
    BY <2>2, <2>4, <2>6, <2>7
  <2> QED BY <2>3, <2>4, <2>7, <2>8, <1>13
<1> QED BY <1>8, <1>14, <1>15

\* TUdp4Socket::Send.
LEMMA SendOrdered ==
  ASSUME Ordered, NEW d \in Dest, Send(d)
  PROVE  Ordered' /\ StepAs(tx, tx', Jobs(tx), asked, table')
<1>1. /\ tx.free # Null
      /\ tx' = SendWithArp(Allocate(tx, Frame("datagram", Hop[d], NoMac)), table, tx.free)
      /\ asked' = Asked(tx, tx', asked)
      /\ table' = table /\ running' = running /\ at' = at /\ mru' = mru
  BY DEF Send, CountAsked, Asked, Allocated
<1>2. PICK F, C, J, m : InPlace(tx, F, C, J, Null, at, m) /\ Asking(tx, J, asked)
  BY DEF Ordered, TxOk
<1>3. asked \in Nat /\ Holds(table, mru) /\ running = TRUE
  BY DEF Ordered
<1>4. Jobs(tx) = J
  BY <1>2, ListsAre
<1>5. PICK ip \in Ip : ip = Hop[d]
  BY NetAssumption
<1>6. PICK tab : tab = table
  OBVIOUS
<1>7. LooksUp(tab)
  BY <1>3, <1>6, HoldsLooksUp
<1>8. TxStep(tx, SendWithArp(Allocate(tx, Frame("datagram", ip, NoMac)), tab, tx.free),
             J, at, asked, tab)
  BY <1>1, <1>2, <1>3, <1>7, SendWithArpKeeps
<1>9. PICK s : s = tx'
  OBVIOUS
<1>10. TxStep(tx, s, J, at, asked, tab)
  BY <1>1, <1>5, <1>6, <1>8, <1>9
<1>11. tx \in FieldType /\ s \in FieldType
  BY <1>2, <1>10 DEF InPlace, TxStep
<1>12. TxOk(s, at, Asked(tx, s, asked)) /\ StepAs(tx, s, J, asked, tab)
  BY <1>10, <1>11, StepFrom
<1>13. asked' \in Nat
  BY <1>1, <1>3 DEF Asked
<1> QED BY <1>1, <1>3, <1>4, <1>6, <1>9, <1>12, <1>13 DEF Ordered

\* The MAC sends a frame.
LEMMA MacOrdered ==
  ASSUME Ordered, MacSends
  PROVE  Ordered' /\ StepAs(tx, tx', Jobs(tx), asked, table')
<1>1. /\ tx.ring[at] # Null /\ tx' = MacSent(tx, at) /\ at' = NextSlot(at)
      /\ asked' = Counted(tx, at, asked)
      /\ table' = table /\ running' = running /\ mru' = mru
  BY DEF MacSends, MacSent, Counted
<1>2. PICK F, C, J, m : InPlace(tx, F, C, J, Null, at, m) /\ Asking(tx, J, asked)
  BY DEF Ordered, TxOk
<1>3. asked \in Nat /\ Holds(table, mru) /\ running = TRUE
  BY DEF Ordered
<1>4. Jobs(tx) = J
  BY <1>2, ListsAre
<1>5. PICK l : l = asked'
  OBVIOUS
<1>6. /\ InPlace(MacSent(tx, at), F, C, J, Null, NextSlot(at), m + 1)
      /\ Asking(MacSent(tx, at), J, l) /\ l \in Nat
      /\ MacSent(tx, at).status = tx.status
      /\ \A k \in 1 .. Len(J) : MacSent(tx, at).frame[J[k]] # NoFrame
  <2>1. PICK w, b : w = tx /\ b = at
    OBVIOUS
  <2>2. PICK n \in Nat : n = asked
    BY <1>3
  <2>3. InPlace(w, F, C, J, Null, b, m) /\ Asking(w, J, n) /\ w.ring[b] # Null
    BY <2>1, <2>2, <1>1, <1>2
  <2>4. l = Counted(w, b, n)
    BY <2>1, <2>2, <1>1, <1>5
  <2>5. MacLeaves(w, MacSent(w, b), F, C, J, NextSlot(b), m + 1, l)
    BY <2>3, <2>4, MacKeeps
  <2> QED BY <2>1, <2>5 DEF MacLeaves
<1>7. TxOk(tx', at', asked')
  BY <1>1, <1>5, <1>6 DEF TxOk
<1>8. Ordered'
  BY <1>1, <1>3, <1>5, <1>6, <1>7 DEF Ordered
<1>9. StepAs(tx, tx', J, asked, table')
  <2>1. \A p \in 1 .. Pool : ~(tx.status[p] = 0 /\ tx'.status[p] = 1)
    BY <1>1, <1>6
  <2>2. \A k \in 1 .. Len(J) : tx'.frame[J[k]] # NoFrame
    BY <1>1, <1>6
  <2> QED BY <2>1, <2>2 DEF StepAs
<1> QED BY <1>4, <1>8, <1>9

\* Every step keeps the invariant, and moves the packets as StepAs says.
LEMMA NextOrdered ==
  ASSUME Links = {TRUE}, Ordered, Next
  PROVE  Ordered' /\ StepAs(tx, tx', Jobs(tx), asked, table')
<1>1. CASE \E late \in BOOLEAN : Run(late)
  BY <1>1, RunOrdered
<1>2. CASE \E d \in Dest : Send(d)
  BY <1>2, SendOrdered
<1>3. CASE \E so \in Socket : Receive(so)
  <2>1. UNCHANGED <<tx, table, running, at, mru, asked>>
    BY <1>3 DEF Receive
  <2>2. Ordered'
    BY <2>1 DEF Ordered, TxOk, Holds
  <2>3. PICK F, C, J, m : InPlace(tx, F, C, J, Null, at, m) /\ Asking(tx, J, asked)
    BY DEF Ordered, TxOk
  <2>4. Jobs(tx) = J
    BY <2>3, ListsAre
  <2>5. StepAs(tx, tx', J, asked, table')
    <3>1. \A k \in 1 .. Len(J) : tx.frame[J[k]] # NoFrame
      BY <2>3, Frames DEF Asking
    <3> QED BY <2>1, <3>1 DEF StepAs
  <2> QED BY <2>2, <2>4, <2>5
<1>4. CASE MacSends
  BY <1>4, MacOrdered
<1> QED BY <1>1, <1>2, <1>3, <1>4 DEF Next

\* The inductive invariant holds initially.
LEMMA InitOrdered ==
  ASSUME Init
  PROVE  Ordered
<1>1. at = 0 /\ asked = 0 /\ table = EmptyTable /\ mru = <<>> /\ running = TRUE
  BY DEF Init
<1>2. TxOk(tx, at, asked)
  BY <1>1, InitTx
<1>3. Holds(table, mru)
  BY <1>1, EmptyHolds
<1> QED BY <1>1, <1>2, <1>3 DEF Ordered

\* It holds after a step that changes nothing.
LEMMA StutterOrdered ==
  ASSUME Ordered, UNCHANGED vars
  PROVE  Ordered'
BY DEF Ordered, TxOk, Holds, vars

\* The inductive invariant holds always.
THEOREM AlwaysOrdered ==
  ASSUME Links = {TRUE}
  PROVE  Spec => []Ordered
<1>1. Init => Ordered
  BY InitOrdered
<1>2. Ordered /\ [Next]_vars => Ordered'
  BY NextOrdered, StutterOrdered
<1> QED BY <1>1, <1>2, PTL DEF Spec

-----------------------------------------------------------------------------
(* The properties. *)

\* The lists of the invariant are those that the pointers give.
LEMMA OrderedOnePlace ==
  ASSUME Ordered
  PROVE  OnePlace
<1>1. PICK F, C, J, m : InPlace(tx, F, C, J, Null, at, m) /\ Asking(tx, J, asked)
  BY DEF Ordered, TxOk
<1>2. Free(tx) = F /\ Chain(tx) = C /\ Jobs(tx) = J
  BY <1>1, ListsAre
<1>3. /\ F \in Seq(1 .. Pool) /\ C \in Seq(Packet) /\ J \in Seq(1 .. Pool)
      /\ \A p \in 1 .. Pool : p = Null \/ In(p, F) \/ In(p, C) \/ In(p, J)
      /\ Len(F) + Len(C) + Len(J) =
           Pool + tx.status[Sys] - (IF Null \in 1 .. Pool THEN 1 ELSE 0)
      /\ \A p \in Packet : tx.status[p] = 1 <=> In(p, C)
      /\ EndsAt(C, tx.slast) /\ EndsAt(J, tx.jlast) /\ tx \in FieldType
  BY <1>1 DEF InPlace, Places, Linkage
<1>4. Len(F) \in Nat /\ Len(C) \in Nat /\ Len(J) \in Nat
  BY <1>3
<1> DEFINE a == F \o C
           all == F \o C \o J
<1>5. F \in Seq(Packet) /\ J \in Seq(Packet)
  <2>1. 1 .. Pool \subseteq Packet
    BY SeqTypes
  <2> QED BY <2>1, <1>3, SeqMonotonic
<1>6. /\ a \in Seq(Packet) /\ Len(a) = Len(F) + Len(C)
      /\ \A k \in 1 .. Len(F) + Len(C) : a[k] = IF k <= Len(F) THEN F[k] ELSE C[k - Len(F)]
  BY <1>3, <1>5, ConcatProperties
<1> HIDE DEF a
<1>7. /\ a \o J \in Seq(Packet) /\ Len(a \o J) = Len(a) + Len(J)
      /\ \A k \in 1 .. Len(a) + Len(J) : (a \o J)[k] = IF k <= Len(a) THEN a[k] ELSE J[k - Len(a)]
  <2> DEFINE S == Packet
  <2>1. a \in Seq(S) /\ J \in Seq(S)
    BY <1>5, <1>6
  <2> HIDE DEF S
  <2>2. /\ a \o J \in Seq(S) /\ Len(a \o J) = Len(a) + Len(J)
        /\ \A k \in 1 .. Len(a) + Len(J) : (a \o J)[k] = IF k <= Len(a) THEN a[k] ELSE J[k - Len(a)]
    BY <2>1, ConcatProperties
  <2> QED BY <2>2 DEF S
<1>8. all = a \o J
  BY DEF a
<1> HIDE DEF all
<1>9. DOMAIN all = 1 .. Len(all) /\ \A k \in 1 .. Len(all) : all[k] \in Packet
  BY <1>7, <1>8
<1>10. \A p \in 1 .. Pool : p \in ToSet(all)
  <2> SUFFICES ASSUME NEW p \in 1 .. Pool PROVE \E k \in 1 .. Len(all) : all[k] = p
    BY <1>9 DEF ToSet
  <2>1. CASE In(p, F)
    <3>1. PICK k \in 1 .. Len(F) : F[k] = p
      BY <2>1 DEF In
    <3>2. k \in 1 .. Len(F) + Len(C) /\ k <= Len(F) /\ k \in 1 .. Len(a) + Len(J) /\ k <= Len(a)
      BY <1>4, <1>6
    <3> QED BY <3>1, <3>2, <1>6, <1>7, <1>8
  <2>2. CASE In(p, C)
    <3>1. PICK k \in 1 .. Len(C) : C[k] = p
      BY <2>2 DEF In
    <3> DEFINE j == Len(F) + k
    <3>2. /\ j \in 1 .. Len(F) + Len(C) /\ ~(j <= Len(F)) /\ j - Len(F) = k
          /\ j \in 1 .. Len(a) + Len(J) /\ j <= Len(a)
      BY <1>4, <1>6
    <3> HIDE DEF j
    <3> QED BY <3>1, <3>2, <1>6, <1>7, <1>8
  <2>3. CASE In(p, J)
    <3>1. PICK k \in 1 .. Len(J) : J[k] = p
      BY <2>3 DEF In
    <3> DEFINE j == Len(a) + k
    <3>2. j \in 1 .. Len(a) + Len(J) /\ ~(j <= Len(a)) /\ j - Len(a) = k
      BY <1>4, <1>6
    <3> HIDE DEF j
    <3> QED BY <3>1, <3>2, <1>7, <1>8
  <2>4. p # Null
    BY SeqTypes
  <2> QED BY <2>1, <2>2, <2>3, <2>4, <1>3
<1>11. ToSet(all) \ {Sys} = 1 .. Pool
  <2>1. \A p \in ToSet(all) : p \in Packet
    BY <1>9 DEF ToSet
  <2> QED BY <2>1, <1>10, SeqTypes
<1>12. Len(all) = Pool + tx.status[Sys]
  <2>1. (IF Null \in 1 .. Pool THEN 1 ELSE 0) = 0
    BY SeqTypes
  <2>2. tx.status[Sys] \in Nat /\ Pool \in Nat
    <3>1. tx.status \in [Packet -> {0, 1}]
      BY <1>3, Typed
    <3> QED BY <3>1, SeqTypes, Sizes
  <2> QED BY <2>1, <2>2, <1>3, <1>4, <1>6, <1>7, <1>8
<1>13. tx.status[Sys] = 1 <=> Sys \in ToSet(C)
  <2>1. Sys \in ToSet(C) <=> In(Sys, C)
    BY <1>3 DEF ToSet, In
  <2> QED BY <2>1, <1>3, SeqTypes
<1> QED BY <1>2, <1>3, <1>11, <1>12, <1>13 DEF OnePlace, all

\* A descriptor of the MAC is one of a packet in the chain.
LEMMA OrderedMacOwnsChain ==
  ASSUME Ordered
  PROVE  MacOwnsChain
<1>1. PICK F, C, J, m : InPlace(tx, F, C, J, Null, at, m) /\ Asking(tx, J, asked)
  BY DEF Ordered, TxOk
<1>2. Chain(tx) = C
  BY <1>1, ListsAre
<1> SUFFICES ASSUME NEW i \in Slot, tx.ring[i] # Null
             PROVE  tx.ring[i] \in ToSet(C) /\ tx.idx[tx.ring[i]] = i
  BY <1>2 DEF MacOwnsChain
<1>3. PICK k \in 1 .. Len(C) : i = Back(tx.slot, Len(C) + 1 - k)
  BY <1>1 DEF InPlace, Sending
<1>4. /\ tx.idx[C[k]] = i
      /\ tx.ring[i] = IF k <= m THEN Null ELSE C[k]
  BY <1>1, <1>3 DEF InPlace, Sending
<1>5. tx.ring[i] = C[k]
  BY <1>4
<1>6. C[k] \in ToSet(C)
  <2>1. C \in Seq(Packet)
    BY <1>1 DEF InPlace, Places
  <2> QED BY <2>1 DEF ToSet
<1> QED BY <1>4, <1>5, <1>6

\* Every packet of the pool is in one place of one list.
THEOREM OnePlaceHolds ==
  ASSUME Links = {TRUE}
  PROVE  Spec => []OnePlace
<1>1. Ordered => OnePlace
  BY OrderedOnePlace
<1> QED BY <1>1, AlwaysOrdered, PTL

\* A packet whose descriptor the MAC owns is in the sending chain.
THEOREM MacOwnsChainHolds ==
  ASSUME Links = {TRUE}
  PROVE  Spec => []MacOwnsChain
<1>1. Ordered => MacOwnsChain
  BY OrderedMacOwnsChain
<1> QED BY <1>1, AlwaysOrdered, PTL

\* A datagram goes to the station that announced the next hop's address last.
THEOREM GoesToLatestHolds ==
  ASSUME Links = {TRUE}
  PROVE  Spec => GoesToLatest
<1> DEFINE A == \A p \in 1 .. Pool :
                  tx.status[p] = 0 /\ tx'.status[p] = 1 /\ tx'.frame[p].kind = "datagram"
                  => LET k == SelectInSeq(mru', LAMBDA a: a.ip = tx'.frame[p].hop)
                     IN k # 0 /\ tx'.frame[p].mac = mru'[k].mac
<1>1. Ordered /\ Next => A
  <2> SUFFICES ASSUME Ordered, Next, NEW p \in 1 .. Pool,
                      tx.status[p] = 0, tx'.status[p] = 1, tx'.frame[p].kind = "datagram"
               PROVE  LET k == SelectInSeq(mru', LAMBDA a: a.ip = tx'.frame[p].hop)
                      IN k # 0 /\ tx'.frame[p].mac = mru'[k].mac
    OBVIOUS
  <2>1. StepAs(tx, tx', Jobs(tx), asked, table') /\ Holds(table', mru')
    <3>1. Ordered' /\ StepAs(tx, tx', Jobs(tx), asked, table')
      BY NextOrdered
    <3> QED BY <3>1 DEF Ordered
  <2>2. PICK ip : ip = tx'.frame[p].hop
    OBVIOUS
  <2>3. FindByIp(table', ip) # Null /\ tx'.frame[p].mac = table'.mac[FindByIp(table', ip)]
    BY <2>1, <2>2 DEF StepAs
  <2>4. PICK tab, M : tab = table' /\ M = mru'
    OBVIOUS
  <2>5. Latest(M, ip) # 0 /\ tab.mac[FindByIp(tab, ip)] = M[Latest(M, ip)].mac
    <3>1. Holds(tab, M) /\ FindByIp(tab, ip) # Null
      BY <2>1, <2>3, <2>4
    <3> QED BY <3>1, HoldsFinds
  <2>6. SelectInSeq(mru', LAMBDA a: a.ip = tx'.frame[p].hop) = Latest(M, ip)
    BY <2>2, <2>4 DEF Latest, SelectInSeq
  <2> QED BY <2>3, <2>4, <2>5, <2>6
<1>2. UNCHANGED vars => A
  BY DEF vars
<1>3. Ordered /\ [Next]_vars => [A]_vars
  BY <1>1
<1> HIDE DEF A
<1>4. Spec => [][A]_vars
  BY <1>3, AlwaysOrdered, PTL DEF Spec
<1> QED BY <1>4 DEF GoesToLatest, A

\* A datagram is not given up before all requests for its next hop went out.
THEOREM GivenUpLateHolds ==
  ASSUME Links = {TRUE}
  PROVE  Spec => GivenUpLate
<1> DEFINE A == \A p \in ToSet(Jobs(tx)) : tx'.frame[p] = NoFrame => asked = MaxTries
<1>1. Ordered /\ Next => A
  <2> SUFFICES ASSUME Ordered, Next, NEW p \in ToSet(Jobs(tx)), tx'.frame[p] = NoFrame
               PROVE  asked = MaxTries
    OBVIOUS
  <2>1. StepAs(tx, tx', Jobs(tx), asked, table')
    BY NextOrdered
  <2>2. PICK F, C, J, m : InPlace(tx, F, C, J, Null, at, m)
    BY DEF Ordered, TxOk
  <2>3. Jobs(tx) = J /\ J \in Seq(1 .. Pool)
    BY <2>2, ListsAre DEF InPlace, Places
  <2>4. PICK k \in 1 .. Len(J) : J[k] = p
    BY <2>3 DEF ToSet
  <2> QED BY <2>1, <2>3, <2>4 DEF StepAs
<1>2. Ordered /\ [Next]_vars => [A]_vars
  BY <1>1
<1> HIDE DEF A
<1>3. Spec => [][A]_vars
  BY <1>2, AlwaysOrdered, PTL DEF Spec
<1> QED BY <1>3 DEF GivenUpLate, A

\* The table follows the announcements, whatever the link does.
LEMMA NextHolds ==
  ASSUME Holds(table, mru), [Next]_vars
  PROVE  Holds(table', mru')
<1>1. ASSUME NEW late \in BOOLEAN, Run(late) PROVE Holds(table', mru')
  <2>1. PICK up \in Links, k \in 0 .. (IF running THEN Burst ELSE 0) :
          LET r == Arrived(rx, k)
              t == ReleaseSent([tx EXCEPT !.expired = @ \/ late])
          IN /\ CanArrive(k)
             /\ late => MayExpire
             /\ running' = up
             /\ RunIdle(r, t, up) \/ \E f \in Arriving : RunReceive(r, t, up, f)
    BY <1>1, Zenon DEF Run
  <2>2. PICK r : r = Arrived(rx, k)
    OBVIOUS
  <2>3. PICK t : t = ReleaseSent([tx EXCEPT !.expired = @ \/ late])
    OBVIOUS
  <2>4. RunIdle(r, t, up) \/ \E f \in Arriving : RunReceive(r, t, up, f)
    BY <2>1, <2>2, <2>3
  <2>5. CASE RunIdle(r, t, up)
    BY <2>5 DEF RunIdle
  <2>6. ASSUME NEW f \in Arriving, RunReceive(r, t, up, f) PROVE Holds(table', mru')
    <3>1. /\ table' = TableAfter(table, f)
          /\ mru' = IF Announces(f) THEN MruUpdate(mru, f.ip, f.mac) ELSE mru
      BY <2>6 DEF RunReceive
    <3> QED BY <3>1, AnnouncedHolds
  <2> QED BY <2>4, <2>5, <2>6
<1>2. CASE UNCHANGED <<table, mru>>
  BY <1>2
<1>3. (\E d \in Dest : Send(d)) \/ (\E so \in Socket : Receive(so)) \/ MacSends
      => UNCHANGED <<table, mru>>
  BY DEF Send, Receive, MacSends
<1> QED BY <1>1, <1>2, <1>3 DEF Next, vars

\* The table stands always for the announcements, whatever the links do.
THEOREM AlwaysHolds == Spec => []Holds(table, mru)
<1>1. Init => Holds(table, mru)
  BY EmptyHolds DEF Init
<1>2. Holds(table, mru) /\ [Next]_vars => Holds(table, mru)'
  BY NextHolds
<1> QED BY <1>1, <1>2, PTL DEF Spec

\* The table holds the last stations that announced themselves.
THEOREM TableIsMruHolds == Spec => []TableIsMru
<1>1. Holds(table, mru) => TableIsMru
  BY HoldsTable DEF TableIsMru
<1> QED BY <1>1, AlwaysHolds, PTL

-----------------------------------------------------------------------------
(* The receive side. *)

\* The type of the receive side.
RxType ==
  [desc : [RxSlot -> {"empty", "filled", "taken"}], cur : RxSlot, at : RxSlot,
   next : [RxSlot -> RxSlot \cup {Null}],
   first : [Socket -> RxSlot \cup {Null}], last : [Socket -> RxSlot \cup {Null}]]

\* The descriptors from s on, once around.
Round(s, path) == path = [k \in 1 .. MaxRx |-> IF k = 1 THEN s ELSE NextRxSlot(path[k - 1])]
Around(s, k) == IF s + k - 1 <= MaxRx THEN s + k - 1 ELSE s + k - 1 - MaxRx

\* The k-th descriptor from one on.
LEMMA AroundIs ==
  ASSUME NEW s \in RxSlot
  PROVE  /\ Around(s, 1) = s
         /\ \A k \in 2 .. MaxRx : Around(s, k) = NextRxSlot(Around(s, k - 1))
         /\ \A k \in 1 .. MaxRx : Around(s, k) \in RxSlot
<1>1. MaxRx \in Nat /\ MaxRx > 0 /\ s \in 1 .. MaxRx
  BY Sizes DEF RxSlot
<1> QED BY <1>1 DEF Around, NextRxSlot, RxSlot

\* The recursive function of Ring and Ahead exists.
LEMMA RoundExists ==
  ASSUME NEW s \in RxSlot
  PROVE  Round(s, CHOOSE f : Round(s, f))
<1> DEFINE g == [k \in 1 .. MaxRx |-> Around(s, k)]
<1>1. \A k \in 2 .. MaxRx : g[k - 1] = Around(s, k - 1)
  BY Sizes
<1>2. \A k \in 1 .. MaxRx : Around(s, k) = IF k = 1 THEN s ELSE NextRxSlot(g[k - 1])
  BY <1>1, AroundIs, Sizes
<1>3. Round(s, g)
  BY <1>2 DEF Round
<1> QED BY <1>3

\* It goes around the ring, and meets every descriptor.
LEMMA RoundIs ==
  ASSUME NEW s \in RxSlot, NEW path, Round(s, path)
  PROVE  /\ \A k \in 1 .. MaxRx : path[k] = Around(s, k) /\ path[k] \in RxSlot
         /\ \A i \in RxSlot : \E k \in 1 .. MaxRx : path[k] = i
<1>1. MaxRx \in Nat /\ MaxRx > 0 /\ s \in 1 .. MaxRx
  BY Sizes DEF RxSlot
<1>2. Around(s, 1) = s
  BY AroundIs
<1>3. \A k \in 2 .. MaxRx : Around(s, k) = NextRxSlot(Around(s, k - 1))
  BY AroundIs
<1>6. \A k \in 1 .. MaxRx : path[k] = IF k = 1 THEN s ELSE NextRxSlot(path[k - 1])
  BY DEF Round
<1>7. \A k \in 1 .. MaxRx : path[k] = Around(s, k)
  <2> DEFINE Bad == {k \in 1 .. MaxRx : path[k] # Around(s, k)}
  <2>1. SUFFICES ASSUME Bad # {} PROVE FALSE
    OBVIOUS
  <2>2. PICK k \in Bad : \A j \in Bad : k <= j
    <3>1. Bad \subseteq Nat
      BY <1>1
    <3> HIDE DEF Bad
    <3> QED BY <2>1, <3>1, Least
  <2>3. CASE k = 1
    BY <2>2, <2>3, <1>1, <1>2, <1>6
  <2>4. CASE k # 1
    <3>1. k - 1 \in 1 .. MaxRx /\ k - 1 \notin Bad /\ k \in 2 .. MaxRx
      BY <2>2, <2>4, <1>1
    <3>2. path[k - 1] = Around(s, k - 1)
      BY <3>1
    <3> QED BY <2>2, <2>4, <3>1, <3>2, <1>3, <1>6
  <2> QED BY <2>3, <2>4
<1>8. \A k \in 1 .. MaxRx : Around(s, k) \in RxSlot
  BY AroundIs
<1>9. ASSUME NEW i \in RxSlot PROVE \E k \in 1 .. MaxRx : path[k] = i
  <2>1. i \in 1 .. MaxRx
    BY DEF RxSlot
  <2>2. CASE i >= s
    <3>1. i - s + 1 \in 1 .. MaxRx /\ Around(s, i - s + 1) = i
      BY <2>1, <2>2, <1>1 DEF Around
    <3> QED BY <3>1, <1>7
  <2>3. CASE i < s
    <3>1. i - s + 1 + MaxRx \in 1 .. MaxRx /\ Around(s, i - s + 1 + MaxRx) = i
      BY <2>1, <2>3, <1>1 DEF Around
    <3> QED BY <3>1, <1>7
  <2> QED BY <2>1, <2>2, <2>3, <1>1
<1> QED BY <1>7, <1>8, <1>9

\* The members of the receive side.
LEMMA RxTyped ==
  ASSUME NEW r \in RxType
  PROVE  /\ r.desc \in [RxSlot -> {"empty", "filled", "taken"}]
         /\ r.cur \in RxSlot /\ r.at \in RxSlot
         /\ r.next \in [RxSlot -> RxSlot \cup {Null}]
         /\ r.first \in [Socket -> RxSlot \cup {Null}] /\ r.last \in [Socket -> RxSlot \cup {Null}]
BY DEF RxType

\* The descriptors of the receive ring.
LEMMA RxSlots ==
  /\ RxSlot = 1 .. MaxRx /\ MaxRx \in Nat /\ MaxRx > 0 /\ 1 \in RxSlot
  /\ Null = 0 /\ Null \notin RxSlot
  /\ \A i \in RxSlot : NextRxSlot(i) \in RxSlot
BY Sizes DEF RxSlot, NextRxSlot

\* What the MAC fills are descriptors.
LEMMA RingIs ==
  ASSUME NEW r \in RxType
  PROVE  \A k \in 1 .. MaxRx : Ring(r)[k] \in RxSlot
<1> DEFINE path == CHOOSE f : Round(r.at, f)
<1>1. r.at \in RxSlot
  BY RxTyped
<1>2. Ring(r) = [k \in 1 .. MaxRx |-> path[k]]
  BY DEF Ring, Round
<1>3. \A k \in 1 .. MaxRx : path[k] \in RxSlot
  <2>1. Round(r.at, path)
    BY <1>1, RoundExists
  <2> HIDE DEF path
  <2> QED BY <2>1, <1>1, RoundIs
<1> HIDE DEF path
<1> QED BY <1>2, <1>3

\* The frames that arrive change empty descriptors only.
ArrivedAs(r, s) ==
  /\ s \in RxType
  /\ s.next = r.next /\ s.first = r.first /\ s.last = r.last
  /\ \A i \in RxSlot : s.desc[i] = r.desc[i] \/ (r.desc[i] = "empty" /\ s.desc[i] = "filled")

\* The frames that arrive, member by member.
LEMMA ArrivedFields ==
  ASSUME NEW r \in RxType, NEW n \in 0 .. MaxRx, \A k \in 1 .. n : r.desc[Ring(r)[k]] = "empty"
  PROVE  ArrivedAs(r, Arrived(r, n))
<1> DEFINE ring == Ring(r)
           desc == [i \in RxSlot |-> IF \E k \in 1 .. n : ring[k] = i THEN "filled" ELSE r.desc[i]]
           at2 == IF n = MaxRx THEN r.at ELSE ring[n + 1]
           s == [r EXCEPT !.desc = desc, !.at = at2]
<1>1. Arrived(r, n) = s
  BY DEF Arrived
<1>2. r.desc \in [RxSlot -> {"empty", "filled", "taken"}] /\ r.at \in RxSlot
  BY RxTyped
<1>3. desc \in [RxSlot -> {"empty", "filled", "taken"}]
  BY <1>2
<1>4. ASSUME NEW i \in RxSlot
      PROVE  desc[i] = r.desc[i] \/ (r.desc[i] = "empty" /\ desc[i] = "filled")
  <2> HIDE DEF ring
  <2> DEFINE hit == \E k \in 1 .. n : ring[k] = i
  <2>0. (hit => desc[i] = "filled") /\ (~hit => desc[i] = r.desc[i])
    OBVIOUS
  <2> HIDE DEF desc
  <2>1. CASE hit
    <3>1. r.desc[i] = "empty"
      BY <2>1 DEF ring
    <3> HIDE DEF hit
    <3> QED BY <2>0, <2>1, <3>1
  <2> HIDE DEF hit
  <2>2. CASE ~hit
    BY <2>0, <2>2
  <2> QED BY <2>1, <2>2
<1>5. at2 \in RxSlot
  <2>1. CASE n = MaxRx
    BY <2>1, <1>2
  <2>2. CASE n # MaxRx
    <3>1. n + 1 \in 1 .. MaxRx
      BY <2>2, RxSlots
    <3>2. ring[n + 1] \in RxSlot
      BY <3>1, RingIs
    <3> QED BY <2>2, <3>2
  <2> QED BY <2>1, <2>2
<1> HIDE DEF desc, at2
<1>6. s \in RxType
  BY <1>3, <1>5 DEF RxType
<1>7. s.next = r.next /\ s.first = r.first /\ s.last = r.last /\ s.desc = desc
  BY DEF RxType
<1> HIDE DEF s
<1>8. ArrivedAs(r, s)
  BY <1>4, <1>6, <1>7 DEF ArrivedAs
<1> QED BY <1>1, <1>8

\* The descriptor that TryRecv finds.
LEMMA ReceivedIs ==
  ASSUME NEW r \in RxType
  PROVE  /\ Received(r) \in RxSlot \cup {Null}
         /\ Marks /\ Received(r) # Null => r.desc[Received(r)] = "filled"
<1>1. r.desc \in [RxSlot -> {"empty", "filled", "taken"}] /\ r.cur \in RxSlot /\ r.at \in RxSlot
  BY RxTyped
<1>2. MaxRx \in Nat /\ RxSlot = 1 .. MaxRx /\ Null = 0
  BY RxSlots
<1>3. CASE Marks
  <2> DEFINE I == {i \in 1 .. Len(r.desc) : r.desc[i] = "filled"}
             k == IF I # {} THEN Min(I) ELSE 0
  <2>1. Received(r) = k
    BY <1>3 DEF Received, SelectInSeq
  <2>2. Len(r.desc) = MaxRx
    <3>1. r.desc \in [1 .. MaxRx -> {"empty", "filled", "taken"}]
      BY <1>1, <1>2
    <3> QED BY <3>1, <1>2, LenProperties, SeqDef
  <2>3. I \subseteq 1 .. MaxRx
    BY <2>2
  <2>4. \A i \in I : r.desc[i] = "filled"
    OBVIOUS
  <2>5. k \in 0 .. MaxRx /\ (k # 0 => k \in I)
    <3> HIDE DEF I
    <3>1. k \in 0 .. MaxRx /\ (k = 0 <=> I = {}) /\ (k # 0 => k \in I /\ \A j \in I : k <= j)
      BY <1>2, <2>3, LeastIndex
    <3> QED BY <3>1
  <2> HIDE DEF k, I
  <2> QED BY <2>1, <2>4, <2>5, <1>2
<1>4. CASE ~Marks
  <2> DEFINE path == CHOOSE f : Round(r.cur, f)
             n == CHOOSE k \in 1 .. MaxRx : path[k] = r.at
             ahead == [k \in 1 .. n |-> path[k]]
             I == {i \in 1 .. Len(ahead) : r.desc[ahead[i]] # "empty"}
             k == IF I # {} THEN Min(I) ELSE 0
  <2>1. Ahead(r) = ahead
    BY DEF Ahead, Round
  <2>2. /\ \A j \in 1 .. MaxRx : path[j] \in RxSlot
        /\ \E j \in 1 .. MaxRx : path[j] = r.at
    <3>1. Round(r.cur, path)
      BY <1>1, RoundExists
    <3> HIDE DEF path
    <3> QED BY <3>1, <1>1, RoundIs
  <2> HIDE DEF path
  <2>3. n \in 1 .. MaxRx
    BY <2>2
  <2> HIDE DEF n
  <2>4. ahead \in Seq(RxSlot) /\ Len(ahead) = n
    <3>1. n \in Nat /\ \A j \in 1 .. n : j \in 1 .. MaxRx
      BY <2>3, <1>2
    <3>2. ahead \in [1 .. n -> RxSlot]
      BY <3>1, <2>2
    <3> QED BY <3>1, <3>2, SeqDef
  <2> HIDE DEF ahead
  <2>5. Received(r) = IF k = 0 THEN Null ELSE ahead[k]
    BY <1>4, <2>1 DEF Received, SelectInSeq
  <2>6. k = 0 \/ k \in 1 .. n
    <3>1. n \in Nat /\ I \subseteq 1 .. n
      BY <2>3, <2>4
    <3> HIDE DEF I
    <3>2. k \in 0 .. n /\ (k = 0 <=> I = {}) /\ (k # 0 => k \in I /\ \A j \in I : k <= j)
      BY <3>1, LeastIndex
    <3> QED BY <3>1, <3>2
  <2> HIDE DEF k
  <2>7. k \in 1 .. n => ahead[k] \in RxSlot
    BY <2>4
  <2> QED BY <2>5, <2>6, <2>7, <1>4
<1> QED BY <1>3, <1>4

\* Q are the packets in the sockets' lists.
Queued(r, Q) ==
  /\ r \in RxType
  /\ Q \in [Socket -> Seq(RxSlot)]
  /\ \A so \in Socket : /\ Distinct(Q[so]) /\ Linked(r.first[so], r.next, Q[so])
                        /\ EndsAt(Q[so], r.last[so])
  /\ \A so, other \in Socket : so # other => Apart(Q[so], Q[other])
  /\ \A i \in RxSlot : r.desc[i] = "taken" <=> \E so \in Socket : In(i, Q[so])

\* Descriptors change that are in no list.
LEMMA DescKeeps ==
  ASSUME NEW r, NEW Q, NEW s \in RxType, Queued(r, Q),
         s.next = r.next, s.first = r.first, s.last = r.last,
         \A i \in RxSlot : s.desc[i] = "taken" <=> r.desc[i] = "taken"
  PROVE  Queued(s, Q)
BY DEF Queued

\* What AddRxPacket does to the lists.
AddedRxAs(r, so, i, s) ==
  /\ s \in RxType /\ s.desc = r.desc
  /\ s.first = (IF r.last[so] = Null THEN [r.first EXCEPT ![so] = i] ELSE r.first)
  /\ s.last = [r.last EXCEPT ![so] = i]
  /\ \A q \in RxSlot : s.next[q] = IF q = r.last[so] THEN i ELSE IF q = i THEN Null ELSE r.next[q]

\* AddRxPacket, member by member.
LEMMA AddRxFields ==
  ASSUME NEW r \in RxType, NEW so \in Socket, NEW i \in RxSlot
  PROVE  AddedRxAs(r, so, i, AddRxPacket(r, so, i))
<1> DEFINE e == [r EXCEPT !.next[i] = Null]
           s == AddRxPacket(r, so, i)
<1>1. /\ r.next \in [RxSlot -> RxSlot \cup {Null}] /\ r.last[so] \in RxSlot \cup {Null}
      /\ r.first \in [Socket -> RxSlot \cup {Null}] /\ r.last \in [Socket -> RxSlot \cup {Null}]
      /\ Null \notin RxSlot
  BY RxTyped, RxSlots
<1>2. /\ e \in RxType /\ e.desc = r.desc /\ e.first = r.first /\ e.last = r.last
      /\ e.next = [r.next EXCEPT ![i] = Null]
  <2>1. e \in RxType
    BY <1>1 DEF RxType
  <2> QED BY <2>1 DEF RxType
<1>3. s = IF e.last[so] # Null THEN [e EXCEPT !.next[e.last[so]] = i, !.last[so] = i]
                              ELSE [e EXCEPT !.first[so] = i, !.last[so] = i]
  BY DEF AddRxPacket
<1> HIDE DEF e, s
<1>4. ASSUME r.last[so] # Null PROVE AddedRxAs(r, so, i, s)
  <2> DEFINE c == [e EXCEPT !.next[r.last[so]] = i, !.last[so] = i]
  <2>1. s = c
    BY <1>2, <1>3, <1>4
  <2>2. r.last[so] \in RxSlot
    BY <1>1, <1>4
  <2>3. c \in RxType
    BY <1>1, <1>2, <2>2 DEF RxType
  <2>4. /\ c.desc = e.desc /\ c.first = e.first /\ c.last = [e.last EXCEPT ![so] = i]
        /\ c.next = [e.next EXCEPT ![r.last[so]] = i]
    BY <1>2 DEF RxType
  <2> HIDE DEF c
  <2>5. \A q \in RxSlot : c.next[q] = IF q = r.last[so] THEN i ELSE IF q = i THEN Null ELSE r.next[q]
    BY <1>1, <1>2, <2>2, <2>4
  <2>6. AddedRxAs(r, so, i, c)
    BY <1>2, <1>4, <2>3, <2>4, <2>5 DEF AddedRxAs
  <2> QED BY <2>1, <2>6
<1>5. ASSUME r.last[so] = Null PROVE AddedRxAs(r, so, i, s)
  <2> DEFINE c == [e EXCEPT !.first[so] = i, !.last[so] = i]
  <2>1. s = c
    BY <1>2, <1>3, <1>5
  <2>2. c \in RxType
    BY <1>1, <1>2 DEF RxType
  <2>3. /\ c.desc = e.desc /\ c.first = [e.first EXCEPT ![so] = i]
        /\ c.last = [e.last EXCEPT ![so] = i] /\ c.next = e.next
    BY <1>2 DEF RxType
  <2> HIDE DEF c
  <2>4. \A q \in RxSlot : c.next[q] = IF q = r.last[so] THEN i ELSE IF q = i THEN Null ELSE r.next[q]
    BY <1>1, <1>2, <1>5, <2>3
  <2>5. AddedRxAs(r, so, i, c)
    BY <1>2, <1>5, <2>2, <2>3, <2>4 DEF AddedRxAs
  <2> QED BY <2>1, <2>5
<1>6. AddedRxAs(r, so, i, s)
  BY <1>4, <1>5
<1> QED BY <1>6 DEF s

\* A packet that the lists do not hold is in none of them.
LEMMA NotQueued ==
  ASSUME NEW r, NEW Q, Queued(r, Q), NEW i \in RxSlot, r.desc[i] # "taken"
  PROVE  \A so \in Socket : ~In(i, Q[so])
BY DEF Queued

\* The list of one socket.
LEMMA QueueOf ==
  ASSUME NEW r, NEW Q, Queued(r, Q), NEW so \in Socket
  PROVE  /\ Q[so] \in Seq(RxSlot) /\ Distinct(Q[so]) /\ Linked(r.first[so], r.next, Q[so])
         /\ Len(Q[so]) \in Nat /\ \A k \in 1 .. Len(Q[so]) : Q[so][k] \in RxSlot
         /\ r.first[so] = (IF Q[so] = <<>> THEN Null ELSE Q[so][1])
         /\ r.last[so] = (IF Q[so] = <<>> THEN Null ELSE Q[so][Len(Q[so])])
         /\ (Q[so] = <<>> <=> Len(Q[so]) = 0)
         /\ r.first[so] = Null <=> Q[so] = <<>>
         /\ r.last[so] = Null <=> Q[so] = <<>>
<1>1. Q[so] \in Seq(RxSlot) /\ Distinct(Q[so]) /\ Linked(r.first[so], r.next, Q[so])
      /\ EndsAt(Q[so], r.last[so])
  BY DEF Queued
<1>2. PICK L : L = Q[so]
  OBVIOUS
<1>3. /\ Len(L) \in Nat /\ \A k \in 1 .. Len(L) : L[k] \in RxSlot
      /\ (L = <<>> <=> Len(L) = 0)
  BY <1>1, <1>2, Empty
<1>4. /\ r.first[so] = (IF L = <<>> THEN Null ELSE L[1])
      /\ r.last[so] = (IF L = <<>> THEN Null ELSE L[Len(L)])
  BY <1>1, <1>2 DEF Linked, EndsAt
<1>5. L # <<>> => L[1] \in RxSlot /\ L[Len(L)] \in RxSlot
  BY <1>3
<1> QED BY <1>1, <1>2, <1>3, <1>4, <1>5, RxSlots

\* TryRecv marks the descriptor, and the packet goes to the end of a list.
LEMMA KeepKeeps ==
  ASSUME NEW r, NEW Q, Queued(r, Q), NEW i \in RxSlot, r.desc[i] = "filled",
         NEW w \in RxType, w.desc = [r.desc EXCEPT ![i] = "taken"],
         w.next = r.next, w.first = r.first, w.last = r.last,
         NEW so \in Socket, NEW s, AddedRxAs(w, so, i, s)
  PROVE  Queued(s, [Q EXCEPT ![so] = Append(Q[so], i)])
<1> DEFINE N == [Q EXCEPT ![so] = Append(Q[so], i)]
<1>1. /\ r \in RxType /\ Q \in [Socket -> Seq(RxSlot)]
      /\ \A x, y \in Socket : x # y => Apart(Q[x], Q[y])
      /\ \A q \in RxSlot : r.desc[q] = "taken" <=> \E x \in Socket : In(q, Q[x])
  BY DEF Queued
<1>2. /\ s \in RxType /\ s.desc = w.desc
      /\ s.first = (IF w.last[so] = Null THEN [w.first EXCEPT ![so] = i] ELSE w.first)
      /\ s.last = [w.last EXCEPT ![so] = i]
      /\ \A q \in RxSlot : s.next[q] = IF q = w.last[so] THEN i ELSE IF q = i THEN Null ELSE w.next[q]
  BY DEF AddedRxAs
<1>3. \A x \in Socket : ~In(i, Q[x])
  BY NotQueued
<1>4. /\ w.first \in [Socket -> RxSlot \cup {Null}] /\ w.last \in [Socket -> RxSlot \cup {Null}]
      /\ r.desc \in [RxSlot -> {"empty", "filled", "taken"}]
  BY <1>1, RxTyped
<1>5. PICK L : L = Q[so]
  OBVIOUS
<1>6. /\ L \in Seq(RxSlot) /\ Distinct(L) /\ Linked(w.first[so], w.next, L) /\ ~In(i, L)
      /\ Len(L) \in Nat /\ \A k \in 1 .. Len(L) : L[k] \in RxSlot
      /\ w.last[so] = (IF L = <<>> THEN Null ELSE L[Len(L)])
      /\ w.last[so] = Null <=> L = <<>>
      /\ (L = <<>> <=> Len(L) = 0)
  BY <1>3, <1>5, QueueOf
<1>7. /\ Append(L, i) \in Seq(RxSlot) /\ Distinct(Append(L, i))
      /\ \A q : In(q, Append(L, i)) <=> q = i \/ In(q, L)
      /\ EndsAt(Append(L, i), i)
  BY <1>6, AppendList
<1>8. N = [x \in Socket |-> IF x = so THEN Append(L, i) ELSE Q[x]] /\ N \in [Socket -> Seq(RxSlot)]
  BY <1>1, <1>5, <1>7
<1> HIDE DEF N
<1>9. N[so] = Append(L, i) /\ \A x \in Socket : x # so => N[x] = Q[x]
  BY <1>8
<1>10. w.last[so] # i
  <2>1. CASE L = <<>>
    BY <2>1, <1>6, RxSlots
  <2>2. CASE L # <<>>
    <3>1. Len(L) \in 1 .. Len(L) /\ w.last[so] = L[Len(L)]
      BY <2>2, <1>6
    <3> QED BY <3>1, <1>6 DEF In
  <2> QED BY <2>1, <2>2
<1>11. Linked(s.first[so], s.next, Append(L, i))
  <2>1. s.next[i] = Null
    BY <1>2, <1>10
  <2>2. ASSUME NEW k \in 1 .. Len(L)
        PROVE  s.next[L[k]] = IF k = Len(L) THEN i ELSE w.next[L[k]]
    <3>1. L[k] \in RxSlot /\ L[k] # i /\ w.last[so] = L[Len(L)] /\ Len(L) \in 1 .. Len(L)
      BY <1>6 DEF In
    <3>2. L[k] = w.last[so] <=> k = Len(L)
      BY <3>1, <1>6 DEF Distinct
    <3> QED BY <3>1, <3>2, <1>2
  <2>3. Linked(IF L = <<>> THEN i ELSE w.first[so], s.next, Append(L, i))
    BY <2>1, <2>2, <1>6, LinkedAppend
  <2>4. s.first[so] = IF L = <<>> THEN i ELSE w.first[so]
    BY <1>2, <1>4, <1>6
  <2> QED BY <2>3, <2>4
<1>12. ASSUME NEW x \in Socket, x # so
       PROVE  Distinct(Q[x]) /\ Linked(s.first[x], s.next, Q[x]) /\ EndsAt(Q[x], s.last[x])
  <2>1. PICK M : M = Q[x]
    OBVIOUS
  <2>2. /\ Distinct(M) /\ Linked(w.first[x], w.next, M) /\ EndsAt(M, w.last[x])
        /\ \A k \in 1 .. Len(M) : M[k] \in RxSlot /\ M[k] # i
    <3>1. /\ Distinct(M) /\ Linked(w.first[x], w.next, M)
          /\ \A k \in 1 .. Len(M) : M[k] \in RxSlot
      BY <2>1, QueueOf
    <3>2. EndsAt(M, w.last[x])
      BY <2>1 DEF Queued
    <3> QED BY <3>1, <3>2, <2>1, <1>3 DEF In
  <2>3. \A k \in 1 .. Len(M) : M[k] # w.last[so]
    <3>1. CASE L = <<>>
      BY <3>1, <2>2, <1>6, RxSlots
    <3>2. CASE L # <<>>
      <4>1. Len(L) \in 1 .. Len(L) /\ w.last[so] = L[Len(L)] /\ Apart(L, M)
        BY <3>2, <2>1, <1>1, <1>5, <1>6, <1>12
      <4> QED BY <4>1 DEF Apart
    <3> QED BY <3>1, <3>2
  <2>4. \A k \in 1 .. Len(M) : s.next[M[k]] = w.next[M[k]]
    BY <2>2, <2>3, <1>2
  <2>5. s.first[x] = w.first[x] /\ s.last[x] = w.last[x]
    BY <1>2, <1>4, <1>12
  <2>6. Linked(w.first[x], s.next, M)
    BY <2>2, <2>4, LinkedKept
  <2> QED BY <2>1, <2>2, <2>5, <2>6
<1>13. s.last[so] = i
  BY <1>2, <1>4
<1>14. ASSUME NEW x \in Socket
       PROVE  Distinct(N[x]) /\ Linked(s.first[x], s.next, N[x]) /\ EndsAt(N[x], s.last[x])
  <2>1. CASE x = so
    BY <2>1, <1>7, <1>9, <1>11, <1>13
  <2>2. CASE x # so
    BY <2>2, <1>9, <1>12
  <2> QED BY <2>1, <2>2
<1>15. \A q, x : x \in Socket => (In(q, N[x]) <=> In(q, Q[x]) \/ (x = so /\ q = i))
  BY <1>5, <1>7, <1>9
<1>16. ASSUME NEW x \in Socket, NEW y \in Socket, x # y PROVE Apart(N[x], N[y])
  <2>1. ~ \E q : In(q, Q[x]) /\ In(q, Q[y])
    BY <1>1, <1>16, ApartIn
  <2>2. ~ \E q : In(q, N[x]) /\ In(q, N[y])
    BY <2>1, <1>3, <1>15, <1>16
  <2> QED BY <2>2, ApartIn
<1>17. ASSUME NEW q \in RxSlot
       PROVE  s.desc[q] = "taken" <=> \E x \in Socket : In(q, N[x])
  <2>1. s.desc[q] = IF q = i THEN "taken" ELSE r.desc[q]
    BY <1>2, <1>4
  <2>2. CASE q = i
    <3>1. In(i, N[so])
      BY <1>15
    <3> QED BY <3>1, <2>1, <2>2
  <2>3. CASE q # i
    BY <2>1, <2>3, <1>1, <1>15
  <2> QED BY <2>2, <2>3
<1>18. Queued(s, N)
  BY <1>2, <1>8, <1>14, <1>16, <1>17 DEF Queued
<1> QED BY <1>18 DEF N

\* TUdp4Socket::Receive takes the first packet of a list, and gives its buffer back.
TakenFrom(r, so) ==
  LET i == r.first[so]
      after == r.next[i]
  IN ReleaseRxBuf([r EXCEPT !.first[so] = after,
                            !.last[so] = IF after = Null THEN Null ELSE @], i)

TakenAs(r, so, s) ==
  LET i == r.first[so]
      after == r.next[i]
  IN /\ s \in RxType /\ s.next = r.next
     /\ s.desc = [r.desc EXCEPT ![i] = "empty"]
     /\ s.first = [r.first EXCEPT ![so] = after]
     /\ s.last = [r.last EXCEPT ![so] = IF after = Null THEN Null ELSE r.last[so]]

\* Receive, member by member.
LEMMA TakenFields ==
  ASSUME NEW r \in RxType, NEW so \in Socket, r.first[so] # Null
  PROVE  TakenAs(r, so, TakenFrom(r, so))
<1> DEFINE i == r.first[so]
           after == r.next[i]
           end == IF after = Null THEN Null ELSE r.last[so]
           u == [r EXCEPT !.first[so] = after, !.last[so] = end]
           s == [u EXCEPT !.desc[i] = "empty"]
<1>1. /\ r.desc \in [RxSlot -> {"empty", "filled", "taken"}]
      /\ r.next \in [RxSlot -> RxSlot \cup {Null}]
      /\ r.first \in [Socket -> RxSlot \cup {Null}] /\ r.last \in [Socket -> RxSlot \cup {Null}]
  BY RxTyped
<1>2. i \in RxSlot /\ after \in RxSlot \cup {Null} /\ end \in RxSlot \cup {Null}
  BY <1>1
<1>3. TakenFrom(r, so) = s
  <2>1. TakenFrom(r, so) =
          ReleaseRxBuf([r EXCEPT !.first[so] = after, !.last[so] = IF after = Null THEN Null ELSE @], i)
    BY DEF TakenFrom
  <2>2. [r EXCEPT !.first[so] = after, !.last[so] = IF after = Null THEN Null ELSE @] = u
    BY DEF RxType
  <2> QED BY <2>1, <2>2 DEF ReleaseRxBuf
<1> HIDE DEF i, after, end
<1>4. /\ u \in RxType /\ u.desc = r.desc /\ u.next = r.next
      /\ u.first = [r.first EXCEPT ![so] = after] /\ u.last = [r.last EXCEPT ![so] = end]
  <2>1. u \in RxType
    BY <1>1, <1>2 DEF RxType
  <2> QED BY <2>1 DEF RxType
<1> HIDE DEF u
<1>5. s \in RxType
  BY <1>1, <1>2, <1>4 DEF RxType
<1>6. /\ s.desc = [u.desc EXCEPT ![i] = "empty"] /\ s.next = u.next
      /\ s.first = u.first /\ s.last = u.last
  BY <1>4 DEF RxType
<1> HIDE DEF s
<1>7. TakenAs(r, so, s)
  BY <1>4, <1>5, <1>6 DEF TakenAs, i, after, end
<1> QED BY <1>3, <1>7

\* Receive takes the first packet out of its list.
LEMMA TakeKeeps ==
  ASSUME NEW r, NEW Q, Queued(r, Q), NEW so \in Socket, r.first[so] # Null,
         NEW s, TakenAs(r, so, s)
  PROVE  Queued(s, [Q EXCEPT ![so] = Tail(Q[so])])
<1> DEFINE N == [Q EXCEPT ![so] = Tail(Q[so])]
           i == r.first[so]
           after == r.next[i]
<1>1. /\ r \in RxType /\ Q \in [Socket -> Seq(RxSlot)]
      /\ \A x, y \in Socket : x # y => Apart(Q[x], Q[y])
      /\ \A q \in RxSlot : r.desc[q] = "taken" <=> \E x \in Socket : In(q, Q[x])
  BY DEF Queued
<1>2. /\ s \in RxType /\ s.next = r.next
      /\ s.desc = [r.desc EXCEPT ![i] = "empty"]
      /\ s.first = [r.first EXCEPT ![so] = after]
      /\ s.last = [r.last EXCEPT ![so] = IF after = Null THEN Null ELSE r.last[so]]
  BY DEF TakenAs
<1>3. /\ r.first \in [Socket -> RxSlot \cup {Null}] /\ r.last \in [Socket -> RxSlot \cup {Null}]
      /\ r.desc \in [RxSlot -> {"empty", "filled", "taken"}]
  BY <1>1, RxTyped
<1>4. PICK L : L = Q[so]
  OBVIOUS
<1>5. /\ L \in Seq(RxSlot) /\ Distinct(L) /\ Linked(r.first[so], r.next, L) /\ L # <<>>
      /\ Len(L) \in Nat /\ \A k \in 1 .. Len(L) : L[k] \in RxSlot
      /\ i = L[1] /\ (L = <<>> <=> Len(L) = 0)
      /\ EndsAt(L, r.last[so])
  <2>1. EndsAt(L, r.last[so])
    BY <1>4 DEF Queued
  <2> QED BY <2>1, <1>4, QueueOf
<1>6. /\ Tail(L) \in Seq(RxSlot) /\ Len(Tail(L)) = Len(L) - 1 /\ Distinct(Tail(L))
      /\ \A q : In(q, L) <=> q = L[1] \/ In(q, Tail(L))
      /\ ~In(L[1], Tail(L))
      /\ \A e : EndsAt(L, e) => EndsAt(Tail(L), IF Tail(L) = <<>> THEN Null ELSE e)
  BY <1>5, TailList
<1>7. N = [x \in Socket |-> IF x = so THEN Tail(L) ELSE Q[x]] /\ N \in [Socket -> Seq(RxSlot)]
  BY <1>1, <1>4, <1>6
<1> HIDE DEF N
<1>8. N[so] = Tail(L) /\ \A x \in Socket : x # so => N[x] = Q[x]
  BY <1>7
<1>9. Linked(after, r.next, Tail(L))
  BY <1>5, LinkedTail
<1>10. after = Null <=> Tail(L) = <<>>
  <2>1. after = IF Tail(L) = <<>> THEN Null ELSE Tail(L)[1]
    BY <1>9 DEF Linked
  <2>2. Tail(L) # <<>> => Tail(L)[1] \in RxSlot
    BY <1>6
  <2> HIDE DEF after
  <2> QED BY <2>1, <2>2, RxSlots
<1>11. s.first[so] = after /\ s.last[so] = IF Tail(L) = <<>> THEN Null ELSE r.last[so]
  BY <1>2, <1>3, <1>10
<1>12. \A x \in Socket : x # so => s.first[x] = r.first[x] /\ s.last[x] = r.last[x]
  BY <1>2, <1>3
<1> HIDE DEF after
<1>13. ASSUME NEW x \in Socket
       PROVE  Distinct(N[x]) /\ Linked(s.first[x], s.next, N[x]) /\ EndsAt(N[x], s.last[x])
  <2>1. CASE x = so
    <3>1. EndsAt(Tail(L), s.last[so])
      BY <1>5, <1>6, <1>11
    <3> QED BY <3>1, <2>1, <1>2, <1>6, <1>8, <1>9, <1>11
  <2>2. CASE x # so
    <3>1. Distinct(Q[x]) /\ Linked(r.first[x], r.next, Q[x]) /\ EndsAt(Q[x], r.last[x])
      BY DEF Queued
    <3> QED BY <3>1, <2>2, <1>2, <1>8, <1>12
  <2> QED BY <2>1, <2>2
<1>14. \A x \in Socket : ~In(i, N[x])
  <2> SUFFICES ASSUME NEW x \in Socket, In(i, N[x]) PROVE FALSE
    OBVIOUS
  <2>1. CASE x = so
    BY <2>1, <1>5, <1>6, <1>8
  <2>2. CASE x # so
    <3>1. In(i, Q[so]) /\ In(i, Q[x])
      BY <2>2, <1>4, <1>5, <1>6, <1>8
    <3> QED BY <3>1, <2>2, <1>1, ApartIn
  <2> QED BY <2>1, <2>2
<1>15. \A q, x : x \in Socket => (In(q, N[x]) => In(q, Q[x]))
  BY <1>4, <1>6, <1>8
<1>16. \A q, x : x \in Socket => (In(q, Q[x]) => q = i \/ In(q, N[x]))
  BY <1>4, <1>5, <1>6, <1>8
<1>17. ASSUME NEW x \in Socket, NEW y \in Socket, x # y PROVE Apart(N[x], N[y])
  <2>1. ~ \E q : In(q, Q[x]) /\ In(q, Q[y])
    BY <1>1, <1>17, ApartIn
  <2>2. ~ \E q : In(q, N[x]) /\ In(q, N[y])
    BY <2>1, <1>15, <1>17
  <2> QED BY <2>2, ApartIn
<1> HIDE DEF i
<1>18. ASSUME NEW q \in RxSlot
       PROVE  s.desc[q] = "taken" <=> \E x \in Socket : In(q, N[x])
  <2>1. s.desc[q] = IF q = i THEN "empty" ELSE r.desc[q]
    BY <1>2, <1>3
  <2>2. CASE q = i
    BY <2>1, <2>2, <1>14
  <2>3. CASE q # i
    BY <2>1, <2>3, <1>1, <1>15, <1>16
  <2> QED BY <2>2, <2>3
<1>19. Queued(s, N)
  BY <1>2, <1>7, <1>13, <1>17, <1>18 DEF Queued
<1> QED BY <1>19 DEF N

\* TryRecv marks the descriptor it returns, or goes on to the next one.
LEMMA TryRecvFields ==
  ASSUME NEW r \in RxType
  PROVE  /\ TryRecv(r) \in RxType
         /\ Marks /\ Received(r) = Null => TryRecv(r) = r
         /\ Marks /\ Received(r) # Null =>
              /\ TryRecv(r).desc = [r.desc EXCEPT ![Received(r)] = "taken"]
              /\ TryRecv(r).next = r.next /\ TryRecv(r).first = r.first /\ TryRecv(r).last = r.last
<1> DEFINE i == Received(r)
           w == TryRecv(r)
<1>1. i \in RxSlot \cup {Null} /\ r.desc \in [RxSlot -> {"empty", "filled", "taken"}] /\ r.at \in RxSlot
  BY ReceivedIs, RxTyped
<1>2. w = IF Marks THEN IF i = Null THEN r ELSE [r EXCEPT !.desc[i] = "taken"]
                   ELSE [r EXCEPT !.cur = IF i = Null THEN r.at ELSE NextRxSlot(i)]
  BY DEF TryRecv
<1> HIDE DEF i, w
<1>3. CASE Marks /\ i = Null
  BY <1>2, <1>3 DEF i, w
<1>4. CASE Marks /\ i # Null
  <2> DEFINE s == [r EXCEPT !.desc[i] = "taken"]
  <2>1. w = s
    BY <1>2, <1>4
  <2>2. s \in RxType
    BY <1>1, <1>4 DEF RxType
  <2>3. /\ s.desc = [r.desc EXCEPT ![i] = "taken"]
        /\ s.next = r.next /\ s.first = r.first /\ s.last = r.last
    BY DEF RxType
  <2> HIDE DEF s
  <2> QED BY <2>1, <2>2, <2>3, <1>4 DEF i, w
<1>5. CASE ~Marks
  <2> DEFINE c == IF i = Null THEN r.at ELSE NextRxSlot(i)
  <2>1. c \in RxSlot
    BY <1>1, RxSlots
  <2> HIDE DEF c
  <2>2. [r EXCEPT !.cur = c] \in RxType
    BY <2>1 DEF RxType
  <2>3. w = [r EXCEPT !.cur = c]
    BY <1>2, <1>5 DEF c
  <2> QED BY <2>2, <2>3, <1>5 DEF w
<1> QED BY <1>3, <1>4, <1>5

\* A released buffer is the MAC's.
LEMMA ReleasedBuf ==
  ASSUME NEW w \in RxType, NEW i \in RxSlot
  PROVE  /\ ReleaseRxBuf(w, i) \in RxType
         /\ ReleaseRxBuf(w, i).desc = [w.desc EXCEPT ![i] = "empty"]
         /\ ReleaseRxBuf(w, i).next = w.next
         /\ ReleaseRxBuf(w, i).first = w.first /\ ReleaseRxBuf(w, i).last = w.last
<1> DEFINE s == [w EXCEPT !.desc[i] = "empty"]
<1>1. w.desc \in [RxSlot -> {"empty", "filled", "taken"}]
  BY RxTyped
<1>2. s \in RxType
  BY <1>1 DEF RxType
<1>3. s.desc = [w.desc EXCEPT ![i] = "empty"] /\ s.next = w.next /\ s.first = w.first /\ s.last = w.last
  BY DEF RxType
<1>4. ReleaseRxBuf(w, i) = s
  BY DEF ReleaseRxBuf
<1> HIDE DEF s
<1> QED BY <1>2, <1>3, <1>4

\* What a step does to the receive side, r before and s after it.
RxStep(r, s) ==
  /\ s \in RxType
  /\ Marks => \A Q : Queued(r, Q) => \E N : Queued(s, N)

\* A frame is put into a list, or its buffer is given back.
LEMMA KeptStep ==
  ASSUME NEW r \in RxType, NEW f \in Arriving, Received(r) # Null
  PROVE  RxStep(r, Keep(TryRecv(r), Received(r), f))
<1> DEFINE i == Received(r)
           w == TryRecv(r)
           s == Keep(w, i, f)
<1>1. /\ i \in RxSlot /\ w \in RxType
      /\ Marks => r.desc[i] = "filled"
      /\ Marks => /\ w.desc = [r.desc EXCEPT ![i] = "taken"]
                  /\ w.next = r.next /\ w.first = r.first /\ w.last = r.last
  BY ReceivedIs, TryRecvFields
<1> HIDE DEF i, w
<1>2. CASE f.kind = "datagram"
  <2>1. PICK so \in Socket : f = Datagram(so)
    BY <1>2, NetAssumption DEF Arriving
  <2>2. f.socket = so
    BY <2>1 DEF Datagram
  <2>3. s = AddRxPacket(w, so, i)
    BY <1>2, <2>2 DEF Keep
  <2> HIDE DEF s
  <2>4. AddedRxAs(w, so, i, s)
    BY <1>1, <2>3, AddRxFields
  <2>5. s \in RxType
    BY <2>4 DEF AddedRxAs
  <2>6. ASSUME Marks, NEW Q, Queued(r, Q) PROVE \E N : Queued(s, N)
    <3>1. Queued(s, [Q EXCEPT ![so] = Append(Q[so], i)])
      BY <1>1, <2>4, <2>6, KeepKeeps
    <3> QED BY <3>1
  <2>7. RxStep(r, s)
    BY <2>5, <2>6 DEF RxStep
  <2> QED BY <2>7 DEF s, w, i
<1>3. CASE f.kind # "datagram"
  <2>1. s = ReleaseRxBuf(w, i)
    BY <1>3 DEF Keep
  <2> HIDE DEF s
  <2>2. /\ s \in RxType /\ s.desc = [w.desc EXCEPT ![i] = "empty"]
        /\ s.next = w.next /\ s.first = w.first /\ s.last = w.last
    BY <2>1, <1>1, ReleasedBuf
  <2>3. ASSUME Marks, NEW Q, Queued(r, Q) PROVE Queued(s, Q)
    <3>1. r.desc \in [RxSlot -> {"empty", "filled", "taken"}]
      BY RxTyped
    <3>2. s.desc = [r.desc EXCEPT ![i] = "empty"]
      BY <1>1, <2>2, <2>3, <3>1
    <3>3. \A q \in RxSlot : s.desc[q] = "taken" <=> r.desc[q] = "taken"
      BY <1>1, <2>3, <3>1, <3>2
    <3>4. s.next = r.next /\ s.first = r.first /\ s.last = r.last
      BY <1>1, <2>2, <2>3
    <3> QED BY <3>3, <3>4, <2>2, <2>3, DescKeeps
  <2>4. RxStep(r, s)
    BY <2>2, <2>3 DEF RxStep
  <2> QED BY <2>4 DEF s, w, i
<1> QED BY <1>2, <1>3

\* Run, on the receive side.
LEMMA RunRx ==
  ASSUME rx \in RxType, NEW late \in BOOLEAN, Run(late)
  PROVE  RxStep(rx, rx')
<1>1. PICK up \in Links, k \in 0 .. (IF running THEN Burst ELSE 0) :
        LET r == Arrived(rx, k)
            t == ReleaseSent([tx EXCEPT !.expired = @ \/ late])
        IN /\ CanArrive(k)
           /\ late => MayExpire
           /\ running' = up
           /\ RunIdle(r, t, up) \/ \E f \in Arriving : RunReceive(r, t, up, f)
  BY Zenon DEF Run
<1>2. PICK r : r = Arrived(rx, k)
  OBVIOUS
<1>3. PICK t : t = ReleaseSent([tx EXCEPT !.expired = @ \/ late])
  OBVIOUS
<1>4. CanArrive(k) /\ (RunIdle(r, t, up) \/ \E f \in Arriving : RunReceive(r, t, up, f))
  BY <1>1, <1>2, <1>3
<1>5. k \in 0 .. MaxRx
  <2>1. Burst \in Nat /\ Burst <= MaxRx /\ MaxRx \in Nat
    BY NetAssumption
  <2> QED BY <2>1
<1>6. PICK x \in RxType : x = rx
  OBVIOUS
<1>7. ArrivedAs(x, r)
  BY <1>2, <1>4, <1>5, <1>6, ArrivedFields DEF CanArrive
<1>8. r \in RxType /\ \A Q : Queued(x, Q) => Queued(r, Q)
  <2>1. \A i \in RxSlot : r.desc[i] = "taken" <=> x.desc[i] = "taken"
    BY <1>7 DEF ArrivedAs
  <2> QED BY <2>1, <1>7, DescKeeps DEF ArrivedAs
<1>9. ASSUME NEW s, s = rx', RxStep(r, s) PROVE RxStep(rx, rx')
  BY <1>6, <1>8, <1>9 DEF RxStep
<1>10. PICK s : s = rx'
  OBVIOUS
<1>11. CASE RunIdle(r, t, up)
  <2>1. /\ Received(r) = Null \/ ~up
        /\ s = IF up THEN TryRecv(r) ELSE r
    BY <1>10, <1>11 DEF RunIdle
  <2>2. s \in RxType /\ (Marks => s = r)
    BY <2>1, <1>8, TryRecvFields
  <2>3. RxStep(r, s)
    BY <2>2 DEF RxStep
  <2> QED BY <2>3, <1>9, <1>10
<1>12. ASSUME NEW f \in Arriving, RunReceive(r, t, up, f) PROVE RxStep(rx, rx')
  <2>1. Received(r) # Null /\ s = Keep(TryRecv(r), Received(r), f)
    BY <1>10, <1>12 DEF RunReceive
  <2>2. RxStep(r, s)
    BY <2>1, <1>8, KeptStep
  <2> QED BY <2>2, <1>9, <1>10
<1> QED BY <1>4, <1>11, <1>12

\* The receive side, with drivers that mark and that do not.
ReceiveOk == rx \in RxType /\ (Marks => \E Q : Queued(rx, Q))

\* The receive side is ordered initially.
LEMMA InitRx ==
  ASSUME Init
  PROVE  ReceiveOk
<1> DEFINE Q == [so \in Socket |-> <<>>]
<1>1. /\ rx.desc = [i \in RxSlot |-> "empty"] /\ rx.next = [i \in RxSlot |-> Null]
      /\ rx.first = [so \in Socket |-> Null] /\ rx.last = [so \in Socket |-> Null]
  BY DEF Init
<1>2. rx \in RxType
  BY RxSlots DEF Init, RxType
<1>3. /\ <<>> \in Seq(RxSlot) /\ \A k : ~(k \in 1 .. Len(<<>>))
  OBVIOUS
<1>4. Q \in [Socket -> Seq(RxSlot)] /\ \A so \in Socket : Q[so] = <<>>
  BY <1>3
<1> HIDE DEF Q
<1>5. ASSUME NEW so \in Socket
      PROVE  Distinct(Q[so]) /\ Linked(rx.first[so], rx.next, Q[so]) /\ EndsAt(Q[so], rx.last[so])
  <2>1. Q[so] = <<>> /\ rx.first[so] = Null /\ rx.last[so] = Null
    BY <1>1, <1>4
  <2>2. Distinct(<<>>) /\ Linked(Null, rx.next, <<>>) /\ EndsAt(<<>>, Null)
    BY <1>3 DEF Distinct, Linked, EndsAt
  <2> QED BY <2>1, <2>2
<1>6. \A so, other \in Socket : so # other => Apart(Q[so], Q[other])
  BY <1>3, <1>4 DEF Apart
<1>7. \A i \in RxSlot : rx.desc[i] = "taken" <=> \E so \in Socket : In(i, Q[so])
  BY <1>1, <1>3, <1>4 DEF In
<1>8. Queued(rx, Q)
  BY <1>2, <1>4, <1>5, <1>6, <1>7 DEF Queued
<1> QED BY <1>2, <1>8 DEF ReceiveOk

\* It stays so, in every step.
LEMMA NextRx ==
  ASSUME ReceiveOk, [Next]_vars
  PROVE  ReceiveOk'
<1>1. ASSUME NEW s, s = rx', RxStep(rx, s) PROVE ReceiveOk'
  BY <1>1 DEF ReceiveOk, RxStep
<1>2. PICK s : s = rx'
  OBVIOUS
<1>3. ASSUME NEW late \in BOOLEAN, Run(late) PROVE ReceiveOk'
  <2>1. RxStep(rx, rx')
    BY <1>3, RunRx DEF ReceiveOk
  <2> QED BY <2>1, <1>1, <1>2
<1>4. ASSUME NEW so \in Socket, Receive(so) PROVE ReceiveOk'
  <2>1. rx.first[so] # Null /\ s = TakenFrom(rx, so)
    BY <1>2, <1>4 DEF Receive, TakenFrom
  <2>2. PICK r \in RxType : r = rx
    BY DEF ReceiveOk
  <2>3. TakenAs(r, so, s)
    BY <2>1, <2>2, TakenFields
  <2>4. RxStep(r, s)
    <3>1. s \in RxType
      BY <2>3 DEF TakenAs
    <3>2. ASSUME NEW Q, Queued(r, Q) PROVE \E N : Queued(s, N)
      <4>1. Queued(s, [Q EXCEPT ![so] = Tail(Q[so])])
        BY <2>1, <2>2, <2>3, <3>2, TakeKeeps
      <4> QED BY <4>1
    <3> QED BY <3>1, <3>2 DEF RxStep
  <2> QED BY <2>2, <2>4, <1>1, <1>2
<1>5. CASE UNCHANGED rx
  BY <1>5 DEF ReceiveOk
<1>6. (\E d \in Dest : Send(d)) \/ MacSends => UNCHANGED rx
  BY DEF Send, MacSends
<1> QED BY <1>3, <1>4, <1>5, <1>6 DEF Next, vars

\* The receive side, always.
THEOREM AlwaysReceived == Spec => []ReceiveOk
<1>1. ReceiveOk /\ [Next]_vars => ReceiveOk'
  BY NextRx
<1> QED BY <1>1, InitRx, PTL DEF Spec

\* The packets of a list are distinct ones.
LEMMA QueueLength ==
  ASSUME NEW r, NEW Q, Queued(r, Q), NEW so \in Socket
  PROVE  Len(Q[so]) <= MaxRx /\ Queue(r, so) = Q[so]
<1>1. PICK L : L = Q[so]
  OBVIOUS
<1>2. /\ L \in Seq(RxSlot) /\ Distinct(L) /\ Linked(r.first[so], r.next, L)
      /\ Len(L) \in Nat /\ \A k \in 1 .. Len(L) : L[k] \in RxSlot
  BY <1>1, QueueOf
<1>3. Len(L) <= MaxRx
  <2>1. SUFFICES ASSUME MaxRx < Len(L) PROVE FALSE
    BY <1>2, RxSlots
  <2> DEFINE S == 1 .. Len(L)
             T == 1 .. MaxRx
  <2>2. IsFiniteSet(S) /\ Cardinality(S) = Len(L)
    <3>1. 1 \in Int /\ Len(L) \in Int /\ ~(1 > Len(L)) /\ Len(L) - 1 + 1 = Len(L)
      BY <2>1, <1>2, RxSlots
    <3> QED BY <3>1, FS_Interval
  <2>3. IsFiniteSet(T) /\ Cardinality(T) = MaxRx
    <3>1. 1 \in Int /\ MaxRx \in Int /\ ~(1 > MaxRx) /\ MaxRx - 1 + 1 = MaxRx
      BY RxSlots
    <3> QED BY <3>1, FS_Interval
  <2>4. L \in [S -> T]
    <3>1. L = [k \in S |-> L[k]]
      BY <1>2
    <3> QED BY <3>1, <1>2, RxSlots
  <2> HIDE DEF S, T
  <2>5. \E x, y \in S : x # y /\ L[x] = L[y]
    BY <2>1, <2>2, <2>3, <2>4, FS_PigeonHole
  <2> QED BY <2>5, <1>2 DEF Distinct, S
<1>4. Follow(r.first[so], r.next, MaxRx + 1) = L
  <2>1. MaxRx + 1 \in Nat \ {0} /\ Len(L) <= MaxRx + 1 /\ Null \notin RxSlot
    BY <1>2, <1>3, RxSlots
  <2> QED BY <2>1, <1>2, FollowLinked
<1> QED BY <1>1, <1>3, <1>4 DEF Queue

\* The lists of the invariant are those that the pointers give.
LEMMA QueuedKept ==
  ASSUME NEW Q, Queued(rx, Q)
  PROVE  QueuedIsKept
<1> DEFINE Place == {w \in Socket \X (1 .. MaxRx + 1) : w[2] <= Len(Queue(rx, w[1]))}
           Of(w) == Queue(rx, w[1])[w[2]]
<1>1. \A so \in Socket : Queue(rx, so) = Q[so] /\ Len(Q[so]) <= MaxRx /\ Len(Q[so]) \in Nat
  BY QueueLength, QueueOf
<1>2. /\ \A so \in Socket : Distinct(Q[so]) /\ EndsAt(Q[so], rx.last[so])
      /\ \A so, other \in Socket : so # other => Apart(Q[so], Q[other])
      /\ \A i \in RxSlot : rx.desc[i] = "taken" <=> \E so \in Socket : In(i, Q[so])
  BY DEF Queued
<1>3. \A so \in Socket : \A k \in 1 .. Len(Q[so]) : Q[so][k] \in RxSlot
  BY QueueOf
<1>4. ASSUME NEW w \in Place
      PROVE  /\ w[1] \in Socket /\ w[2] \in 1 .. Len(Q[w[1]]) /\ Of(w) = Q[w[1]][w[2]]
             /\ w = <<w[1], w[2]>>
  <2>1. w[1] \in Socket /\ w[2] \in 1 .. MaxRx + 1 /\ w = <<w[1], w[2]>>
        /\ w[2] <= Len(Queue(rx, w[1]))
    OBVIOUS
  <2>2. Queue(rx, w[1]) = Q[w[1]] /\ Len(Q[w[1]]) \in Nat
    BY <2>1, <1>1
  <2> QED BY <2>1, <2>2, RxSlots
<1>5. ASSUME NEW so \in Socket, NEW k \in 1 .. Len(Q[so])
      PROVE  <<so, k>> \in Place /\ Of(<<so, k>>) = Q[so][k]
  <2>1. k \in 1 .. MaxRx + 1 /\ k <= Len(Queue(rx, so))
    BY <1>1, RxSlots
  <2> QED BY <2>1, <1>1
<1> HIDE DEF Place, Of
<1>6. ASSUME NEW v \in Place, NEW w \in Place, Of(v) = Of(w) PROVE v = w
  <2>1. CASE v[1] = w[1]
    <3>1. v[2] = w[2]
      BY <2>1, <1>2, <1>4, <1>6 DEF Distinct
    <3> QED BY <2>1, <3>1, <1>4
  <2>2. CASE v[1] # w[1]
    BY <2>2, <1>2, <1>4, <1>6 DEF Apart
  <2> QED BY <2>1, <2>2
<1>7. ASSUME NEW w \in Place PROVE rx.desc[Of(w)] # "empty"
  <2>1. In(Of(w), Q[w[1]]) /\ Of(w) \in RxSlot /\ w[1] \in Socket
    BY <1>3, <1>4 DEF In
  <2> QED BY <2>1, <1>2
<1>8. ASSUME NEW i \in RxSlot, rx.desc[i] = "taken" PROVE \E w \in Place : Of(w) = i
  <2>1. PICK so \in Socket : In(i, Q[so])
    BY <1>2, <1>8
  <2>2. PICK k \in 1 .. Len(Q[so]) : Q[so][k] = i
    BY <2>1 DEF In
  <2> QED BY <2>2, <1>5
<1>9. \A so \in Socket : EndsAt(Queue(rx, so), rx.last[so])
  BY <1>1, <1>2
<1> QED BY <1>6, <1>7, <1>8, <1>9 DEF QueuedIsKept, Place, Of

\* With a driver that marks the descriptors, a datagram stays where it is until
\* Receive takes it.
THEOREM QueuedIsKeptHolds ==
  ASSUME Marks
  PROVE  Spec => []QueuedIsKept
<1>1. ReceiveOk => QueuedIsKept
  BY QueuedKept DEF ReceiveOk
<1> QED BY <1>1, AlwaysReceived, PTL

\* The history of the calls of Run.
IsCalled == called \in BOOLEAN
\* It keeps its type.
LEMMA CalledFlips == Spec => []IsCalled
<1> USE DEF IsCalled
<1>1. Init => IsCalled
  BY DEF Init
<1>2. ASSUME [Next]_vars PROVE called' = called \/ called' = ~called
  <2>1. ASSUME NEW late \in BOOLEAN, Run(late) PROVE called' = ~called
    BY <2>1, Zenon DEF Run
  <2>2. ASSUME NEW d \in Dest, Send(d) PROVE called' = called
    BY <2>2, Zenon DEF Send
  <2>3. ASSUME NEW so \in Socket, Receive(so) PROVE called' = called
    BY <2>3 DEF Receive
  <2>4. CASE MacSends
    BY <2>4 DEF MacSends
  <2>5. CASE UNCHANGED vars
    BY <2>5 DEF vars
  <2> QED BY <1>2, <2>1, <2>2, <2>3, <2>4, <2>5, Zenon DEF Next
<1>3. IsCalled /\ [Next]_vars => IsCalled'
  BY <1>2, Zenon
<1> HIDE DEF IsCalled
<1> QED BY <1>1, <1>3, PTL DEF Spec

\* The type of every variable.
THEOREM TypeOKHolds ==
  ASSUME Links = {TRUE}
  PROVE  Spec => []TypeOK
<1>1. Ordered /\ ReceiveOk /\ IsCalled => TypeOK
  <2> SUFFICES ASSUME Ordered, ReceiveOk, IsCalled PROVE TypeOK
    OBVIOUS
  <2>1. PICK F, C, J, m : InPlace(tx, F, C, J, Null, at, m) /\ Asking(tx, J, asked)
    BY DEF Ordered, TxOk
  <2>2. tx \in FieldType
    BY <2>1 DEF InPlace
  <2>3. table \in TableType /\ mru \in Seq(Announcement)
    BY HoldsTable DEF Ordered
  <2>4. rx \in RxType /\ running \in BOOLEAN
    BY DEF Ordered, ReceiveOk
  <2>5. at \in Slot
    <3>1. at = Back(tx.slot, Len(C) - m) /\ m \in 0 .. Len(C) /\ tx.slot \in Slot
      BY <2>1, <2>2, Typed DEF InPlace, Sending
    <3>2. Len(C) \in Nat /\ Len(C) <= Pool + 1
      <4>1. /\ Len(F) + Len(C) + Len(J) = Pool + tx.status[Sys] - (IF Null \in 1 .. Pool THEN 1 ELSE 0)
            /\ F \in Seq(1 .. Pool) /\ C \in Seq(Packet) /\ J \in Seq(1 .. Pool)
        BY <2>1 DEF InPlace, Places
      <4>2. Len(F) \in Nat /\ Len(C) \in Nat /\ Len(J) \in Nat
        BY <4>1
      <4>3. (IF Null \in 1 .. Pool THEN 1 ELSE 0) = 0
        BY SeqTypes
      <4>4. tx.status[Sys] \in {0, 1}
        <5>1. tx.status \in [Packet -> {0, 1}]
          BY <2>2, Typed
        <5> QED BY <5>1, SeqTypes
      <4>5. Pool \in Nat
        BY Sizes
      <4> QED BY ONLY <4>1, <4>2, <4>3, <4>4, <4>5
    <3>3. Len(C) - m \in 0 .. Pool + 1
      BY <3>1, <3>2, Sizes
    <3> QED BY <3>1, <3>3, BackSlot
  <2>6. asked \in 0 .. MaxTries
    <3>1. asked \in Nat /\ MaxTries \in Nat
      BY Sizes DEF Ordered
    <3>2. tx.phase = 0 => asked = 0
      BY <2>1 DEF Asking
    <3>3. tx.phase # 0 => /\ asked + (IF Pending(tx) THEN 1 ELSE 0) = tx.trycnt
                          /\ tx.trycnt \in 1 .. MaxTries
      BY <2>1 DEF Asking
    <3>4. (IF Pending(tx) THEN 1 ELSE 0) \in {0, 1}
      OBVIOUS
    <3> QED BY ONLY <3>1, <3>2, <3>3, <3>4
  <2> QED BY <2>2, <2>3, <2>4, <2>5, <2>6 DEF TypeOK, FieldType, TableType, RxType, IsCalled
<1> QED BY <1>1, AlwaysOrdered, AlwaysReceived, CalledFlips, PTL
=============================================================================
