------------------------------ MODULE Arp4Table ------------------------------
(***************************************************************************)
(* The address table of TArp4Table (src/network/net_ip4.cpp): max_items    *)
(* items in a list linked in both directions, the most recently announced  *)
(* first, the unused ones in a list of their own.                          *)
(*                                                                         *)
(* A table is a record of the pointers and of the members of all items:    *)
(* first, last, free (firstitem, lastitem, freelist) and, for each item,   *)
(* prev, next, ip, mac.  MruUpdate says what the list is for, on a         *)
(* sequence: the last max_items stations that announced themselves, each   *)
(* with the address it announced last.                                     *)
(***************************************************************************)
EXTENDS Integers, Sequences, SequencesExt

CONSTANTS
  Ip,        \* the addresses that are announced
  Mac,       \* the stations
  MaxItems   \* max_items

Null == 0    \* nullptr

ASSUME TableAssumption == MaxItems \in Nat \ {0, 1}

Item   == 1 .. MaxItems
NoIp   == "noip"
NoMac  == "nomac"

\* What the pointers of a list lead to, from p on.  A list of more than n
\* elements is cut off.
Follow(p, next, n) ==
  LET path[k \in 1 .. n] ==
        IF k = 1 THEN IF p = Null THEN <<>> ELSE <<p>>
        ELSE LET s == path[k - 1]
             IN IF s = <<>> THEN s
                ELSE IF next[s[Len(s)]] = Null THEN s ELSE Append(s, next[s[Len(s)]])
  IN path[n]

-----------------------------------------------------------------------------
(* The table. *)

\* TArp4Table::Init: the items in the free list, linear in the memory.
EmptyTable ==
  [first |-> Null, last |-> Null, free |-> 1,
   prev |-> [i \in Item |-> Null],
   next |-> [i \in Item |-> IF i < MaxItems THEN i + 1 ELSE Null],
   ip   |-> [i \in Item |-> NoIp],
   mac  |-> [i \in Item |-> NoMac]]

Items(t) == Follow(t.first, t.next, MaxItems + 1)

\* Mutant: the last match instead of the first.
FindOldest(t, field, value) ==
  LET k == SelectLastInSeq(Items(t), LAMBDA i: field[i] = value)
  IN IF k = 0 THEN Null ELSE Items(t)[k]

\* The first item from firstitem on that has the value.
Find(t, field, value) ==
  LET k == SelectInSeq(Items(t), LAMBDA i: field[i] = value)
  IN IF k = 0 THEN Null ELSE Items(t)[k]

FindByIp(t, ip)   == Find(t, t.ip, ip)
FindByMac(t, mac) == Find(t, t.mac, mac)

\* CreateNewItem: an unused item, or else the last one of the list.
CreateNewItem(t, mac) ==
  LET i == IF t.free # Null THEN t.free ELSE t.last
      before == t.prev[i]
      taken ==
        IF t.free # Null THEN [t EXCEPT !.free = t.next[i]]
        ELSE IF before # Null THEN [t EXCEPT !.last = before, !.next[before] = Null]
        ELSE [t EXCEPT !.last = Null, !.first = Null]
  IN [taken EXCEPT !.mac[i] = mac, !.prev[i] = Null, !.next[i] = Null]

\* The item CreateNewItem returns.
NewItem(t) == IF t.free # Null THEN t.free ELSE t.last

\* Mutant: lastitem is not moved when the last item is taken out.
UnchainKeepingLast(t, i) ==
  LET before == t.prev[i]
      after  == t.next[i]
      cut == IF before # Null THEN [t EXCEPT !.next[before] = after]
                              ELSE [t EXCEPT !.first = after]
  IN IF after # Null THEN [cut EXCEPT !.prev[after] = before] ELSE cut

Unchain(t, i) ==
  LET before == t.prev[i]
      after  == t.next[i]
      cut == IF before # Null THEN [t EXCEPT !.next[before] = after]
                              ELSE [t EXCEPT !.first = after]
  IN IF after # Null THEN [cut EXCEPT !.prev[after] = before]
                     ELSE [cut EXCEPT !.last = before]

AddAsFirst(t, i, ip) ==
  LET linked == [t EXCEPT !.ip[i] = ip, !.next[i] = t.first, !.prev[i] = Null]
      back   == IF t.first # Null THEN [linked EXCEPT !.prev[t.first] = i] ELSE linked
  IN [back EXCEPT !.first = i, !.last = IF t.last = Null THEN i ELSE @]

Update(t, ip, mac) ==
  LET known == FindByMac(t, mac)
  IN IF known # Null THEN AddAsFirst(Unchain(t, known), known, ip)
                     ELSE AddAsFirst(CreateNewItem(t, mac), NewItem(t), ip)

-----------------------------------------------------------------------------
(* What the table stands for. *)

Announcement == [ip : Ip, mac : Mac]

MruUpdate(mru, ip, mac) ==
  LET others == RemoveFirstMatch(mru, LAMBDA a: a.mac = mac)
  IN SubSeq(<<[ip |-> ip, mac |-> mac]>> \o others, 1,
            IF Len(others) < MaxItems THEN Len(others) + 1 ELSE MaxItems)

Contents(t) == [k \in 1 .. Len(Items(t)) |->
                  [ip |-> t.ip[Items(t)[k]], mac |-> t.mac[Items(t)[k]]]]

\* The links of both directions lead to the same items, and each item is in one
\* of the two lists.
WellLinked(t) ==
  LET unused == Follow(t.free, t.next, MaxItems + 1)
      both   == Items(t) \o unused
  IN /\ Follow(t.last, t.prev, MaxItems + 1) = Reverse(Items(t))
     /\ Len(both) = MaxItems
     /\ ToSet(both) = Item
=============================================================================
