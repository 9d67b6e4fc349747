---------------------------- MODULE MCStorSdcard ----------------------------
(* StorSdcard on a card of two sectors of two bytes.                       *)
EXTENDS StorSdcard, TLC

MCInitialDisk == [a \in CardAddr |-> 1]

\* The data buffer of a read before the card fills it, and the written data.
Blank   == [i \in Index |-> 0]
Payload == [i \in Index |-> 2 + (i % 2)]

Req(type, address, datalen, data) ==
  [trtype |-> type, address |-> address, datalen |-> datalen, data |-> data]

\* Aligned and unaligned transfers that overlap, inside one sector and
\* across the two.
MCRequests ==
  { Req("READ",  2, 2, Blank),   Req("READ",  1, 2, Blank),
    Req("READ",  0, 1, Blank),   Req("ERASE", 0, 2, Blank),
    Req("WRITE", 0, 4, Payload), Req("WRITE", 1, 2, Payload) }

\* The same kinds, fewer of them: partial in both directions across the two
\* sectors, and an aligned write of the second.
MCFewRequests ==
  { Req("READ",  1, 2, Blank), Req("WRITE", 1, 2, Payload),
    Req("WRITE", 2, 2, Payload) }

Symmetry == Permutations(Tra)
=============================================================================
