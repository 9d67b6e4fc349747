----------------------------- MODULE SdBlockCard -----------------------------
(***************************************************************************)
(* The SD card that a user of TSdCard sees (src/modules/sdcard/sdcard.h):  *)
(* blocks, and one transfer at a time, started with StartReadBlocks or     *)
(* StartWriteBlocks and over when completed is TRUE.  It says what a       *)
(* transfer may do before it is over and what its success means, nothing   *)
(* about how long it takes.                                                *)
(*                                                                         *)
(* A byte is known by the content of the block it belongs to and its place *)
(* in it.  What success means is not promised to a transfer that is not    *)
(* trusted.                                                                *)
(***************************************************************************)
EXTENDS Integers, Sequences, SequencesExt

CONSTANTS
  NBlocks,     \* the blocks of the card
  BlockBytes,  \* 512
  Requests     \* the transfers that are started

Block   == 0 .. NBlocks - 1
Request == [write : BOOLEAN, start : Block, count : 1 .. NBlocks]
NoRequest == [write |-> FALSE, start |-> 0, count |-> 0]

\* What the blocks hold: block b at first, the i-th block of a write later.
Original(b) == b + 1
Written(i)  == NBlocks + i
Content     == 1 .. 2 * NBlocks

BlocksOf(rq) == rq.start .. rq.start + rq.count - 1

\* The bytes of the blocks of a request.
BytesOf(rq, store) ==
  [j \in 1 .. rq.count * BlockBytes |->
     [of |-> store[rq.start + (j - 1) \div BlockBytes], at |-> ((j - 1) % BlockBytes) + 1]]

Stored(rq, store) == \A b \in BlocksOf(rq) : store[b] = Written(b - rq.start + 1)

VARIABLES
  store,    \* what the blocks hold
  moved,    \* the bytes read so far
  cur,      \* the transfer under way
  ok,       \* the last transfer succeeded
  trusted   \* the transfer under way is entitled to the promises

vars == <<store, moved, cur, ok, trusted>>

Init ==
  /\ store = [b \in Block |-> Original(b)]
  /\ moved = <<>>
  /\ cur = NoRequest
  /\ ok = TRUE
  /\ trusted = TRUE

Start(rq) ==
  /\ cur = NoRequest
  /\ cur' = rq
  /\ ok' = FALSE
  /\ UNCHANGED <<store, moved, trusted>>

\* A part of the blocks is read: the right bytes in the right order.
MoveRead ==
  /\ cur # NoRequest /\ ~cur.write
  /\ IsPrefix(moved, moved') /\ IsPrefix(moved', BytesOf(cur, store))
  /\ UNCHANGED <<store, cur, ok, trusted>>

\* A block is written, or trust is lost: only blocks of the transfer change, and
\* while it is trusted only to what they should hold.
MoveWrite ==
  /\ cur # NoRequest /\ cur.write
  /\ trusted' => trusted
  /\ \A b \in Block : store'[b] # store[b] =>
       /\ b \in BlocksOf(cur)
       /\ trusted => store'[b] = Written(b - cur.start + 1)
  /\ UNCHANGED <<moved, cur, ok>>

End ==
  /\ cur # NoRequest
  /\ cur' = NoRequest
  /\ moved' = <<>>
  /\ trusted' = TRUE
  /\ ok' \in BOOLEAN
  /\ ok' /\ trusted => IF cur.write THEN Stored(cur, store) ELSE moved = BytesOf(cur, store)
  /\ UNCHANGED store

Next == (\E rq \in Requests : Start(rq)) \/ MoveRead \/ MoveWrite \/ End

Spec == Init /\ [][Next]_vars
=============================================================================
