----------------------------- MODULE StorDevice -----------------------------
(***************************************************************************)
(* What a storage manager promises to its clients (fs/core/stormanager.h): *)
(* an array of bytes, and a queue of transactions that are served one at a *)
(* time, in the order they were added, each reported exactly once.         *)
(*                                                                         *)
(* trusted is chosen by the implementation: while it is FALSE the device   *)
(* still serves the queue in order and writes to no read-only buffer, but  *)
(* promises nothing about the bytes.                                       *)
(***************************************************************************)
EXTENDS Integers, Sequences

CONSTANTS Tra, NULL, Requests, CardAddr, InitialDisk

VARIABLES queue, tra, store, trusted, report

vars == <<queue, tra, store, trusted, report>>

NoReport == [tra |-> NULL, errorcode |-> 0]

InRange(t, a) == a >= tra[t].address /\ a < tra[t].address + tra[t].datalen

\* Bytes of the card change only inside a write, and to what it writes.
StoreOnlyWritten(t, new) ==
  \A a \in CardAddr :
    new[a] # store[a] => /\ tra[t].trtype = "WRITE"
                         /\ InRange(t, a)
                         /\ new[a] = tra[t].data[a - tra[t].address]

\* Bytes of the client's buffer change only in a read, up to its length.
DataOnlyRead(t, data) ==
  \A i \in DOMAIN data :
    data[i] # tra[t].data[i] => tra[t].trtype = "READ" /\ i < tra[t].datalen

\* A transaction that ends without error did what was asked.
Done(t, data) ==
  /\ tra[t].trtype # "ERASE"
  /\ trusted' => \A i \in 0 .. (tra[t].datalen - 1) :
                    data[i] = store'[tra[t].address + i]

Fresh(r) ==
  [trtype |-> r.trtype, address |-> r.address, datalen |-> r.datalen,
   data |-> r.data, completed |-> FALSE, errorcode |-> 0]

Waiting(q, t) == \E i \in 1 .. Len(q) : q[i] = t

Add(t, r) ==
  /\ ~Waiting(queue, t)
  /\ queue' = Append(queue, t)
  /\ tra' = [tra EXCEPT ![t] = Fresh(r)]
  /\ report' = NoReport
  /\ UNCHANGED <<store, trusted>>

\* The transaction at the head moves some of its bytes.
Serve ==
  /\ queue # <<>>
  /\ LET t == Head(queue)
     IN /\ tra' = [tra EXCEPT ![t].data = tra'[t].data,
                              ![t].errorcode = tra'[t].errorcode]
        /\ DataOnlyRead(t, tra'[t].data)
        /\ trusted' => StoreOnlyWritten(t, store')
  /\ report' = NoReport
  /\ UNCHANGED queue

\* The transaction at the head is reported; the callback may add one.
Finish ==
  /\ queue # <<>>
  /\ LET t    == Head(queue)
         rest == Tail(queue)
         data == report'.data
         done == [tra EXCEPT ![t].completed = TRUE, ![t].data = data,
                             ![t].errorcode = report'.errorcode]
     IN /\ report'.tra = t
        /\ DataOnlyRead(t, data)
        /\ trusted' => StoreOnlyWritten(t, store')
        /\ report'.errorcode = 0 => Done(t, data)
        /\ \/ queue' = rest /\ tra' = done
           \/ \E u \in Tra, r \in Requests :
                /\ ~Waiting(rest, u)
                /\ queue' = Append(rest, u)
                /\ tra' = [done EXCEPT ![u] = Fresh(r)]

\* The last report is over; the device itself does nothing.
Quiet ==
  /\ report' = NoReport
  /\ UNCHANGED <<queue, tra, store, trusted>>

Init ==
  /\ queue = <<>>
  /\ store = InitialDisk
  /\ trusted = TRUE
  /\ report = NoReport
  /\ \A t \in Tra : tra[t].completed

Next ==
  \/ \E t \in Tra, r \in Requests : Add(t, r)
  \/ Serve
  \/ Finish
  \/ Quiet

Spec == Init /\ [][Next]_vars
=============================================================================
