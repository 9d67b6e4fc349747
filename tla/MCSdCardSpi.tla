----------------------------- MODULE MCSdCardSpi -----------------------------
(* Transfers of one and of several blocks that overlap. *)
EXTENDS SdCardSpi

Ask(write, start, count) == [write |-> write, start |-> start, count |-> count]

MCRequests == {Ask(FALSE, 0, 1), Ask(FALSE, 0, 3), Ask(FALSE, 1, 2), Ask(TRUE, 1, 1), Ask(TRUE, 0, 3)}
=============================================================================
