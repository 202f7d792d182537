----------------------------- MODULE MCMsgQueue -----------------------------
(* A ring of MCSize slots, one producer, and enough distinct items to tell  *)
(* a slot that is read from one that is overwritten.                        *)
EXTENDS MsgQueue

CONSTANTS p1, m1, m2, m3

MCSize == 3
MCData == {m1, m2, m3}
MCProducers == {p1}
=============================================================================
