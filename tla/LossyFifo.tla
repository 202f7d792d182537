------------------------------ MODULE LossyFifo ------------------------------
(***************************************************************************)
(* What a message queue of src/ifc/lib/net/msg_queue.c promises to the     *)
(* threads that share it: a first-in first-out buffer of a fixed capacity. *)
(* A put into a full buffer is refused, and since msg_queue_put has no     *)
(* return value its caller cannot tell; a get waits for an item.           *)
(***************************************************************************)
EXTENDS Naturals, Sequences

CONSTANTS
  Data,       \* the pointers that are put into the queue
  Capacity,   \* how many items it holds
  Producers   \* the threads that call msg_queue_put

VARIABLES
  fifo,       \* the accepted items that were not taken yet, oldest first
  ret,        \* what queue_push returned to the put in progress of a producer
  out         \* the item msg_queue_get is returning, as a sequence of length <= 1

vars == <<fifo, ret, out>>

Init ==
  /\ fifo = <<>>
  /\ ret = [p \in Producers |-> "none"]
  /\ out = <<>>

Accept(p, d) ==
  /\ ret[p] = "none"
  /\ Len(fifo) < Capacity
  /\ fifo' = Append(fifo, d)
  /\ ret' = [ret EXCEPT ![p] = "ok"]
  /\ UNCHANGED out

Refuse(p) ==
  /\ ret[p] = "none"
  /\ Len(fifo) = Capacity
  /\ ret' = [ret EXCEPT ![p] = "full"]
  /\ UNCHANGED <<fifo, out>>

PutReturns(p) ==
  /\ ret[p] # "none"
  /\ ret' = [ret EXCEPT ![p] = "none"]
  /\ UNCHANGED <<fifo, out>>

\* Mutant: the newest item is taken first.
TakeNewest ==
  /\ out = <<>>
  /\ fifo # <<>>
  /\ out' = <<fifo[Len(fifo)]>>
  /\ fifo' = SubSeq(fifo, 1, Len(fifo) - 1)
  /\ UNCHANGED ret

Take ==
  /\ out = <<>>
  /\ fifo # <<>>
  /\ out' = <<Head(fifo)>>
  /\ fifo' = Tail(fifo)
  /\ UNCHANGED ret

GetReturns ==
  /\ out # <<>>
  /\ out' = <<>>
  /\ UNCHANGED <<fifo, ret>>

Next ==
  \/ \E p \in Producers : (\E d \in Data : Accept(p, d)) \/ Refuse(p) \/ PutReturns(p)
  \/ Take
  \/ GetReturns

Spec == Init /\ [][Next]_vars

\* A consumer that keeps calling msg_queue_get takes every accepted item.
FairSpec == Spec /\ WF_vars(Take) /\ WF_vars(GetReturns)
=============================================================================
