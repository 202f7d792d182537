------------------------------ MODULE MsgQueue ------------------------------
(***************************************************************************)
(* The message queue that connects the threads of the ifc program: the     *)
(* ring buffer of src/ifc/lib/queue/queue.c behind the blocking interface  *)
(* of src/ifc/lib/net/msg_queue.c.  The default build defines no           *)
(* __USE_SIGNAL, so there is no lock: the threads touch entry, head and    *)
(* tail directly.  Each access of a shared field is a step of its own, in  *)
(* program order, which the x86 targets of the project keep.  A thread     *)
(* keeps in a register the tail it has loaded for the test of queue_push.  *)
(***************************************************************************)
EXTENDS Naturals, Sequences

CONSTANTS
  Size,       \* queue_t.size, the slots of the ring
  Data,       \* the pointers that are put, the NULL of destroy_msg_queue among them
  Junk,       \* what an entry holds before it is first written
  Producers   \* the threads that call msg_queue_put

ASSUME SizeAssumption == Size \in Nat \ {0}
ASSUME JunkAssumption == Junk \notin Data

VARIABLES
  entry, head, tail,      \* queue_t
  putAt, putData, putTail,\* per producer: where it is in queue_push, its argument, the tail it loaded
  getAt, getData          \* the consumer: where it is in msg_queue_get, and *data

putVars == <<putAt, putData, putTail>>
getVars == <<getAt, getData>>
vars == <<entry, head, tail, putVars, getVars>>

Slots == 0 .. Size - 1

Wrap(i) == (i + 1) % Size

\* create_msg_queue: the entries come from the pool and are not cleared.
Init ==
  /\ entry = [i \in Slots |-> Junk]
  /\ head = 0
  /\ tail = 0
  /\ putAt = [p \in Producers |-> "idle"]
  /\ putData = [p \in Producers |-> Junk]
  /\ putTail = [p \in Producers |-> 0]
  /\ getAt = "poll"
  /\ getData = Junk

-----------------------------------------------------------------------------
(* msg_queue_put(que, data), which ignores what queue_push returns.         *)

\* Mutants: no test for a full ring; a ring that is full one item too early.
FullIgnored == FALSE
FullTooEarly == Wrap(Wrap(tail)) = head

Full == Wrap(tail) = head

PutCheck(p, d) ==
  /\ putAt[p] = "idle"
  /\ putAt' = [putAt EXCEPT ![p] = IF Full THEN "full" ELSE "write"]
  /\ putData' = [putData EXCEPT ![p] = d]
  /\ putTail' = [putTail EXCEPT ![p] = tail]
  /\ UNCHANGED <<entry, head, tail, getVars>>

PutWrite(p) ==
  /\ putAt[p] = "write"
  /\ entry' = [entry EXCEPT ![putTail[p]] = putData[p]]
  /\ putAt' = [putAt EXCEPT ![p] = "advance"]
  /\ UNCHANGED <<head, tail, putData, putTail, getVars>>

PutAdvance(p) ==
  /\ putAt[p] = "advance"
  /\ tail' = Wrap(putTail[p])
  /\ putAt' = [putAt EXCEPT ![p] = "ok"]
  /\ UNCHANGED <<entry, head, putData, putTail, getVars>>

PutReturns(p) ==
  /\ putAt[p] \in {"ok", "full"}
  /\ putAt' = [putAt EXCEPT ![p] = "idle"]
  /\ UNCHANGED <<entry, head, tail, putData, putTail, getVars>>

PutSteps(p) == PutWrite(p) \/ PutAdvance(p) \/ PutReturns(p)

-----------------------------------------------------------------------------
(* msg_queue_get(que, &data): queue_pop until it succeeds.  A poll of the   *)
(* empty ring sleeps and tries again, it leaves the state as it is.         *)

GetPoll ==
  /\ getAt = "poll"
  /\ head # tail
  /\ getAt' = "read"
  /\ UNCHANGED <<entry, head, tail, putVars, getData>>

GetRead ==
  /\ getAt = "read"
  /\ getData' = entry[head]
  /\ getAt' = "advance"
  /\ UNCHANGED <<entry, head, tail, putVars>>

GetAdvance ==
  /\ getAt = "advance"
  /\ head' = Wrap(head)
  /\ getAt' = "got"
  /\ UNCHANGED <<entry, tail, putVars, getData>>

\* The caller is done with the item and calls msg_queue_get again.
GetReturns ==
  /\ getAt = "got"
  /\ getAt' = "poll"
  /\ UNCHANGED <<entry, head, tail, putVars, getData>>

GetSteps == GetPoll \/ GetRead \/ GetAdvance

-----------------------------------------------------------------------------
Next ==
  \/ \E p \in Producers : (\E d \in Data : PutCheck(p, d)) \/ PutSteps(p)
  \/ GetSteps
  \/ GetReturns

Spec == Init /\ [][Next]_vars

\* Each thread is scheduled; nobody has to call msg_queue_put.
Fairness ==
  /\ \A p \in Producers : WF_vars(PutSteps(p))
  /\ WF_vars(GetSteps \/ GetReturns)

FairSpec == Spec /\ Fairness

-----------------------------------------------------------------------------
(* Properties.  They are about a queue with a single producer, which each   *)
(* queue of the program has until it is destroyed.                          *)

SingleProducer == \E p \in Producers : Producers = {p}

\* The distance from slot i to slot j, going up with wrap-around.
Dist(i, j) == IF i <= j THEN j - i ELSE j - i + Size

Count == Dist(head, tail)

\* The slot that lies k places after slot i.
SlotAfter(i, k) == IF i + k < Size THEN i + k ELSE i + k - Size

Contents == [k \in 1 .. Count |-> entry[SlotAfter(head, k - 1)]]

TypeOK ==
  /\ entry \in [Slots -> Data \cup {Junk}]
  /\ head \in Slots
  /\ tail \in Slots
  /\ putAt \in [Producers -> {"idle", "write", "advance", "ok", "full"}]
  /\ putData \in [Producers -> Data \cup {Junk}]
  /\ putTail \in [Producers -> Slots]
  /\ getAt \in {"poll", "read", "advance", "got"}
  /\ getData \in Data \cup {Junk}

\* The two threads are never at the same slot: while the producer is writing
\* an entry of the ring (queue_push), the consumer is reading another one
\* (queue_pop), although neither takes a lock.
NoSharedSlot ==
  \A p \in Producers :
    putAt[p] \in {"write", "advance"} /\ getAt \in {"read", "advance"} => putTail[p] # head

\* msg_queue_get never returns an entry that nobody put there.
NoJunk == getAt = "got" => getData \in Data

\* Without a lock the two threads keep out of each other's way.
RaceFree == NoSharedSlot /\ NoJunk

\* The code implements the fifo: what queue_push accepts is returned by
\* queue_pop in the same order, once, unchanged, and queue_push refuses an
\* item only while Size - 1 accepted ones are waiting.
Fifo == INSTANCE LossyFifo WITH
  Capacity <- Size - 1,
  fifo <- Contents,
  ret <- [p \in Producers |-> IF putAt[p] \in {"ok", "full"} THEN putAt[p] ELSE "none"],
  out <- IF getAt = "got" THEN <<getData>> ELSE <<>>

ImplementsFifo == Fifo!Spec

\* With both threads running the consumer gets every accepted item.
ImplementsFairFifo == Fifo!FairSpec
=============================================================================
