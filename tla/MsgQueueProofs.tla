--------------------------- MODULE MsgQueueProofs ---------------------------
(***************************************************************************)
(* The theorems about MsgQueue, for a ring of any size and any set of      *)
(* items, with one producer and one consumer.                              *)
(***************************************************************************)
EXTENDS MsgQueue, SequenceTheorems, TLAPS

Busy(p) == putAt[p] \in {"write", "advance"}

(* The inductive invariant: a producer that passed the test of queue_push   *)
(* works on the free slot at the tail, which keeps a free slot after it     *)
(* until the tail moves; every waiting entry was put; and a consumer that   *)
(* saw the ring non-empty works on a waiting entry.                         *)
ProducerInv ==
  \A p \in Producers :
    /\ putAt[p] # "idle" => putData[p] \in Data
    /\ Busy(p) => putTail[p] = tail /\ Wrap(tail) # head
    /\ putAt[p] = "advance" => entry[tail] = putData[p]

ContentsInv == \A k \in 0 .. Count - 1 : entry[SlotAfter(head, k)] \in Data

ConsumerInv ==
  /\ getAt \in {"read", "advance"} => head # tail
  /\ getAt = "advance" => getData = entry[head]
  /\ getAt = "got" => getData \in Data

IInv == TypeOK /\ ProducerInv /\ ContentsInv /\ ConsumerInv

-----------------------------------------------------------------------------
(* Going one slot up, without the modulo of queue.c.                        *)
LEMMA WrapLemma ==
  ASSUME NEW i \in Slots
  PROVE  /\ Wrap(i) = IF i + 1 = Size THEN 0 ELSE i + 1
         /\ Wrap(i) \in Slots
<1>1. i \in Nat /\ i + 1 <= Size /\ Size \in Nat \ {0}
  BY SizeAssumption DEF Slots
<1>2. CASE i + 1 = Size
  BY <1>1, <1>2 DEF Wrap, Slots
<1>3. CASE i + 1 < Size
  BY <1>1, <1>3 DEF Wrap, Slots
<1> QED  BY <1>1, <1>2, <1>3

(* Moving the tail up by one, while it does not reach the head, adds one    *)
(* waiting slot, the old tail, at the end.                                  *)
LEMMA TailUp ==
  ASSUME NEW h \in Slots, NEW t \in Slots, Wrap(t) # h
  PROVE  /\ Dist(h, Wrap(t)) = Dist(h, t) + 1
         /\ Dist(h, t) \in Nat
         /\ Dist(h, t) < Size - 1
         /\ SlotAfter(h, Dist(h, t)) = t
         /\ \A k \in 0 .. Dist(h, t) - 1 : SlotAfter(h, k) # t
<1>1. Wrap(t) = IF t + 1 = Size THEN 0 ELSE t + 1
  BY WrapLemma
<1> QED  BY <1>1, SizeAssumption DEF Slots, Dist, SlotAfter

(* Moving the head up by one, while it is not at the tail, takes away the   *)
(* first waiting slot, the old head, and renumbers the others.              *)
LEMMA HeadUp ==
  ASSUME NEW h \in Slots, NEW t \in Slots, h # t
  PROVE  /\ Dist(Wrap(h), t) = Dist(h, t) - 1
         /\ Dist(h, t) \in Nat \ {0}
         /\ Dist(h, t) < Size
         /\ SlotAfter(h, 0) = h
         /\ \A k \in 0 .. Dist(h, t) - 2 : SlotAfter(Wrap(h), k) = SlotAfter(h, k + 1)
<1>1. Wrap(h) = IF h + 1 = Size THEN 0 ELSE h + 1
  BY WrapLemma
<1> QED  BY <1>1, SizeAssumption DEF Slots, Dist, SlotAfter

(* Waiting slots are slots, and the tail is full exactly when Size - 1 wait. *)
LEMMA DistLemma ==
  ASSUME NEW h \in Slots, NEW t \in Slots
  PROVE  /\ Dist(h, t) \in Nat
         /\ Dist(h, t) <= Size - 1
         /\ \A k \in 0 .. Dist(h, t) - 1 : SlotAfter(h, k) \in Slots
         /\ Wrap(t) = h <=> Dist(h, t) = Size - 1
         /\ h = t <=> Dist(h, t) = 0
<1>1. Wrap(t) = IF t + 1 = Size THEN 0 ELSE t + 1
  BY WrapLemma
<1> QED  BY <1>1, SizeAssumption DEF Slots, Dist, SlotAfter

-----------------------------------------------------------------------------
(* Type correctness needs no assumption on the number of producers.         *)
LEMMA TypeInit == Init => TypeOK
BY SizeAssumption DEF Init, TypeOK, Slots

LEMMA TypeNext == TypeOK /\ [Next]_vars => TypeOK'
<1> SUFFICES ASSUME TypeOK, [Next]_vars
             PROVE  TypeOK'
  OBVIOUS
<1> USE DEF TypeOK
<1>1. ASSUME NEW p \in Producers, NEW d \in Data, PutCheck(p, d)
      PROVE  TypeOK'
  BY <1>1 DEF PutCheck, getVars
<1>2. ASSUME NEW p \in Producers, PutWrite(p)
      PROVE  TypeOK'
  BY <1>2 DEF PutWrite, getVars
<1>3. ASSUME NEW p \in Producers, PutAdvance(p)
      PROVE  TypeOK'
  BY <1>3, WrapLemma DEF PutAdvance, getVars
<1>4. ASSUME NEW p \in Producers, PutReturns(p)
      PROVE  TypeOK'
  BY <1>4 DEF PutReturns, getVars
<1>5. CASE GetPoll
  BY <1>5 DEF GetPoll, putVars
<1>6. CASE GetRead
  BY <1>6 DEF GetRead, putVars
<1>7. CASE GetAdvance
  BY <1>7, WrapLemma DEF GetAdvance, putVars
<1>8. CASE GetReturns
  BY <1>8 DEF GetReturns, putVars
<1>9. CASE UNCHANGED vars
  BY <1>9 DEF vars, putVars, getVars
<1> QED
  BY <1>1, <1>2, <1>3, <1>4, <1>5, <1>6, <1>7, <1>8, <1>9
  DEF Next, PutSteps, GetSteps

(* The shared fields and the registers of queue_push and queue_pop keep     *)
(* their ranges, head and tail stay inside the ring.                        *)
THEOREM TypeCorrect == Spec => []TypeOK
<1>1. QED  BY TypeInit, TypeNext, PTL DEF Spec

-----------------------------------------------------------------------------
LEMMA InvInit == Init => IInv
<1> SUFFICES ASSUME Init PROVE IInv
  OBVIOUS
<1>1. TypeOK
  BY TypeInit
<1>2. ProducerInv /\ ConsumerInv
  BY DEF Init, ProducerInv, ConsumerInv, Busy
<1>3. ContentsInv
  BY DEF Init, ContentsInv, Count, Dist
<1> QED  BY <1>1, <1>2, <1>3 DEF IInv

LEMMA InvNext ==
  ASSUME SingleProducer, IInv, [Next]_vars
  PROVE  IInv'
<1> USE DEF IInv
<1>1. TypeOK'
  BY TypeNext
<1>2. PICK q \in Producers : Producers = {q}
  BY DEF SingleProducer
<1>t. head \in Slots /\ tail \in Slots
  BY DEF TypeOK
<1>d. /\ Count \in Nat /\ Count <= Size - 1
      /\ \A k \in 0 .. Count - 1 : SlotAfter(head, k) \in Slots
  BY <1>t, DistLemma DEF Count
<1>3. ASSUME NEW p \in Producers, NEW d \in Data, PutCheck(p, d)
      PROVE  IInv'
  <2>1. ProducerInv'
    BY <1>2, <1>3 DEF PutCheck, ProducerInv, Busy, Full, TypeOK, getVars
  <2>2. ContentsInv' /\ ConsumerInv'
    BY <1>3 DEF PutCheck, ContentsInv, ConsumerInv, Count, getVars
  <2> QED  BY <1>1, <2>1, <2>2
<1>4. ASSUME NEW p \in Producers, PutWrite(p)
      PROVE  IInv'
  <2>1. Busy(p) /\ putTail[p] = tail /\ Wrap(tail) # head /\ putData[p] \in Data
    BY <1>4 DEF PutWrite, Busy, ProducerInv
  <2>2. ProducerInv'
    BY <1>2, <1>4, <2>1, <1>t DEF PutWrite, ProducerInv, Busy, TypeOK, getVars
  <2>3. \A k \in 0 .. Count - 1 : SlotAfter(head, k) # tail
    BY <2>1, <1>t, TailUp DEF Count
  <2>4. ContentsInv'
    BY <1>4, <2>1, <2>3, <1>d DEF PutWrite, ContentsInv, Count, TypeOK, getVars
  <2>5. ConsumerInv'
    BY <1>4, <2>1, <1>t DEF PutWrite, ConsumerInv, TypeOK, getVars
  <2> QED  BY <1>1, <2>2, <2>4, <2>5
<1>5. ASSUME NEW p \in Producers, PutAdvance(p)
      PROVE  IInv'
  <2>1. /\ putTail[p] = tail /\ Wrap(tail) # head
        /\ entry[tail] = putData[p] /\ putData[p] \in Data
    BY <1>5 DEF PutAdvance, Busy, ProducerInv
  <2>2. ProducerInv'
    BY <1>2, <1>5, <2>1 DEF PutAdvance, ProducerInv, Busy, TypeOK, getVars
  <2>3. Count' = Count + 1 /\ SlotAfter(head, Count) = tail
    BY <1>5, <2>1, <1>t, TailUp DEF PutAdvance, Count
  <2>4. ContentsInv'
    BY <1>5, <2>1, <2>3, <1>d DEF PutAdvance, ContentsInv, getVars
  <2>5. ConsumerInv'
    BY <1>5, <2>1 DEF PutAdvance, ConsumerInv, getVars
  <2> QED  BY <1>1, <2>2, <2>4, <2>5
<1>6. ASSUME NEW p \in Producers, PutReturns(p)
      PROVE  IInv'
  <2>1. ProducerInv'
    BY <1>2, <1>6 DEF PutReturns, ProducerInv, Busy, TypeOK, getVars
  <2>2. ContentsInv' /\ ConsumerInv'
    BY <1>6 DEF PutReturns, ContentsInv, ConsumerInv, Count, getVars
  <2> QED  BY <1>1, <2>1, <2>2
<1>7. CASE GetPoll
  <2>1. ProducerInv' /\ ContentsInv'
    BY <1>7 DEF GetPoll, ProducerInv, Busy, ContentsInv, Count, putVars
  <2>2. ConsumerInv'
    BY <1>7 DEF GetPoll, ConsumerInv, putVars
  <2> QED  BY <1>1, <2>1, <2>2
<1>8. CASE GetRead
  <2>1. ProducerInv' /\ ContentsInv'
    BY <1>8 DEF GetRead, ProducerInv, Busy, ContentsInv, Count, putVars
  <2>2. ConsumerInv'
    BY <1>8 DEF GetRead, ConsumerInv, putVars
  <2> QED  BY <1>1, <2>1, <2>2
<1>9. CASE GetAdvance
  <2>1. head # tail /\ getData = entry[head]
    BY <1>9 DEF GetAdvance, ConsumerInv
  <2>2. /\ Count' = Count - 1 /\ Count \in Nat \ {0} /\ Count < Size
        /\ SlotAfter(head, 0) = head
        /\ \A k \in 0 .. Count - 2 : SlotAfter(head', k) = SlotAfter(head, k + 1)
    BY <1>9, <2>1, <1>t, HeadUp DEF GetAdvance, Count
  <2>3. ContentsInv'
    <3> SUFFICES ASSUME NEW k \in 0 .. Count - 2
                 PROVE  entry[SlotAfter(head', k)] \in Data
      BY <1>9, <2>2 DEF ContentsInv, GetAdvance
    <3>1. k + 1 \in 0 .. Count - 1
      BY <2>2
    <3> QED  BY <2>2, <3>1 DEF ContentsInv
  <2>4. ConsumerInv'
    <3>1. 0 \in 0 .. Count - 1
      BY <2>2
    <3>2. entry[head] \in Data
      BY <2>2, <3>1 DEF ContentsInv
    <3> QED  BY <1>9, <2>1, <3>2 DEF GetAdvance, ConsumerInv, putVars
  <2>5. ProducerInv'
    <3> SUFFICES ASSUME NEW p \in Producers, Busy(p)
                 PROVE  Wrap(tail) # head'
      BY <1>9 DEF GetAdvance, ProducerInv, Busy, putVars
    <3>1. Wrap(tail) # head
      BY DEF ProducerInv
    <3>2. Count < Size - 1 /\ Dist(head', tail) = Count - 1
      BY <1>9, <1>t, <2>2, <3>1, TailUp DEF GetAdvance, Count
    <3>3. head' \in Slots
      BY <1>1 DEF TypeOK
    <3> QED  BY <3>2, <3>3, <1>t, <1>d, DistLemma, SizeAssumption
  <2> QED  BY <1>1, <2>3, <2>4, <2>5
<1>10. CASE GetReturns
  <2>1. ProducerInv' /\ ContentsInv' /\ ConsumerInv'
    BY <1>10 DEF GetReturns, ProducerInv, Busy, ContentsInv, ConsumerInv, Count, putVars
  <2> QED  BY <1>1, <2>1
<1>11. CASE UNCHANGED vars
  <2>1. ProducerInv' /\ ContentsInv' /\ ConsumerInv'
    BY <1>11 DEF vars, putVars, getVars, ProducerInv, Busy, ContentsInv, ConsumerInv, Count
  <2> QED  BY <1>1, <2>1
<1> QED
  BY <1>3, <1>4, <1>5, <1>6, <1>7, <1>8, <1>9, <1>10, <1>11
  DEF Next, PutSteps, GetSteps

(* With one producer the inductive invariant holds in every state.          *)
THEOREM Invariance ==
  ASSUME SingleProducer
  PROVE  Spec => []IInv
<1>1. Init => IInv
  BY InvInit
<1>2. IInv /\ [Next]_vars => IInv'
  BY InvNext
<1> QED  BY <1>1, <1>2, PTL DEF Spec

(* The producer never writes the slot the consumer reads, and the consumer  *)
(* never returns an entry that was not put, although the build has no lock. *)
THEOREM NoRace ==
  ASSUME SingleProducer
  PROVE  Spec => []RaceFree
<1>1. IInv => RaceFree
  BY DEF IInv, ProducerInv, ConsumerInv, Busy, RaceFree, NoSharedSlot, NoJunk
<1> QED  BY <1>1, Invariance, PTL

-----------------------------------------------------------------------------
(* The ring implements the fifo.                                            *)
Ret == [p \in Producers |-> IF putAt[p] \in {"ok", "full"} THEN putAt[p] ELSE "none"]

Out == IF getAt = "got" THEN <<getData>> ELSE <<>>

LEMMA ContentsLemma ==
  ASSUME IInv
  PROVE  /\ Contents \in Seq(Data)
         /\ Len(Contents) = Count
         /\ \A k \in 1 .. Count : Contents[k] = entry[SlotAfter(head, k - 1)]
<1>1. Count \in Nat
  BY DistLemma DEF IInv, TypeOK, Count
<1>2. ASSUME NEW k \in 1 .. Count
      PROVE  entry[SlotAfter(head, k - 1)] \in Data
  <2>1. k - 1 \in 0 .. Count - 1
    BY <1>1
  <2> QED  BY <2>1 DEF IInv, ContentsInv
<1> QED  BY <1>1, <1>2 DEF Contents

LEMMA SimulationStep ==
  ASSUME SingleProducer, IInv, IInv', [Next]_vars
  PROVE  [Fifo!Next]_Fifo!vars
<1> USE DEF IInv
<1>t. head \in Slots /\ tail \in Slots /\ head' \in Slots /\ tail' \in Slots
  BY DEF TypeOK
<1>c. /\ Contents \in Seq(Data) /\ Len(Contents) = Count
      /\ \A k \in 1 .. Count : Contents[k] = entry[SlotAfter(head, k - 1)]
  BY ContentsLemma
<1>n. Count \in Nat
  BY <1>t, DistLemma DEF Count
<1>f. Full <=> Count = Size - 1
  BY <1>t, DistLemma DEF Full, Count
<1>1. ASSUME NEW p \in Producers, NEW d \in Data, PutCheck(p, d)
      PROVE  [Fifo!Next]_Fifo!vars
  <2>1. Contents' = Contents /\ Out' = Out
    BY <1>1 DEF PutCheck, Contents, Count, Out, getVars
  <2>2. CASE Full
    <3>1. Ret[p] = "none" /\ Ret' = [Ret EXCEPT ![p] = "full"]
      BY <1>1, <2>2 DEF PutCheck, Ret, TypeOK
    <3>2. Fifo!Refuse(p)
      BY <1>c, <1>f, <2>1, <2>2, <3>1 DEF Fifo!Refuse, Ret, Out
    <3> QED  BY <3>2 DEF Fifo!Next
  <2>3. CASE ~Full
    <3>1. Ret' = Ret
      BY <1>1, <2>3 DEF PutCheck, Ret, TypeOK
    <3> QED  BY <2>1, <3>1 DEF Fifo!vars, Ret, Out
  <2> QED  BY <2>2, <2>3
<1>2. ASSUME NEW p \in Producers, PutWrite(p)
      PROVE  [Fifo!Next]_Fifo!vars
  <2>1. putTail[p] = tail /\ Wrap(tail) # head
    BY <1>2 DEF PutWrite, Busy, ProducerInv
  <2>2. \A k \in 0 .. Count - 1 : SlotAfter(head, k) # tail
    BY <2>1, <1>t, TailUp DEF Count
  <2>3. \A k \in 1 .. Count : k - 1 \in 0 .. Count - 1
    BY <1>n
  <2>4. \A k \in 1 .. Count : entry'[SlotAfter(head, k - 1)] = entry[SlotAfter(head, k - 1)]
    BY <1>2, <1>t, <2>1, <2>2, <2>3, DistLemma DEF PutWrite, TypeOK, Count
  <2>5. Contents' = Contents
    BY <1>2, <2>4 DEF PutWrite, Contents, Count
  <2>6. Ret' = Ret /\ Out' = Out
    BY <1>2 DEF PutWrite, Ret, Out, TypeOK, getVars
  <2> QED  BY <2>5, <2>6 DEF Fifo!vars, Ret, Out
<1>3. ASSUME NEW p \in Producers, PutAdvance(p)
      PROVE  [Fifo!Next]_Fifo!vars
  <2>1. /\ putTail[p] = tail /\ Wrap(tail) # head
        /\ entry[tail] = putData[p] /\ putData[p] \in Data
    BY <1>3 DEF PutAdvance, Busy, ProducerInv
  <2>2. Count' = Count + 1 /\ SlotAfter(head, Count) = tail /\ Count < Size - 1
    BY <1>3, <2>1, <1>t, TailUp DEF PutAdvance, Count
  <2>3. Contents' = Append(Contents, putData[p])
    <3>1. Append(Contents, putData[p]) =
            [k \in 1 .. Count + 1 |-> IF k = Count + 1 THEN putData[p] ELSE Contents[k]]
      BY <1>c, <1>n
    <3>2. Contents' = [k \in 1 .. Count + 1 |-> entry[SlotAfter(head, k - 1)]]
      BY <1>3, <2>2 DEF Contents, PutAdvance
    <3>3. ASSUME NEW k \in 1 .. Count + 1
          PROVE  entry[SlotAfter(head, k - 1)]
                   = IF k = Count + 1 THEN putData[p] ELSE Contents[k]
      <4>1. CASE k = Count + 1
        BY <4>1, <2>1, <2>2, <1>n
      <4>2. CASE k # Count + 1
        BY <4>2, <1>c, <1>n
      <4> QED  BY <4>1, <4>2
    <3> QED  BY <3>1, <3>2, <3>3
  <2>4. Ret[p] = "none" /\ Ret' = [Ret EXCEPT ![p] = "ok"] /\ Out' = Out
    BY <1>3 DEF PutAdvance, Ret, Out, TypeOK, getVars
  <2>5. PICK d \in Data : d = putData[p]
    BY <2>1
  <2>6. Fifo!Accept(p, d)
    BY <1>c, <2>2, <2>3, <2>4, <2>5 DEF Fifo!Accept, Ret, Out
  <2> QED  BY <2>6 DEF Fifo!Next
<1>4. ASSUME NEW p \in Producers, PutReturns(p)
      PROVE  [Fifo!Next]_Fifo!vars
  <2>1. Contents' = Contents /\ Out' = Out
    BY <1>4 DEF PutReturns, Contents, Count, Out, getVars
  <2>2. Ret[p] # "none" /\ Ret' = [Ret EXCEPT ![p] = "none"]
    BY <1>4 DEF PutReturns, Ret, TypeOK
  <2>3. Fifo!PutReturns(p)
    BY <2>1, <2>2 DEF Fifo!PutReturns, Ret, Out
  <2> QED  BY <2>3 DEF Fifo!Next
<1>5. CASE GetPoll \/ GetRead \/ UNCHANGED vars
  <2>1. Contents' = Contents /\ Out' = Out /\ Ret' = Ret
    BY <1>5 DEF GetPoll, GetRead, vars, putVars, getVars, Contents, Count, Out, Ret
  <2> QED  BY <2>1 DEF Fifo!vars, Ret, Out
<1>6. CASE GetAdvance
  <2>1. head # tail /\ getData = entry[head]
    BY <1>6 DEF GetAdvance, ConsumerInv
  <2>2. /\ Count' = Count - 1 /\ Count \in Nat \ {0}
        /\ SlotAfter(head, 0) = head
        /\ \A k \in 0 .. Count - 2 : SlotAfter(head', k) = SlotAfter(head, k + 1)
    BY <1>6, <2>1, <1>t, HeadUp DEF GetAdvance, Count
  <2>3. Contents # <<>> /\ Head(Contents) = getData
    BY <1>c, <2>1, <2>2
  <2>4. Contents' = Tail(Contents)
    <3>1. Tail(Contents) = [k \in 1 .. Count - 1 |-> Contents[k + 1]]
      <4>1. /\ Tail(Contents) \in Seq(Data) /\ Len(Tail(Contents)) = Count - 1
            /\ \A k \in 1 .. Count - 1 : Tail(Contents)[k] = Contents[k + 1]
        BY <1>c, <2>2, <2>3, HeadTailProperties
      <4>2. Tail(Contents) = [k \in 1 .. Count - 1 |-> Tail(Contents)[k]]
        BY <4>1, LenProperties
      <4> QED  BY <4>1, <4>2
    <3>2. Contents' = [k \in 1 .. Count - 1 |-> entry[SlotAfter(head', k - 1)]]
      BY <1>6, <2>2 DEF Contents, GetAdvance
    <3>3. ASSUME NEW k \in 1 .. Count - 1
          PROVE  entry[SlotAfter(head', k - 1)] = Contents[k + 1]
      <4>1. k - 1 \in 0 .. Count - 2 /\ k + 1 \in 1 .. Count /\ (k - 1) + 1 = k /\ (k + 1) - 1 = k
        BY <2>2
      <4> QED  BY <4>1, <1>c, <2>2
    <3> QED  BY <3>1, <3>2, <3>3
  <2>5. Out = <<>> /\ Out' = <<getData>> /\ Ret' = Ret
    BY <1>6 DEF GetAdvance, Out, Ret, putVars
  <2>6. Fifo!Take
    BY <2>3, <2>4, <2>5 DEF Fifo!Take, Ret, Out
  <2> QED  BY <2>6 DEF Fifo!Next
<1>7. CASE GetReturns
  <2>1. Contents' = Contents /\ Ret' = Ret /\ Out # <<>> /\ Out' = <<>>
    BY <1>7 DEF GetReturns, Contents, Count, Ret, Out, putVars
  <2>2. Fifo!GetReturns
    BY <2>1 DEF Fifo!GetReturns, Ret, Out
  <2> QED  BY <2>2 DEF Fifo!Next
<1> QED
  BY <1>1, <1>2, <1>3, <1>4, <1>5, <1>6, <1>7 DEF Next, PutSteps, GetSteps

LEMMA SimulationInit == Init => Fifo!Init
<1> SUFFICES ASSUME Init PROVE Fifo!Init
  OBVIOUS
<1>1. Count = 0
  BY DEF Init, Count, Dist
<1>2. Contents = <<>>
  BY <1>1 DEF Contents
<1> QED  BY <1>2 DEF Init, Fifo!Init

(* Every behaviour of the ring with one producer is one of the fifo: no     *)
(* accepted item is lost, duplicated, altered or overtaken, and an item is  *)
(* refused only while Size - 1 items wait.                                  *)
THEOREM Refinement ==
  ASSUME SingleProducer
  PROVE  Spec => ImplementsFifo
<1>1. Init => Fifo!Init
  BY SimulationInit
<1>2. IInv /\ IInv' /\ [Next]_vars => [Fifo!Next]_Fifo!vars
  BY SimulationStep
<1> QED  BY <1>1, <1>2, Invariance, PTL DEF Spec, ImplementsFifo, Fifo!Spec
=============================================================================
