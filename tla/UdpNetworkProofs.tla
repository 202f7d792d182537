-------------------------- MODULE UdpNetworkProofs --------------------------
(***************************************************************************)
(* The theorems about UdpNetwork, for queues of any size and any number of *)
(* datagrams and packets.                                                  *)
(***************************************************************************)
EXTENDS UdpNetwork, MemPool, FiniteSetTheorems, TLAPS

\* The lemmas about one ring, for recv_que.
Ring == INSTANCE MsgQueueProofs WITH
  Data <- 1 .. MaxRecv \cup {NULL}, Producers <- {"listen", "main"}

MainStates ==
  {"start_listen", "start_send", "undo_listen", "start_loop", "gtk", "stop",
   "put_recv", "put_send", "join_listen", "join_send", "join_loop", "done"}

SendTypes ==
  /\ fifo \in Seq(1 .. MaxSend \cup {NULL})
  /\ out \in Seq(1 .. MaxSend \cup {NULL})
  /\ ret \in [{"main"} -> {"none", "ok", "full"}]

Places ==
  /\ mainAt \in MainStates
  /\ listenAt \in {"none", "check", "wait", "put", "exited"}
  /\ sendAt \in {"none", "get", "check", "sendto", "failed", "exited"}
  /\ loopAt \in {"none", "get", "handle", "exited"}

Counters ==
  /\ received \in 0 .. MaxRecv
  /\ submitted \in 0 .. MaxSend
  /\ handled \in 0 .. MaxRecv
  /\ late \in Nat

TypeOK == RecvQue!TypeOK /\ SendTypes /\ Places /\ Counters

(* How far main is tells which threads run and what it has freed.  A socket *)
(* that is shut down before the user quits is one whose send thread could   *)
(* not be started, and main has seen its listen thread exit.                *)
ControlInv ==
  /\ mainAt = "start_listen" => listenAt = "none"
  /\ mainAt \in {"start_listen", "start_send"} => sendAt = "none" /\ ~sockShutdown
  /\ mainAt = "undo_listen" => sendAt = "failed"
  /\ mainAt \in {"start_loop", "gtk", "stop"} /\ sockShutdown =>
       sendAt = "failed" /\ listenAt = "exited"
  /\ mainAt \in {"put_recv", "put_send", "join_listen", "join_send"} => sockShutdown
  /\ mainAt \in {"join_send", "join_loop", "done"} => listenAt = "exited"
  /\ mainAt \in {"join_loop", "done"} => sendAt \in {"failed", "exited"}
  /\ mainAt = "done" => loopAt = "exited"
  /\ mainAt \notin {"join_loop", "done"} => "usock" \notin freed
  /\ "usock" \in freed => sendAt = "exited"
  /\ mainAt # "done" => "pool" \notin freed
  /\ ~appShutdown => mainAt \in {"start_listen", "start_send", "undo_listen", "start_loop", "gtk"}

LateInv ==
  \/ late = 0
  \/ late = 1 /\ sockShutdown /\ listenAt \in {"put", "check", "exited"}

Waiting(i) == i \in RecvQue!Slots /\ RecvQue!Dist(head, i) < RecvQue!Dist(head, tail)

Before(i, j) == RecvQue!Dist(head, i) < RecvQue!Dist(head, j)

Putting == putAt["listen"] \in {"write", "advance"}

(* Until the user quits the listen thread is the only producer of recv_que. *)
(* The ring then holds datagrams in the order of their arrival, all later   *)
(* than the one the loop has taken, all earlier than the one being put.     *)
ProducerInv ==
  /\ putAt["main"] = "idle"
  /\ Putting => /\ putTail["listen"] = tail /\ RecvQue!Wrap(tail) # head
                /\ putData["listen"] = received /\ handled < received
  /\ putAt["listen"] = "advance" => entry[tail] = received

ContentsInv ==
  /\ handled \in 0 .. received
  /\ \A i \in RecvQue!Slots : Waiting(i) =>
       /\ entry[i] \in 1 .. received /\ handled < entry[i]
       /\ Putting => entry[i] < received
       /\ \A j \in RecvQue!Slots : Waiting(j) /\ Before(i, j) => entry[i] < entry[j]

ConsumerInv ==
  /\ getAt \in {"read", "advance"} => head # tail
  /\ getAt = "advance" => getData = entry[head]
  /\ getAt = "got" =>
       /\ getData \in 1 .. received /\ handled < getData
       /\ Putting => getData < received
       /\ \A i \in RecvQue!Slots : Waiting(i) => getData < entry[i]

(* Once the user has quit, main puts its NULL beside what the listen thread *)
(* still puts and nothing is said of the ring; but the loop handles at most *)
(* the datagram with which it passed its test of the flag.                  *)
RecvInv ==
  /\ loopAt = "handle" =>
       getAt = "got" /\ getData \in 1 .. MaxRecv /\ handled < getData
  /\ ~appShutdown => ProducerInv /\ ContentsInv /\ ConsumerInv

(* The packets of send_que, until its socket is shut down; after that the   *)
(* send thread sends at most the packet it was about to send.               *)
OutInv ==
  /\ sent \in 0 .. submitted
  /\ sendAt \notin {"check", "sendto", "exited"} => out = <<>>
  /\ sendAt = "sendto" \/ (sendAt = "check" /\ ~sockShutdown) =>
       out # <<>> /\ Head(out) \in 1 .. submitted /\ sent < Head(out)

FifoInv ==
  \A i \in 1 .. Len(fifo) :
    /\ fifo[i] \in 1 .. submitted /\ sent < fifo[i]
    /\ sendAt \in {"check", "sendto"} => Head(out) < fifo[i]
    /\ \A j \in 1 .. Len(fifo) : i < j => fifo[i] < fifo[j]

SendInv == OutInv /\ (~sockShutdown => FifoInv)

IInv == TypeOK /\ ControlInv /\ LateInv /\ RecvInv /\ SendInv
-----------------------------------------------------------------------------
(* The ring.  Moving the tail up by one makes the old tail the last of the  *)
(* waiting slots.                                                           *)
LEMMA WrapLemma ==
  ASSUME NEW i \in RecvQue!Slots
  PROVE  /\ RecvQue!Wrap(i) = IF i + 1 = Size THEN 0 ELSE i + 1
         /\ RecvQue!Wrap(i) \in RecvQue!Slots
<1>1. i \in Ring!Slots
  BY DEF RecvQue!Slots, Ring!Slots
<1>2. Ring!Wrap(i) \in Ring!Slots /\ Ring!Wrap(i) = IF i + 1 = Size THEN 0 ELSE i + 1
  BY <1>1, SizeAssumption, PointersAssumption, Ring!WrapLemma
<1> QED  BY <1>2 DEF RecvQue!Slots, Ring!Slots, RecvQue!Wrap, Ring!Wrap

LEMMA TailUp ==
  ASSUME NEW h \in RecvQue!Slots, NEW t \in RecvQue!Slots, RecvQue!Wrap(t) # h
  PROVE  /\ RecvQue!Dist(h, RecvQue!Wrap(t)) = RecvQue!Dist(h, t) + 1
         /\ \A i \in RecvQue!Slots :
              RecvQue!Dist(h, i) \in Nat /\ (RecvQue!Dist(h, i) = RecvQue!Dist(h, t) => i = t)
<1>1. RecvQue!Wrap(t) = IF t + 1 = Size THEN 0 ELSE t + 1
  BY WrapLemma
<1> QED  BY <1>1, SizeAssumption DEF RecvQue!Slots, RecvQue!Dist

(* Moving the head up by one takes the first of the waiting slots away and  *)
(* keeps the order of the others.                                           *)
LEMMA HeadUp ==
  ASSUME NEW h \in RecvQue!Slots, NEW t \in RecvQue!Slots, h # t
  PROVE  /\ RecvQue!Dist(h, h) = 0
         /\ RecvQue!Wrap(h) # RecvQue!Wrap(t)
         /\ \A i \in RecvQue!Slots \ {h} :
              /\ RecvQue!Dist(h, i) \in Nat \ {0}
              /\ RecvQue!Dist(RecvQue!Wrap(h), i) = RecvQue!Dist(h, i) - 1
         /\ \A i \in RecvQue!Slots :
              RecvQue!Dist(RecvQue!Wrap(h), h) >= RecvQue!Dist(RecvQue!Wrap(h), i)
<1>1. /\ RecvQue!Wrap(h) = IF h + 1 = Size THEN 0 ELSE h + 1
      /\ RecvQue!Wrap(t) = IF t + 1 = Size THEN 0 ELSE t + 1
  BY WrapLemma
<1> QED  BY <1>1, SizeAssumption DEF RecvQue!Slots, RecvQue!Dist

-----------------------------------------------------------------------------
(* The threads use the two queues only as msg_queue.h lets them.            *)
LEMMA RecvStep ==
  ASSUME received \in Nat, [Next]_vars
  PROVE  [RecvQue!Next]_(RecvQue!vars)
<1> USE DEF RecvQue!Next, RecvQue!PutSteps
<1>1. CASE PutNullRecv
  BY <1>1 DEF PutNullRecv
<1>2. CASE FreeRecvQue
  BY <1>2 DEF FreeRecvQue
<1>3. CASE ListenRecv
  <2>1. received + 1 \in 1 .. MaxRecv
    BY <1>3, BoundsAssumption DEF ListenRecv
  <2> QED  BY <1>3, <2>1 DEF ListenRecv
<1>4. CASE ListenPut
  BY <1>4 DEF ListenPut
<1>5. CASE ListenPutReturns
  BY <1>5 DEF ListenPutReturns
<1>6. CASE LoopGet
  BY <1>6 DEF LoopGet
<1>7. CASE LoopHandle
  BY <1>7 DEF LoopHandle
<1>8. CASE UNCHANGED recvVars
  BY <1>8 DEF recvVars, RecvQue!vars, RecvQue!putVars, RecvQue!getVars
<1>9. CASE \/ StartListen \/ StartSend \/ StartSendFails \/ UndoListen \/ Broadcast
           \/ StartLoop \/ Submitted \/ Submit \/ Quit
           \/ StopTwice \/ Stop \/ PutNullSend \/ FreeSendQue
           \/ JoinListen \/ JoinSend \/ JoinLoop
  BY <1>8, <1>9
  DEF StartListen, StartSend, StartSendFails, UndoListen, Broadcast, StartLoop, Submitted,
      Submit, Quit, UdpSend, StopTwice, Stop, PutNullSend, FreeSendQue, JoinListen, JoinSend,
      JoinLoop
<1>10. CASE ListenCheck \/ ListenTimeout \/ SendSteps \/ LoopCheck \/ UNCHANGED vars
  BY <1>8, <1>10
  DEF ListenCheck, ListenTimeout, SendSteps, SendGet, SendCheck, SendTo, LoopCheck, vars
<1> QED
  BY <1>1, <1>2, <1>3, <1>4, <1>5, <1>6, <1>7, <1>9, <1>10
  DEF Next, MainSteps, ListenSteps, LoopSteps

LEMMA SendStep ==
  ASSUME submitted \in Nat, [Next]_vars
  PROVE  [SendQue!Next]_(SendQue!vars)
<1> USE DEF SendQue!Next
<1>1. CASE Broadcast \/ Submit
  <2>1. UdpSend
    BY <1>1 DEF Broadcast, Submit
  <2>2. submitted + 1 \in 1 .. MaxSend
    BY <2>1, BoundsAssumption DEF UdpSend
  <2> QED  BY <2>1, <2>2 DEF UdpSend
<1>2. CASE Submitted
  BY <1>2 DEF Submitted
<1>3. CASE PutNullSend
  BY <1>3 DEF PutNullSend
<1>4. CASE FreeSendQue
  BY <1>4 DEF FreeSendQue
<1>5. CASE SendGet
  BY <1>5 DEF SendGet
<1>6. CASE SendTo
  BY <1>6 DEF SendTo
<1>7. CASE UNCHANGED sendVars
  BY <1>7 DEF sendVars, SendQue!vars
<1>8. CASE \/ StartListen \/ StartSend \/ StartSendFails \/ UndoListen
           \/ StartLoop \/ Quit \/ StopTwice \/ Stop \/ PutNullRecv \/ FreeRecvQue
           \/ JoinListen \/ JoinSend \/ JoinLoop
  BY <1>7, <1>8
  DEF StartListen, StartSend, StartSendFails, UndoListen, StartLoop, Quit, StopTwice, Stop,
      PutNullRecv, FreeRecvQue, JoinListen, JoinSend, JoinLoop
<1>9. CASE ListenSteps \/ SendCheck \/ LoopSteps \/ UNCHANGED vars
  BY <1>7, <1>9
  DEF ListenSteps, ListenCheck, ListenTimeout, ListenRecv, ListenPut, ListenPutReturns,
      SendCheck, LoopSteps, LoopGet, LoopCheck, LoopHandle, vars
<1> QED
  BY <1>1, <1>2, <1>3, <1>4, <1>5, <1>6, <1>8, <1>9 DEF Next, MainSteps, SendSteps

-----------------------------------------------------------------------------
(* Type correctness.  recv_que keeps its types because its steps are those  *)
(* of a message queue.                                                      *)
LEMMA RecvTypes ==
  ASSUME RecvQue!TypeOK, [RecvQue!Next]_(RecvQue!vars)
  PROVE  RecvQue!TypeOK'
<1>1. Ring!TypeOK
  BY DEF RecvQue!TypeOK, Ring!TypeOK, RecvQue!Slots, Ring!Slots
<1>2. [Ring!Next]_(Ring!vars)
  BY Zenon
  DEF RecvQue!Next, Ring!Next, RecvQue!vars, Ring!vars, RecvQue!putVars, Ring!putVars,
      RecvQue!getVars, Ring!getVars, RecvQue!Wrap, Ring!Wrap, RecvQue!Full, Ring!Full,
      RecvQue!PutCheck, Ring!PutCheck, RecvQue!PutSteps, Ring!PutSteps,
      RecvQue!PutWrite, Ring!PutWrite, RecvQue!PutAdvance, Ring!PutAdvance,
      RecvQue!PutReturns, Ring!PutReturns, RecvQue!GetSteps, Ring!GetSteps,
      RecvQue!GetPoll, Ring!GetPoll, RecvQue!GetRead, Ring!GetRead,
      RecvQue!GetAdvance, Ring!GetAdvance, RecvQue!GetReturns, Ring!GetReturns
<1>3. Ring!TypeOK'
  BY <1>1, <1>2, SizeAssumption, PointersAssumption, Ring!TypeNext
<1> QED  BY <1>3 DEF RecvQue!TypeOK, Ring!TypeOK, RecvQue!Slots, Ring!Slots

LEMMA SendTypesKept ==
  ASSUME SendTypes, [SendQue!Next]_(SendQue!vars)
  PROVE  SendTypes'
<1> USE DEF SendTypes
<1>1. ASSUME NEW p \in {"main"}, NEW d \in 1 .. MaxSend \cup {NULL}, SendQue!Accept(p, d)
      PROVE  SendTypes'
  BY <1>1 DEF SendQue!Accept
<1>2. ASSUME NEW p \in {"main"}, SendQue!Refuse(p) \/ SendQue!PutReturns(p)
      PROVE  SendTypes'
  BY <1>2 DEF SendQue!Refuse, SendQue!PutReturns
<1>3. CASE SendQue!Take
  BY <1>3 DEF SendQue!Take
<1>4. CASE SendQue!GetReturns
  BY <1>4 DEF SendQue!GetReturns
<1>5. CASE UNCHANGED SendQue!vars
  BY <1>5 DEF SendQue!vars
<1> QED  BY <1>1, <1>2, <1>3, <1>4, <1>5 DEF SendQue!Next

LEMMA TypeInit == Init => TypeOK
<1> SUFFICES ASSUME Init PROVE TypeOK
  OBVIOUS
<1>1. RecvQue!TypeOK
  BY SizeAssumption DEF Init, RecvQue!Init, RecvQue!TypeOK, RecvQue!Slots
<1>2. SendTypes /\ Places /\ Counters
  BY BoundsAssumption
  DEF Init, SendQue!Init, SendTypes, Places, MainStates, Counters
<1> QED  BY <1>1, <1>2 DEF TypeOK

\* The datagram that is handled is one of those received.
HandledInv == loopAt = "handle" => getData \in 1 .. MaxRecv

LEMMA TypeNext ==
  ASSUME TypeOK, HandledInv, [Next]_vars
  PROVE  TypeOK'
<1> USE DEF TypeOK
<1>0. received \in Nat /\ submitted \in Nat
  BY BoundsAssumption DEF Counters
<1>1. RecvQue!TypeOK' /\ SendTypes'
  BY <1>0, RecvStep, SendStep, RecvTypes, SendTypesKept
<1>2. ASSUME MainSteps \/ Submit \/ Quit
      PROVE  Places' /\ Counters'
  BY <1>2, BoundsAssumption
  DEF MainSteps, StartListen, StartSend, StartSendFails, UndoListen, Broadcast, StartLoop,
      Submitted, Submit, Quit, UdpSend, StopTwice, Stop, PutNullRecv, FreeRecvQue, PutNullSend,
      FreeSendQue, JoinListen, JoinSend, JoinLoop, Places, MainStates, Counters, flags, history
<1>3. ASSUME ListenSteps \/ SendSteps
      PROVE  Places' /\ Counters'
  BY <1>3, BoundsAssumption
  DEF ListenSteps, ListenCheck, ListenTimeout, ListenRecv, ListenPut, ListenPutReturns,
      SendSteps, SendGet, SendCheck, SendTo, Places, Counters, flags, history
<1>4. ASSUME LoopSteps \/ UNCHANGED vars
      PROVE  Places' /\ Counters'
  BY <1>4, BoundsAssumption
  DEF LoopSteps, LoopGet, LoopCheck, LoopHandle, HandledInv, Places, Counters, flags, history,
      vars
<1> QED  BY <1>1, <1>2, <1>3, <1>4 DEF Next

-----------------------------------------------------------------------------
LEMMA ControlInit == Init => ControlInv /\ LateInv
BY DEF Init, ControlInv, LateInv

LEMMA ControlNext ==
  ASSUME TypeOK, ControlInv, [Next]_vars
  PROVE  ControlInv'
<1> USE DEF TypeOK, Places, ControlInv
<1>1. CASE StartListen \/ StartSend \/ StartSendFails \/ UndoListen \/ StartLoop
  BY <1>1
  DEF StartListen, StartSend, StartSendFails, UndoListen, StartLoop, MainStates, flags, history
<1>2. CASE Broadcast \/ Submit \/ Submitted \/ PutNullRecv \/ PutNullSend
  BY <1>2 DEF Broadcast, Submit, Submitted, UdpSend, PutNullRecv, PutNullSend, flags, history
<1>3. CASE Quit \/ StopTwice \/ Stop
  BY <1>3 DEF Quit, StopTwice, Stop, flags, history
<1>4. CASE FreeRecvQue \/ FreeSendQue \/ JoinListen
  BY <1>4 DEF FreeRecvQue, FreeSendQue, JoinListen, flags, history
<1>5. CASE JoinSend \/ JoinLoop
  BY <1>5 DEF JoinSend, JoinLoop, flags, history
<1>6. CASE ListenSteps
  BY <1>6
  DEF ListenSteps, ListenCheck, ListenTimeout, ListenRecv, ListenPut, ListenPutReturns, flags,
      history
<1>7. CASE SendSteps
  BY <1>7 DEF SendSteps, SendGet, SendCheck, SendTo, flags, history
<1>8. CASE LoopSteps
  BY <1>8 DEF LoopSteps, LoopGet, LoopCheck, LoopHandle, flags, history
<1>9. CASE UNCHANGED vars
  BY <1>9 DEF vars, flags, history
<1> QED
  BY <1>1, <1>2, <1>3, <1>4, <1>5, <1>6, <1>7, <1>8, <1>9 DEF Next, MainSteps

LEMMA LateNext ==
  ASSUME TypeOK, ControlInv, LateInv, [Next]_vars
  PROVE  LateInv'
<1> USE DEF LateInv
<1>1. CASE MainSteps \/ Submit \/ Quit
  BY <1>1
  DEF MainSteps, StartListen, StartSend, StartSendFails, UndoListen, Broadcast, StartLoop,
      Submitted, Submit, Quit, UdpSend, StopTwice, Stop, PutNullRecv, FreeRecvQue, PutNullSend,
      FreeSendQue, JoinListen, JoinSend, JoinLoop, ControlInv, flags, history
<1>2. CASE ListenSteps
  BY <1>2
  DEF ListenSteps, ListenCheck, ListenTimeout, ListenRecv, ListenPut, ListenPutReturns, flags,
      history
<1>3. CASE SendSteps \/ LoopSteps \/ UNCHANGED vars
  BY <1>3
  DEF SendSteps, SendGet, SendCheck, SendTo, LoopSteps, LoopGet, LoopCheck, LoopHandle, flags,
      history, vars
<1> QED  BY <1>1, <1>2, <1>3 DEF Next

-----------------------------------------------------------------------------
(* The receive side.                                                        *)
LEMMA RecvInit == Init => RecvInv
<1>1. ASSUME Init PROVE ProducerInv /\ ConsumerInv
  BY <1>1 DEF Init, RecvQue!Init, ProducerInv, ConsumerInv, Putting
<1>2. ASSUME Init PROVE ContentsInv
  <2>1. \A i \in RecvQue!Slots : ~Waiting(i)
    BY <1>2, SizeAssumption DEF Init, RecvQue!Init, Waiting, RecvQue!Dist, RecvQue!Slots
  <2> QED  BY <1>2, <2>1 DEF Init, ContentsInv
<1> QED  BY <1>1, <1>2 DEF Init, RecvInv

\* What RecvInv is about.
recvState == <<recvVars, loopAt, appShutdown, received, handled>>

LEMMA RecvNext ==
  ASSUME TypeOK, ControlInv, RecvInv, [Next]_vars
  PROVE  RecvInv'
<1>t. /\ entry \in [RecvQue!Slots -> 1 .. MaxRecv \cup {NULL, Junk}]
      /\ head \in RecvQue!Slots /\ tail \in RecvQue!Slots
      /\ putAt \in [{"listen", "main"} -> {"idle", "write", "advance", "ok", "full"}]
      /\ putData \in [{"listen", "main"} -> 1 .. MaxRecv \cup {NULL, Junk}]
      /\ putTail \in [{"listen", "main"} -> RecvQue!Slots]
      /\ received \in 0 .. MaxRecv /\ handled \in 0 .. MaxRecv /\ MaxRecv \in Nat
      /\ RecvQue!Wrap(tail) \in RecvQue!Slots /\ RecvQue!Wrap(head) \in RecvQue!Slots
  BY BoundsAssumption, WrapLemma DEF TypeOK, RecvQue!TypeOK, Counters
<1> USE DEF RecvInv
<1>1. CASE UNCHANGED recvState
  BY <1>1
  DEF recvState, recvVars, ProducerInv, ContentsInv, ConsumerInv, Putting, Waiting, Before
<1>2. CASE Quit
  BY <1>2 DEF Quit, recvVars, history
<1>3. CASE StartLoop \/ LoopCheck
  <2>1. loopAt' = "handle" => getAt' = "got" /\ getData' \in 1 .. MaxRecv /\ handled' < getData'
    BY <1>3, <1>t DEF StartLoop, LoopCheck, ConsumerInv, recvVars, history, flags
  <2>2. UNCHANGED <<recvVars, appShutdown, received, handled>>
    BY <1>3 DEF StartLoop, LoopCheck, history, flags
  <2> QED
    BY <2>1, <2>2
    DEF recvVars, ProducerInv, ContentsInv, ConsumerInv, Putting, Waiting, Before
<1>4. CASE PutNullRecv \/ FreeRecvQue
  BY <1>4
  DEF PutNullRecv, FreeRecvQue, RecvQue!PutCheck, RecvQue!PutWrite, RecvQue!PutAdvance,
      RecvQue!PutReturns, RecvQue!getVars, ControlInv, flags, history
<1>5. CASE ListenRecv
  <2> USE <1>5 DEF ListenRecv, RecvQue!PutCheck, RecvQue!getVars, flags
  <2>1. ASSUME ~appShutdown PROVE ProducerInv'
    BY <2>1, <1>t DEF ProducerInv, ContentsInv, Putting, RecvQue!Full
  <2>2. ASSUME ~appShutdown PROVE ContentsInv' /\ ConsumerInv'
    BY <2>2, <1>t DEF ContentsInv, ConsumerInv, Putting, Waiting, Before
  <2> QED  BY <2>1, <2>2
<1>6. CASE ListenPut /\ RecvQue!PutWrite("listen")
  <2> USE <1>6 DEF ListenPut, RecvQue!PutWrite, RecvQue!getVars, flags, history
  <2>1. ASSUME ~appShutdown PROVE ~Waiting(tail)
    BY <1>t, SizeAssumption DEF Waiting, RecvQue!Dist, RecvQue!Slots
  <2>2. ASSUME ~appShutdown PROVE ProducerInv'
    BY <2>2, <1>t DEF ProducerInv, Putting
  <2>3. ASSUME ~appShutdown PROVE ContentsInv' /\ ConsumerInv'
    BY <2>1, <2>3, <1>t DEF ProducerInv, ContentsInv, ConsumerInv, Putting, Waiting, Before
  <2> QED  BY <2>2, <2>3
<1>7. CASE ListenPut /\ RecvQue!PutAdvance("listen")
  <2> USE <1>7 DEF ListenPut, RecvQue!PutAdvance, RecvQue!getVars, flags, history
  <2>1. ASSUME ~appShutdown PROVE ProducerInv'
    BY <2>1, <1>t DEF ProducerInv, Putting
  <2>2. ASSUME ~appShutdown
        PROVE  /\ tail' = RecvQue!Wrap(tail) /\ RecvQue!Wrap(tail) # head
               /\ entry[tail] = received /\ handled < received
               /\ \A i \in RecvQue!Slots : Waiting(i)' => Waiting(i) \/ i = tail
               /\ \A i \in RecvQue!Slots : Waiting(i)' => ~Before(tail, i)
    BY <2>2, <1>t, TailUp DEF ProducerInv, Putting, Waiting, Before
  <2>3. \A i, j \in RecvQue!Slots : Before(i, j)' <=> Before(i, j)
    BY DEF Before
  <2>4. ASSUME ~appShutdown
        PROVE  \A i \in RecvQue!Slots : Waiting(i) => entry[i] \in 1 .. received - 1 /\ handled < entry[i]
    BY <2>4, <1>t DEF ContentsInv, Putting
  <2>5. ASSUME ~appShutdown PROVE ContentsInv'
    <3>1. ~Putting'
      BY <1>t DEF Putting
    <3>2. UNCHANGED <<entry, received, handled>>
      OBVIOUS
    <3>3. received \in Nat /\ handled \in 0 .. received
      BY <2>5, <1>t DEF ContentsInv
    <3>4. ASSUME NEW i \in RecvQue!Slots, Waiting(i)'
          PROVE  entry[i] \in 1 .. received /\ handled < entry[i]
      BY <2>2, <2>4, <2>5, <3>3, <3>4
    <3>5. ASSUME NEW i \in RecvQue!Slots, NEW j \in RecvQue!Slots,
                 Waiting(i)', Waiting(j)', Before(i, j)
          PROVE  entry[i] < entry[j]
      <4>1. i # tail
        BY <2>2, <2>5, <3>5
      <4>2. CASE j = tail
        BY <2>2, <2>4, <2>5, <3>3, <3>5, <4>1, <4>2
      <4>3. CASE Waiting(i) /\ Waiting(j)
        BY <2>5, <3>5, <4>3 DEF ContentsInv
      <4> QED  BY <2>2, <2>5, <3>5, <4>1, <4>2, <4>3
    <3> HIDE <1>7 DEF ListenPut
    <3> QED  BY <2>3, <3>1, <3>2, <3>3, <3>4, <3>5 DEF ContentsInv
  <2>6. ASSUME ~appShutdown PROVE ConsumerInv'
    BY <2>2, <2>6, <1>t DEF ConsumerInv, Putting, Waiting
  <2> QED  BY <2>1, <2>5, <2>6
<1>8. CASE ListenPutReturns
  BY <1>8, <1>t
  DEF ListenPutReturns, RecvQue!PutReturns, RecvQue!getVars, flags, history,
      ProducerInv, ContentsInv, ConsumerInv, Putting, Waiting, Before
<1>9. CASE LoopGet /\ (RecvQue!GetPoll \/ RecvQue!GetRead)
  BY <1>9
  DEF LoopGet, RecvQue!GetPoll, RecvQue!GetRead, RecvQue!putVars, flags, history,
      ProducerInv, ContentsInv, ConsumerInv, Putting, Waiting, Before
<1>10. CASE LoopGet /\ RecvQue!GetAdvance
  <2> USE <1>10 DEF LoopGet, RecvQue!GetAdvance, RecvQue!putVars, flags, history
  <2>1. ASSUME ~appShutdown
        PROVE  /\ head # tail /\ getData = entry[head] /\ Waiting(head)
               /\ RecvQue!Wrap(tail) # head'
               /\ \A i \in RecvQue!Slots : Waiting(i)' => Waiting(i) /\ Before(head, i)
               /\ \A i, j \in RecvQue!Slots :
                    Waiting(i)' /\ Waiting(j)' /\ Before(i, j)' => Before(i, j)
    BY <2>1, <1>t, HeadUp DEF ConsumerInv, Waiting, Before
  <2>2. ASSUME ~appShutdown PROVE ProducerInv'
    BY <2>1, <2>2, <1>t DEF ProducerInv, Putting
  <2>3. ASSUME ~appShutdown PROVE ContentsInv' /\ ConsumerInv'
    BY <2>1, <2>3, <1>t DEF ContentsInv, ConsumerInv, Putting
  <2> QED  BY <2>2, <2>3
<1>11. CASE LoopHandle
  <2> USE <1>11 DEF LoopHandle, RecvQue!GetReturns, RecvQue!putVars, flags
  <2>1. ASSUME ~appShutdown PROVE ProducerInv'
    BY <2>1, <1>t DEF ProducerInv, ConsumerInv, Putting
  <2>2. ASSUME ~appShutdown PROVE ContentsInv' /\ ConsumerInv'
    BY <2>2, <1>t DEF ContentsInv, ConsumerInv, Putting, Waiting, Before
  <2> QED  BY <2>1, <2>2
<1>12. CASE \/ StartListen \/ StartSend \/ StartSendFails \/ UndoListen \/ Broadcast \/ Submitted
            \/ Submit \/ StopTwice \/ Stop \/ PutNullSend \/ FreeSendQue
            \/ JoinListen \/ JoinSend \/ JoinLoop
  BY <1>1, <1>12
  DEF recvState, StartListen, StartSend, StartSendFails, UndoListen, Broadcast, Submitted, Submit,
      UdpSend, StopTwice, Stop, PutNullSend, FreeSendQue, JoinListen, JoinSend, JoinLoop,
      flags, history
<1>13. CASE ListenCheck \/ ListenTimeout \/ SendSteps \/ UNCHANGED vars
  BY <1>1, <1>13
  DEF recvState, ListenCheck, ListenTimeout, SendSteps, SendGet, SendCheck, SendTo, vars,
      flags, history
<1> QED
  BY <1>2, <1>3, <1>4, <1>5, <1>6, <1>7, <1>8, <1>9, <1>10, <1>11, <1>12, <1>13
  DEF Next, MainSteps, ListenSteps, LoopSteps, ListenPut, LoopGet, RecvQue!GetSteps

-----------------------------------------------------------------------------
(* The send side.                                                           *)
LEMMA SendInit == Init => SendInv
BY DEF Init, SendQue!Init, SendInv, OutInv, FifoInv

sendState == <<fifo, out, sendAt, sockShutdown, submitted, sent>>

LEMMA SendNext ==
  ASSUME TypeOK, ControlInv, SendInv, [Next]_vars
  PROVE  SendInv'
<1>t. /\ fifo \in Seq(1 .. MaxSend \cup {NULL}) /\ out \in Seq(1 .. MaxSend \cup {NULL})
      /\ submitted \in 0 .. MaxSend /\ MaxSend \in Nat /\ sent \in 0 .. submitted
  BY BoundsAssumption DEF TypeOK, SendTypes, Counters, SendInv, OutInv
<1> USE DEF SendInv
<1>1. CASE UNCHANGED sendState
  BY <1>1 DEF sendState, OutInv, FifoInv
<1>2. CASE Broadcast \/ Submit
  <2>1. UdpSend
    BY <1>2 DEF Broadcast, Submit
  <2>2. UNCHANGED <<out, sendAt, sockShutdown, sent>> /\ submitted' = submitted + 1
    BY <2>1 DEF UdpSend, SendQue!Accept, SendQue!Refuse, flags
  <2>3. OutInv'
    BY <1>t, <2>2 DEF OutInv
  <2>4. ASSUME ~sockShutdown, SendQue!Accept("main", submitted + 1)
        PROVE  FifoInv'
    <3>1. fifo' = Append(fifo, submitted + 1)
      BY <2>4 DEF SendQue!Accept
    <3>2. /\ Len(fifo') = Len(fifo) + 1 /\ Len(fifo) \in Nat
          /\ fifo'[Len(fifo) + 1] = submitted + 1
          /\ \A i \in 1 .. Len(fifo) : fifo'[i] = fifo[i]
      BY <3>1, <1>t
    <3>3. ASSUME NEW i \in 1 .. Len(fifo)
          PROVE  /\ fifo'[i] \in 1 .. submitted' /\ sent < fifo'[i]
                 /\ sendAt \in {"check", "sendto"} => Head(out) < fifo'[i]
                 /\ \A j \in 1 .. Len(fifo) + 1 : i < j => fifo'[i] < fifo'[j]
      <4>1. fifo'[i] \in 1 .. submitted
        BY <2>4, <3>2, <3>3 DEF FifoInv
      <4> QED  BY <1>t, <2>2, <2>4, <3>2, <4>1 DEF FifoInv
    <3>4. sendAt \in {"check", "sendto"} => Head(out) < submitted + 1
      BY <1>t, <2>4 DEF OutInv
    <3> QED  BY <1>t, <2>2, <3>2, <3>3, <3>4 DEF FifoInv
  <2>5. ASSUME ~sockShutdown, SendQue!Refuse("main")
        PROVE  FifoInv'
    BY <1>t, <2>2, <2>5 DEF SendQue!Refuse, FifoInv
  <2> QED  BY <2>1, <2>2, <2>3, <2>4, <2>5 DEF UdpSend
<1>3. CASE StartSend \/ StartSendFails \/ Stop
  BY <1>3, <1>t
  DEF StartSend, StartSendFails, Stop, OutInv, FifoInv, ControlInv, sendVars, history
<1>4. CASE PutNullSend
  BY <1>4
  DEF PutNullSend, SendQue!Accept, SendQue!Refuse, OutInv, ControlInv, flags, history
<1>5. CASE Submitted \/ FreeSendQue
  BY <1>1, <1>5 DEF Submitted, FreeSendQue, SendQue!PutReturns, sendState, flags, history
<1>6. CASE SendGet
  <2>1. /\ fifo # <<>> /\ out' = <<Head(fifo)>> /\ fifo' = Tail(fifo)
        /\ sendAt' = "check" /\ UNCHANGED <<sockShutdown, submitted, sent>>
    BY <1>6 DEF SendGet, SendQue!Take, flags, history
  <2>2. /\ Head(fifo) = fifo[1] /\ Len(fifo) \in Nat \ {0} /\ Len(Tail(fifo)) = Len(fifo) - 1
        /\ \A i \in 1 .. Len(fifo) - 1 : Tail(fifo)[i] = fifo[i + 1]
        /\ Head(out') = Head(fifo) /\ out' # <<>>
    BY <1>t, <2>1
  <2>3. ASSUME ~sockShutdown PROVE FifoInv'
    BY <1>t, <2>1, <2>2, <2>3 DEF FifoInv
  <2>4. OutInv'
    BY <1>t, <2>1, <2>2 DEF OutInv, FifoInv
  <2> QED  BY <2>1, <2>3, <2>4
<1>7. CASE SendCheck
  BY <1>7 DEF SendCheck, OutInv, FifoInv, sendVars, flags, history
<1>8. CASE SendTo
  <2>1. /\ sendAt = "sendto" /\ sent' = Head(out) /\ out' = <<>> /\ sendAt' = "get"
        /\ UNCHANGED <<fifo, sockShutdown, submitted>>
    BY <1>8 DEF SendTo, SendQue!GetReturns, flags
  <2>2. sent' \in 1 .. submitted /\ sent < sent'
    <3>1. Head(out) \in 1 .. submitted /\ sent < Head(out)
      BY <2>1, Zenon DEF OutInv
    <3> QED  BY <2>1, <3>1, Zenon
  <2>3. OutInv'
    BY <1>t, <2>1, <2>2 DEF OutInv
  <2>4. ASSUME ~sockShutdown PROVE FifoInv'
    BY <2>1, <2>4 DEF FifoInv
  <2> QED  BY <2>1, <2>3, <2>4
<1>9. CASE \/ StartListen \/ UndoListen \/ StartLoop \/ Quit \/ StopTwice \/ PutNullRecv
           \/ FreeRecvQue \/ JoinListen \/ JoinSend \/ JoinLoop
  BY <1>1, <1>9
  DEF sendState, StartListen, UndoListen, StartLoop, Quit, StopTwice, PutNullRecv, FreeRecvQue,
      JoinListen, JoinSend, JoinLoop, sendVars, flags, history
<1>10. CASE ListenSteps \/ LoopSteps \/ UNCHANGED vars
  BY <1>1, <1>10
  DEF sendState, ListenSteps, ListenCheck, ListenTimeout, ListenRecv, ListenPut, ListenPutReturns,
      LoopSteps, LoopGet, LoopCheck, LoopHandle, vars, sendVars, flags, history
<1> QED
  BY <1>2, <1>3, <1>4, <1>5, <1>6, <1>7, <1>8, <1>9, <1>10 DEF Next, MainSteps, SendSteps

-----------------------------------------------------------------------------
LEMMA InvInit == Init => IInv
BY TypeInit, ControlInit, RecvInit, SendInit DEF IInv

LEMMA InvNext == IInv /\ [Next]_vars => IInv'
<1> SUFFICES ASSUME IInv, [Next]_vars
             PROVE  IInv'
  OBVIOUS
<1>1. HandledInv
  BY DEF HandledInv, IInv, RecvInv
<1> QED  BY <1>1, TypeNext, ControlNext, LateNext, RecvNext, SendNext DEF IInv

LEMMA Invariance == Spec => []IInv
<1>1. QED  BY InvInit, InvNext, PTL DEF Spec

(* Of the two queues each thread makes only the calls that msg_queue.h      *)
(* offers, so what holds of any message queue holds of these two.           *)
THEOREM QueuesUsedAsQueues == Spec => RecvQue!Spec /\ SendQue!Spec
<1>1. Init => RecvQue!Init /\ SendQue!Init
  BY DEF Init
<1>2. IInv /\ [Next]_vars => [RecvQue!Next]_(RecvQue!vars) /\ [SendQue!Next]_(SendQue!vars)
  BY RecvStep, SendStep, BoundsAssumption DEF IInv, TypeOK, Counters
<1> QED  BY <1>1, <1>2, Invariance, PTL DEF Spec, RecvQue!Spec, SendQue!Spec

(* The pointer that process_message_loop or udp_send_routine dereferences   *)
(* is never the NULL of udp_stop, however its put is interleaved with that  *)
(* of the listen thread.                                                    *)
THEOREM NoNull == Spec => []NoNullPacket
<1>1. IInv => NoNullPacket
  <2>1. IInv => (sendAt = "sendto" => Head(out) \in 1 .. submitted /\ submitted \in 0 .. MaxSend)
    BY Zenon DEF IInv, TypeOK, Counters, SendInv, OutInv
  <2>2. \A x : x \in 1 .. submitted /\ submitted \in 0 .. MaxSend => x \in 1 .. MaxSend
    BY BoundsAssumption
  <2> QED  BY <2>1, <2>2 DEF IInv, RecvInv, NoNullPacket
<1> QED  BY <1>1, Invariance, PTL

(* udp_stop and main free the socket and the pool after the threads that    *)
(* use them, which take at most one more datagram.                          *)
THEOREM OrderedStop == Spec => []StopIsOrdered
<1>1. IInv => StopIsOrdered
  BY DEF IInv, TypeOK, Places, MainStates, ControlInv, LateInv, StopIsOrdered,
         JoinedBeforeFree, AtMostOneLatePacket
<1> QED  BY <1>1, Invariance, PTL

(* Datagrams are handled and packets are sent in order, none twice, during  *)
(* the whole run and its shutdown.                                          *)
THEOREM InOrder == Spec => OrderKept
<1> DEFINE Grow == /\ handled' # handled => handled' > handled
                   /\ sent' # sent => sent' > sent
<1>1. ASSUME IInv, [Next]_vars PROVE Grow
  <2>t. handled \in Nat /\ sent \in Nat /\ MaxRecv \in Nat /\ MaxSend \in Nat /\ submitted \in Nat
    BY <1>1, BoundsAssumption DEF IInv, TypeOK, Counters, SendInv, OutInv
  <2>1. CASE SendTo
    <3>1. sendAt = "sendto" /\ sent' = Head(out) /\ UNCHANGED handled
      BY <2>1 DEF SendTo
    <3>2. sent < Head(out)
      BY <1>1, <3>1, Zenon DEF IInv, SendInv, OutInv
    <3>3. sent < sent'
      BY <3>1, <3>2, Zenon
    <3>4. sent' \in Nat
      BY <1>1, <3>1 DEF IInv, SendInv, OutInv
    <3> QED  BY <2>t, <3>1, <3>3, <3>4
  <2>2. CASE LoopHandle
    BY <1>1, <2>2, <2>t DEF LoopHandle, IInv, RecvInv
  <2>3. CASE UNCHANGED <<handled, sent>>
    BY <2>3
  <2>4. CASE MainSteps \/ Submit \/ Quit
    BY <2>3, <2>4
    DEF MainSteps, StartListen, StartSend, StartSendFails, UndoListen, Broadcast, StartLoop,
        Submitted, Submit, Quit, UdpSend, StopTwice, Stop, PutNullRecv, FreeRecvQue, PutNullSend,
        FreeSendQue, JoinListen, JoinSend, JoinLoop, history
  <2>5. CASE ListenSteps \/ SendGet \/ SendCheck \/ LoopGet \/ LoopCheck \/ UNCHANGED vars
    BY <2>3, <2>5
    DEF ListenSteps, ListenCheck, ListenTimeout, ListenRecv, ListenPut, ListenPutReturns,
        SendGet, SendCheck, LoopGet, LoopCheck, history, vars
  <2> QED  BY <1>1, <2>1, <2>2, <2>4, <2>5 DEF Next, SendSteps, LoopSteps
<1>2. IInv /\ [Next]_vars => [Grow]_<<handled, sent>>
  BY <1>1
<1> QED  BY <1>2, Invariance, PTL DEF Spec, OrderKept

-----------------------------------------------------------------------------
(***************************************************************************)
(* The pool, for every size of a chunk, every width of size_t, whatever is *)
(* asked for and whatever callers write into their blocks.                 *)
(***************************************************************************)

PoolTypeOK ==
  /\ chunk \in Nat
  /\ misread \in {"none", "less", "more"}
  /\ free \in 0 .. Modulus - 1 /\ bound \in 0 .. Modulus - 1
  /\ \A b \in blocks : b.chunk \in Nat /\ b.at \in Nat /\ b.size \in Nat

(* Blocks were cut from a chunk that was made, one below the other.         *)
PlacesInv ==
  /\ chunk = 0 => free = 0 /\ bound = 0
  /\ free <= ChunkSize
  /\ \A b \in blocks :
       /\ b.chunk \in 1 .. chunk
       /\ b.size >= 1 /\ b.at + b.size <= ChunkSize
       /\ b.chunk = chunk => free <= b.at
  /\ \A b, c \in blocks :
       b # c /\ b.chunk = c.chunk => b.at + b.size <= c.at \/ c.at + c.size <= b.at

(* What is free, what was given back in the middle and what is held never   *)
(* come to more than the chunk: for this a size must not be too large.      *)
RoomInv ==
  chunk > 0 /\ outcome # "destroyed" =>
    /\ free + bound + Cardinality(HeldWords) <= ChunkSize
    /\ misread = "none" => free + bound + Cardinality(HeldWords) = ChunkSize
    /\ misread = "none" /\ Current = {} => free = ChunkSize /\ bound = 0

PoolInv == PoolTypeOK /\ (misread # "more" => PlacesInv /\ RoomInv)

-----------------------------------------------------------------------------
(* Arithmetic of size_t that does not wrap round, and that may.             *)
LEMMA NoWrap ==
  ASSUME NEW n \in Nat
  PROVE  /\ n < Modulus => n % Modulus = n
         /\ n % Modulus \in 0 .. Modulus - 1
<1>1. Modulus \in Nat \ {0}
  BY ChunkAssumption
<1>2. n % Modulus \in 0 .. Modulus - 1
  BY <1>1
<1>3. n < Modulus => n % Modulus = n
  BY <1>1
<1> QED  BY <1>2, <1>3

LEMMA Sizes ==
  /\ \A n \in Requests : SizeWithHeader(n) \in Nat \ {0}
  /\ \A word \in FirstWords : SizeRead(word) \in Nat \ {0}
BY ChunkAssumption, RequestAssumption, WordAssumption DEF SizeWithHeader, SizeRead, Quantum, Header

(* The words of a block are as many as its size, and a word more or less is *)
(* counted once.                                                            *)
LEMMA AddWords ==
  ASSUME NEW S, IsFiniteSet(S), NEW b, b.at \in Nat, b.size \in Nat, S \cap Words(b) = {}
  PROVE  IsFiniteSet(S \cup Words(b)) /\ Cardinality(S \cup Words(b)) = Cardinality(S) + b.size
<1>1. IsFiniteSet(Words(b)) /\ Cardinality(Words(b)) = b.size
  <2> DEFINE lo == b.at
             hi == b.at + b.size - 1
  <2>1. lo \in Int /\ hi \in Int /\ (IF lo > hi THEN 0 ELSE hi - lo + 1) = b.size
    OBVIOUS
  <2>2. Words(b) = lo .. hi
    BY DEF Words
  <2> HIDE DEF lo, hi
  <2> QED  BY <2>1, <2>2, FS_Interval
<1>2. /\ IsFiniteSet(S \cup Words(b))
      /\ Cardinality(S \cup Words(b)) = Cardinality(S) + Cardinality(Words(b)) - Cardinality(S \cap Words(b))
  BY <1>1, FS_Union
<1>3. Cardinality(S \cap Words(b)) = 0
  BY FS_EmptySet
<1>4. Cardinality(S) \in Nat
  BY FS_CardinalityType
<1> QED  BY <1>1, <1>2, <1>3, <1>4

LEMMA TakeWords ==
  ASSUME NEW S, IsFiniteSet(S), NEW b, b.at \in Nat, b.size \in Nat, Words(b) \subseteq S
  PROVE  IsFiniteSet(S \ Words(b)) /\ Cardinality(S \ Words(b)) = Cardinality(S) - b.size
<1> DEFINE T == S \ Words(b)
<1>1. IsFiniteSet(T)
  BY FS_Subset
<1>2. T \cap Words(b) = {} /\ T \cup Words(b) = S
  OBVIOUS
<1> HIDE DEF T
<1>3. Cardinality(S) = Cardinality(T) + b.size
  BY <1>1, <1>2, AddWords
<1>4. Cardinality(T) \in Nat
  BY <1>1, FS_CardinalityType
<1> QED  BY <1>1, <1>3, <1>4 DEF T

-----------------------------------------------------------------------------
LEMMA PoolTypeNext ==
  ASSUME PoolTypeOK, [PoolNext]_poolVars
  PROVE  PoolTypeOK'
<1> USE DEF PoolTypeOK
<1>1. CASE \/ \E n \in Requests : AllocTooMuch(n) \/ AllocNoMemory(n) \/ AllocNullChunk(n)
           \/ UNCHANGED poolVars
  BY <1>1 DEF AllocTooMuch, AllocNoMemory, AllocNullChunk, poolVars
<1>2. ASSUME NEW n \in Requests, AllocOld(n) PROVE PoolTypeOK'
  <2>1. SizeWithHeader(n) \in Nat \ {0}
    BY Sizes
  <2>2. SizeWithHeader(n) <= free
    BY <1>2, <2>1 DEF AllocOld, NeedsChunk
  <2>3. free - SizeWithHeader(n) \in 0 .. Modulus - 1 /\ free - SizeWithHeader(n) \in Nat
    BY <2>1, <2>2, ChunkAssumption
  <2> HIDE DEF PoolTypeOK
  <2> QED  BY <1>2, <2>1, <2>3 DEF AllocOld, Cut, PoolTypeOK
<1>3. ASSUME NEW n \in Requests, AllocNew(n) PROVE PoolTypeOK'
  <2>1. SizeWithHeader(n) \in Nat \ {0}
    BY Sizes
  <2>2. SizeWithHeader(n) <= ChunkSize
    BY <1>3 DEF AllocNew
  <2>3. ChunkSize - SizeWithHeader(n) \in 0 .. Modulus - 1 /\ ChunkSize - SizeWithHeader(n) \in Nat
        /\ 0 \in 0 .. Modulus - 1
    BY <2>1, <2>2, ChunkAssumption
  <2> QED  BY <1>3, <2>1, <2>3 DEF AllocNew, Cut
<1>4. CASE Destroy
  BY <1>4 DEF Destroy
<1>5. ASSUME NEW b \in blocks, FreeUnknown(b) PROVE PoolTypeOK'
  BY <1>5 DEF FreeUnknown
<1>6. ASSUME NEW b \in blocks, NEW word \in FirstWords, Free(b, word) PROVE PoolTypeOK'
  <2>1. SizeRead(word) \in Nat
    BY Sizes
  <2>2. ChunkSize \in 0 .. Modulus - 1 /\ 0 \in 0 .. Modulus - 1
    BY ChunkAssumption
  <2>3. /\ (free + SizeRead(word)) % Modulus \in 0 .. Modulus - 1
        /\ (bound + SizeRead(word)) % Modulus \in 0 .. Modulus - 1
    BY <2>1, NoWrap
  <2>4. free' \in 0 .. Modulus - 1 /\ bound' \in 0 .. Modulus - 1
    BY <1>6, <2>2, <2>3, Zenon DEF Free, ReclaimChunk, GiveBack
  <2>5. misread' \in {"none", "less", "more"}
    BY <1>6 DEF Free, Worst
  <2> QED  BY <1>6, <2>4, <2>5 DEF Free
<1> QED  BY <1>1, <1>2, <1>3, <1>4, <1>5, <1>6 DEF PoolNext

-----------------------------------------------------------------------------
(* What PlacesInv says of words.                                            *)
LEMMA HeldLemma ==
  ASSUME PoolTypeOK, PlacesInv
  PROVE  /\ IsFiniteSet(HeldWords) /\ Cardinality(HeldWords) \in Nat
         /\ HeldWords \subseteq free .. ChunkSize - 1
         /\ \A b, c \in blocks : b # c /\ b.chunk = c.chunk => Words(b) \cap Words(c) = {}
         /\ \A b \in blocks : b.at \in Words(b) /\ Words(b) \subseteq 0 .. ChunkSize - 1
<1>1. \A b \in blocks : b.at \in Nat /\ b.size \in Nat \ {0} /\ b.at + b.size <= ChunkSize
  BY DEF PoolTypeOK, PlacesInv
<1>2. HeldWords \subseteq free .. ChunkSize - 1
  BY <1>1, ChunkAssumption DEF HeldWords, Current, Words, PlacesInv, PoolTypeOK
<1>3. IsFiniteSet(free .. ChunkSize - 1)
  <2>1. free \in Int /\ ChunkSize - 1 \in Int
    BY ChunkAssumption DEF PoolTypeOK
  <2> QED  BY <2>1, FS_Interval
<1>4. IsFiniteSet(HeldWords) /\ Cardinality(HeldWords) \in Nat
  BY <1>2, <1>3, FS_Subset, FS_CardinalityType
<1>5. ASSUME NEW b \in blocks, NEW c \in blocks, b # c, b.chunk = c.chunk
      PROVE  Words(b) \cap Words(c) = {}
  <2>1. b.at + b.size <= c.at \/ c.at + c.size <= b.at
    BY <1>5 DEF PlacesInv
  <2> QED  BY <1>1, <2>1 DEF Words
<1>6. \A b \in blocks : b.at \in Words(b) /\ Words(b) \subseteq 0 .. ChunkSize - 1
  BY <1>1, ChunkAssumption DEF Words
<1> QED  BY <1>2, <1>4, <1>5, <1>6

(* One held block less, of the current chunk.                               *)
LEMMA Held ==
  ASSUME PoolTypeOK, PlacesInv, NEW b \in blocks, b.chunk = chunk
  PROVE  /\ b.size \in Nat \ {0}
         /\ Words(b) \subseteq HeldWords
         /\ UNION {Words(c) : c \in Current \ {b}} = HeldWords \ Words(b)
         /\ Cardinality(HeldWords \ Words(b)) = Cardinality(HeldWords) - b.size
         /\ Cardinality(HeldWords \ Words(b)) \in Nat
         /\ Cardinality(HeldWords) = b.size => Current = {b}
<1>1. b \in Current /\ b.at \in Nat /\ b.size \in Nat \ {0} /\ Words(b) \subseteq HeldWords
  BY DEF Current, HeldWords, PoolTypeOK, PlacesInv
<1>2. \A c \in Current \ {b} : Words(b) \cap Words(c) = {} /\ c.at \in Words(c)
  BY HeldLemma DEF Current
<1>3. UNION {Words(c) : c \in Current \ {b}} = HeldWords \ Words(b)
  BY <1>1, <1>2 DEF HeldWords
<1>4. IsFiniteSet(HeldWords) /\ Cardinality(HeldWords) \in Nat
  BY HeldLemma
<1>5. /\ IsFiniteSet(HeldWords \ Words(b))
      /\ Cardinality(HeldWords \ Words(b)) = Cardinality(HeldWords) - b.size
  BY <1>1, <1>4, TakeWords
<1>6. Cardinality(HeldWords \ Words(b)) \in Nat
  BY <1>5, FS_CardinalityType
<1>7. ASSUME Cardinality(HeldWords) = b.size PROVE Current = {b}
  <2>1. HeldWords \ Words(b) = {}
    BY <1>1, <1>5, <1>7, FS_EmptySet
  <2> QED  BY <1>1, <1>2, <1>3, <2>1
<1> QED  BY <1>1, <1>3, <1>5, <1>6, <1>7

LEMMA PoolInvInit == PoolInit => PoolInv
<1> SUFFICES ASSUME PoolInit PROVE PoolInv
  OBVIOUS
<1>1. PoolTypeOK /\ PlacesInv
  BY ChunkAssumption DEF PoolInit, PoolTypeOK, PlacesInv
<1>2. RoomInv
  BY DEF PoolInit, RoomInv
<1> QED  BY <1>1, <1>2 DEF PoolInv

(* A block that is cut below the others.                                    *)
LEMMA OldNext ==
  ASSUME PoolTypeOK, PlacesInv, RoomInv, NEW n \in Requests, AllocOld(n)
  PROVE  PlacesInv' /\ RoomInv'
<1> DEFINE size == SizeWithHeader(n)
           new == [chunk |-> chunk, at |-> free - size, size |-> size]
<1>1. size \in Nat \ {0} /\ size <= free /\ chunk # 0 /\ outcome = "ok"
  BY Sizes DEF AllocOld, NeedsChunk, PoolTypeOK
<1>2. free' = free - size /\ blocks' = blocks \cup {new} /\ UNCHANGED <<chunk, bound, misread, outcome>>
  BY DEF AllocOld, Cut
<1>3. new.chunk = chunk /\ new.at = free - size /\ new.size = size
  OBVIOUS
<1> HIDE DEF size, new
<1>4. free \in Nat /\ free <= ChunkSize /\ chunk \in Nat /\ ChunkSize \in Nat
  BY ChunkAssumption DEF PoolTypeOK, PlacesInv
<1>5. PlacesInv'
  <2>1. /\ new.chunk \in 1 .. chunk
        /\ new.size >= 1 /\ new.at + new.size <= ChunkSize /\ free' <= new.at
    BY <1>1, <1>2, <1>3, <1>4
  <2>2. \A b \in blocks : b.chunk = chunk => new.at + new.size <= b.at
    BY <1>1, <1>3, <1>4 DEF PlacesInv
  <2>3. \A b \in blocks : b.chunk = chunk => free' <= b.at
    BY <1>1, <1>2, <1>4 DEF PlacesInv, PoolTypeOK
  <2> QED  BY <1>1, <1>2, <1>3, <1>4, <2>1, <2>2, <2>3 DEF PlacesInv
<1>6. HeldWords' = HeldWords \cup Words(new)
  BY <1>2, <1>3 DEF HeldWords, Current, Words
<1>7. Cardinality(HeldWords \cup Words(new)) = Cardinality(HeldWords) + size
  <2>1. HeldWords \cap Words(new) = {}
    BY <1>1, <1>3, <1>4, HeldLemma DEF Words
  <2>2. new.at \in Nat /\ new.size \in Nat
    BY <1>1, <1>3, <1>4
  <2> QED  BY <1>3, <2>1, <2>2, HeldLemma, AddWords
<1>8. Cardinality(HeldWords) \in Nat /\ bound \in Nat
  BY HeldLemma, ChunkAssumption DEF PoolTypeOK
<1>9. new \in Current'
  BY <1>2, <1>3 DEF Current
<1>10. chunk > 0
  BY <1>1, <1>4
<1>11. RoomInv'
  BY <1>1, <1>2, <1>4, <1>6, <1>7, <1>8, <1>9, <1>10 DEF RoomInv
<1> QED  BY <1>5, <1>11

LEMMA NewNext ==
  ASSUME PoolTypeOK, PlacesInv, NEW n \in Requests, AllocNew(n)
  PROVE  PlacesInv' /\ RoomInv'
<1> DEFINE size == SizeWithHeader(n)
           new == [chunk |-> chunk + 1, at |-> ChunkSize - size, size |-> size]
<1>1. size \in Nat \ {0} /\ size <= ChunkSize /\ outcome = "ok"
  BY Sizes DEF AllocNew
<1>2. /\ free' = ChunkSize - size /\ bound' = 0 /\ blocks' = blocks \cup {new}
      /\ chunk' = chunk + 1 /\ UNCHANGED <<misread, outcome>>
  BY DEF AllocNew, Cut
<1>3. new.chunk = chunk + 1 /\ new.at = ChunkSize - size /\ new.size = size
  OBVIOUS
<1> HIDE DEF size, new
<1>4. chunk \in Nat /\ ChunkSize \in Nat /\ \A b \in blocks : b.chunk \in 1 .. chunk
  BY ChunkAssumption DEF PoolTypeOK, PlacesInv
<1>5. PlacesInv'
  <2>1. /\ new.chunk \in 1 .. chunk + 1
        /\ new.size >= 1 /\ new.at + new.size <= ChunkSize /\ free' = new.at /\ new.at <= ChunkSize
    BY <1>1, <1>2, <1>3, <1>4
  <2>2. \A b \in blocks : b.chunk # chunk + 1 /\ b.chunk \in 1 .. chunk + 1
    BY <1>4
  <2>3. \A b \in blocks : b.size >= 1 /\ b.at + b.size <= ChunkSize
    BY DEF PlacesInv
  <2>4. \A b \in blocks' : /\ b.chunk \in 1 .. chunk' /\ b.size >= 1 /\ b.at + b.size <= ChunkSize
                           /\ b.chunk = chunk' => free' <= b.at
    BY <1>1, <1>2, <1>3, <1>4, <2>1, <2>2, <2>3
  <2>5. \A b, c \in blocks' :
          b # c /\ b.chunk = c.chunk => b.at + b.size <= c.at \/ c.at + c.size <= b.at
    BY <1>2, <1>3, <2>2 DEF PlacesInv
  <2>6. free' <= ChunkSize /\ chunk' # 0
    BY <1>1, <1>2, <1>4
  <2> QED  BY <2>4, <2>5, <2>6 DEF PlacesInv
<1>6. Current' = {new}
  BY <1>2, <1>3, <1>4 DEF Current
<1>7. HeldWords' = {} \cup Words(new)
  BY <1>6 DEF HeldWords, Words
<1>8. Cardinality({} \cup Words(new)) = size
  <2>1. IsFiniteSet({}) /\ Cardinality({}) = 0
    BY FS_EmptySet
  <2>2. new.at \in Nat /\ new.size \in Nat
    BY <1>1, <1>3, <1>4
  <2>3. Cardinality({} \cup Words(new)) = Cardinality({}) + new.size
    BY <2>1, <2>2, AddWords
  <2> QED  BY <1>1, <1>3, <2>1, <2>3
<1>9. RoomInv'
  BY <1>1, <1>2, <1>4, <1>6, <1>7, <1>8 DEF RoomInv
<1> QED  BY <1>5, <1>9

(* A block that is given back, with a size that is not too large.           *)
LEMMA FreeNext ==
  ASSUME PoolTypeOK, PlacesInv, RoomInv, NEW b \in blocks, NEW word \in FirstWords, Free(b, word),
         misread' # "more"
  PROVE  PlacesInv' /\ RoomInv'
<1> DEFINE size == SizeRead(word)
           held == Cardinality(HeldWords)
<1>1. /\ b.chunk = chunk /\ outcome = "ok" /\ blocks' = blocks \ {b}
      /\ UNCHANGED <<chunk, outcome>>
      /\ IF Reclaims(size) THEN ReclaimChunk ELSE GiveBack(b, size)
      /\ misread' = Worst(b, size)
  BY DEF Free, Found
<1>2. /\ size \in Nat \ {0} /\ ChunkSize \in Nat /\ Modulus \in Nat /\ ChunkSize < Modulus
      /\ free \in Nat /\ bound \in Nat /\ b.at \in Nat /\ chunk \in Nat /\ chunk > 0
  BY Sizes, ChunkAssumption DEF PoolTypeOK, PlacesInv
<1>3. /\ held \in Nat /\ b.size \in Nat \ {0}
      /\ held - b.size \in Nat
      /\ Cardinality(HeldWords \ Words(b)) = held - b.size
      /\ held = b.size => Current = {b}
      /\ UNION {Words(c) : c \in Current \ {b}} = HeldWords \ Words(b)
  <2>1. held \in Nat
    BY HeldLemma
  <2>2. /\ b.size \in Nat \ {0} /\ Cardinality(HeldWords \ Words(b)) \in Nat
        /\ Cardinality(HeldWords \ Words(b)) = held - b.size
        /\ held = b.size => Current = {b}
        /\ UNION {Words(c) : c \in Current \ {b}} = HeldWords \ Words(b)
    BY <1>1, Held
  <2> QED  BY <2>1, <2>2
<1> HIDE DEF size, held
<1>4. size <= b.size
  BY <1>1, <1>2, <1>3 DEF Worst
<1>m. misread' = "none" => misread = "none" /\ size = b.size
  BY <1>1, <1>2, <1>3, <1>4 DEF Worst
<1>5. /\ free + bound + held <= ChunkSize
      /\ misread = "none" => free + bound + held = ChunkSize
  BY <1>1, <1>2 DEF RoomInv, held
<1>6. /\ (free + bound + size) % Modulus = free + bound + size
      /\ (free + size) % Modulus = free + size /\ (bound + size) % Modulus = bound + size
  <2>1. /\ free + bound + size \in Nat /\ free + size \in Nat /\ bound + size \in Nat
        /\ free + bound + size < Modulus /\ free + size < Modulus /\ bound + size < Modulus
    BY <1>2, <1>3, <1>4, <1>5
  <2> QED  BY <2>1, NoWrap
<1>7. Current' = Current \ {b}
  BY <1>1 DEF Current
<1>8. HeldWords' = HeldWords \ Words(b)
  BY <1>3, <1>7 DEF HeldWords, Words
<1>9. Cardinality(HeldWords') = held - b.size
  BY <1>3, <1>8
<1>10. \A c \in blocks \ {b} : c.chunk = chunk => b.at + b.size <= c.at \/ c.at + c.size <= b.at
  BY <1>1 DEF PlacesInv
<1>11. \A c \in blocks : /\ c.at \in Nat /\ c.size \in Nat \ {0} /\ c.chunk \in 1 .. chunk
                        /\ c.at + c.size <= ChunkSize /\ (c.chunk = chunk => free <= c.at)
  BY DEF PoolTypeOK, PlacesInv
<1>12. CASE Reclaims(size)
  <2>1. free + bound + size >= ChunkSize
    BY <1>6, <1>12 DEF Reclaims
  <2>2. held = b.size
    BY <1>2, <1>3, <1>4, <1>5, <2>1
  <2>3. Current' = {}
    BY <1>3, <1>7, <2>2
  <2>4. free' = ChunkSize /\ bound' = 0
    BY <1>1, <1>12 DEF ReclaimChunk
  <2>5. \A c \in blocks' : c.chunk # chunk'
    BY <1>1, <2>3 DEF Current
  <2>6. PlacesInv'
    BY <1>1, <1>2, <1>11, <2>4, <2>5 DEF PlacesInv
  <2>7. Cardinality(HeldWords') = 0
    BY <1>2, <1>3, <1>9, <2>2
  <2>8. RoomInv'
    BY <1>2, <2>4, <2>7 DEF RoomInv
  <2> QED  BY <2>6, <2>8
<1>13. CASE ~Reclaims(size)
  <2>1. free + bound + size < ChunkSize
    BY <1>2, <1>6, <1>13 DEF Reclaims
  <2>2. \/ b.at = free /\ free' = free + size /\ bound' = bound
        \/ b.at # free /\ free' = free /\ bound' = bound + size
    BY <1>1, <1>6, <1>13 DEF GiveBack
  <2>3. free' + bound' = free + bound + size /\ free' <= ChunkSize
    BY <1>2, <2>1, <2>2
  <2>4. \A c \in blocks' : c.chunk = chunk => free' <= c.at
    <3> SUFFICES ASSUME NEW c \in blocks', c.chunk = chunk PROVE free' <= c.at
      OBVIOUS
    <3>1. c \in blocks \ {b} /\ free <= c.at
      BY <1>1, <1>11
    <3>2. CASE b.at = free
      BY <1>2, <1>3, <1>4, <1>10, <1>11, <2>2, <3>1, <3>2
    <3>3. CASE b.at # free
      BY <2>2, <3>1, <3>3
    <3> QED  BY <3>2, <3>3
  <2>5. \A c, d \in blocks' :
          c # d /\ c.chunk = d.chunk => c.at + c.size <= d.at \/ d.at + d.size <= c.at
    BY <1>1 DEF PlacesInv
  <2>6. PlacesInv'
    BY <1>1, <1>2, <1>11, <2>3, <2>4, <2>5 DEF PlacesInv
  <2>7. free' + bound' + Cardinality(HeldWords') = free + bound + size + (held - b.size)
    BY <1>9, <2>3
  <2>8. /\ free' + bound' + Cardinality(HeldWords') <= ChunkSize
        /\ misread' = "none" => free' + bound' + Cardinality(HeldWords') = ChunkSize
    BY <1>2, <1>3, <1>4, <1>5, <1>m, <2>7
  <2>9. ~(misread' = "none" /\ Current' = {})
    <3> SUFFICES ASSUME misread' = "none", Current' = {} PROVE FALSE
      OBVIOUS
    <3>1. HeldWords' = {}
      BY DEF HeldWords
    <3>2. Cardinality(HeldWords') = 0
      BY <3>1, FS_EmptySet
    <3> QED  BY <1>2, <1>3, <1>5, <1>9, <1>m, <2>1, <3>2
  <2>10. RoomInv'
    BY <2>8, <2>9 DEF RoomInv
  <2> QED  BY <2>6, <2>10
<1> QED  BY <1>12, <1>13

LEMMA PoolInvNext == PoolInv /\ [PoolNext]_poolVars => PoolInv'
<1> SUFFICES ASSUME PoolInv, [PoolNext]_poolVars, misread' # "more"
             PROVE  PlacesInv' /\ RoomInv'
  BY PoolTypeNext DEF PoolInv
<1>0. misread # "more" /\ PoolTypeOK /\ PlacesInv /\ RoomInv
  <2>1. ASSUME misread = "more" PROVE misread' = "more"
    BY <2>1 DEF PoolNext, AllocTooMuch, AllocNoMemory, AllocNullChunk, AllocOld, AllocNew, Destroy,
                FreeUnknown, Free, Worst, poolVars
  <2> QED  BY <2>1 DEF PoolInv
<1>1. CASE \/ \E n \in Requests : AllocTooMuch(n) \/ AllocNoMemory(n) \/ AllocNullChunk(n)
           \/ UNCHANGED poolVars
  <2>1. UNCHANGED <<chunk, free, bound, blocks, misread>>
        /\ (outcome' # "destroyed" => outcome # "destroyed")
    BY <1>1 DEF AllocTooMuch, AllocNoMemory, AllocNullChunk, poolVars
  <2> QED  BY <1>0, <2>1 DEF PlacesInv, RoomInv, HeldWords, Current, Words
<1>2. ASSUME NEW n \in Requests, AllocOld(n) PROVE PlacesInv' /\ RoomInv'
  BY <1>0, <1>2, OldNext
<1>3. ASSUME NEW n \in Requests, AllocNew(n) PROVE PlacesInv' /\ RoomInv'
  BY <1>0, <1>3, NewNext
<1>4. CASE Destroy
  BY <1>0, <1>4 DEF Destroy, PlacesInv, RoomInv
<1>5. ASSUME NEW b \in blocks, FreeUnknown(b) PROVE PlacesInv' /\ RoomInv'
  <2>1. /\ blocks' = blocks \ {b} /\ UNCHANGED <<chunk, free, bound, misread>>
        /\ outcome = "ok" /\ ~Found(b)
    BY <1>5 DEF FreeUnknown
  <2>2. b.chunk # chunk
    BY <1>0, <2>1, ChunkAssumption DEF Found, PlacesInv, PoolTypeOK
  <2>3. Current' = Current
    BY <2>1, <2>2 DEF Current
  <2>4. HeldWords' = HeldWords
    BY <2>3 DEF HeldWords, Words
  <2> QED  BY <1>0, <2>1, <2>3, <2>4 DEF PlacesInv, RoomInv
<1>6. ASSUME NEW b \in blocks, NEW word \in FirstWords, Free(b, word) PROVE PlacesInv' /\ RoomInv'
  BY <1>0, <1>6, FreeNext
<1> QED  BY <1>1, <1>2, <1>3, <1>4, <1>5, <1>6 DEF PoolNext

LEMMA PoolInvariance == PoolSpec => []PoolInv
<1>1. QED  BY PoolInvInit, PoolInvNext, PTL DEF PoolSpec

-----------------------------------------------------------------------------
(* mem_pool_alloc never gives out a word twice, whatever the callers free   *)
(* in whatever order, as long as no size was read that is too large.        *)
THEOREM BlocksAreDisjoint == PoolSpec => []Disjoint
<1>1. PoolInv => Disjoint
  BY HeldLemma DEF PoolInv, Disjoint
<1> QED  BY <1>1, PoolInvariance, PTL

(* A chunk loses no room while the sizes are right, and is whole again when *)
(* its last block was freed.                                                *)
THEOREM RoomKept == PoolSpec => []RoomIsKept
<1>1. PoolInv => RoomIsKept
  BY DEF PoolInv, RoomInv, RoomIsKept, Accounting, EmptyIsReclaimed
<1> QED  BY <1>1, PoolInvariance, PTL

(* mem_pool_free leaves the mutex locked only for a block whose chunk was   *)
(* replaced.                                                                *)
THEOREM UnknownExplained == PoolSpec => []UnknownOnlyAfterReplacement
<1>1. PoolInit => UnknownOnlyAfterReplacement
  BY DEF PoolInit, UnknownOnlyAfterReplacement
<1>2. ASSUME PoolInv, UnknownOnlyAfterReplacement, [PoolNext]_poolVars PROVE UnknownOnlyAfterReplacement'
  <2>1. ASSUME NEW b \in blocks, FreeUnknown(b), misread # "more" PROVE chunk > 1
    BY <1>2, <2>1, ChunkAssumption DEF FreeUnknown, Found, PoolInv, PlacesInv, PoolTypeOK
  <2>2. ASSUME NEW b \in blocks, FreeUnknown(b) PROVE UnknownOnlyAfterReplacement'
    BY <2>1, <2>2 DEF FreeUnknown, UnknownOnlyAfterReplacement
  <2>3. CASE UNCHANGED poolVars
    BY <1>2, <2>3 DEF poolVars, UnknownOnlyAfterReplacement
  <2>4. ASSUME outcome' # "unknown_block" PROVE UnknownOnlyAfterReplacement'
    BY <2>4 DEF UnknownOnlyAfterReplacement
  <2> QED
    BY <1>2, <2>2, <2>3, <2>4
    DEF PoolNext, AllocTooMuch, AllocNoMemory, AllocNullChunk, AllocOld, AllocNew, Destroy, Free
<1>3. PoolInv /\ UnknownOnlyAfterReplacement /\ [PoolNext]_poolVars => UnknownOnlyAfterReplacement'
  BY <1>2
<1> QED  BY <1>1, <1>3, PoolInvariance, PTL DEF PoolSpec
=============================================================================
