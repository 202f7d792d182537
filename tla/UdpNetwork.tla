----------------------------- MODULE UdpNetwork -----------------------------
(***************************************************************************)
(* The threads of the ifc program and the two message queues between them: *)
(* src/ifc/lib/net/udp_socket.c, main of src/ifc/src/ifreechat.c and       *)
(* process_message_loop of src/ifc/src/handle_message.c.                   *)
(*                                                                         *)
(*   listen thread --recv_que--> message loop thread                       *)
(*   main thread (GTK) --send_que--> send thread                           *)
(*                                                                         *)
(* recv_que is the ring of MsgQueue, since main becomes its second         *)
(* producer when it destroys it; send_que has one producer for its whole   *)
(* life and is the LossyFifo that the ring was shown to implement.         *)
(* Datagrams and outgoing packets are numbered in the order in which they  *)
(* arrive and are submitted.                                               *)
(***************************************************************************)
EXTENDS Naturals, Sequences

CONSTANTS
  Size,       \* the que_size of create_udp_socket
  NULL, Junk, \* the NULL pointer; an uninitialised one
  MaxRecv,    \* bound: datagrams that arrive
  MaxSend     \* bound: packets that the GTK thread submits

ASSUME BoundsAssumption == MaxRecv \in Nat /\ MaxSend \in Nat \ {0}
ASSUME SizeAssumption == Size \in Nat \ {0}
ASSUME PointersAssumption == Junk \notin 1 .. MaxRecv \cup {NULL}

VARIABLES
  entry, head, tail, putAt, putData, putTail, getAt, getData,  \* recv_que
  fifo, ret, out,                                              \* send_que
  mainAt, listenAt, sendAt, loopAt,     \* where the four threads are
  appShutdown,                          \* ifreechat_t.shutdown
  sockShutdown,                         \* udp_socket_t.shutdown
  freed,                                \* the blocks main has given back
  received, submitted,                  \* datagrams received, packets submitted so far
  handled, sent,                        \* the last datagram handled, the last packet sent
  late                                  \* datagrams received after sockShutdown was set

recvVars == <<entry, head, tail, putAt, putData, putTail, getAt, getData>>
sendVars == <<fifo, ret, out>>
flags == <<appShutdown, sockShutdown, freed>>
history == <<received, submitted, handled, sent, late>>
vars == <<recvVars, sendVars, mainAt, listenAt, sendAt, loopAt, flags, history>>

RecvQue == INSTANCE MsgQueue WITH
  Data <- 1 .. MaxRecv \cup {NULL}, Producers <- {"listen", "main"}

SendQue == INSTANCE LossyFifo WITH
  Data <- 1 .. MaxSend \cup {NULL}, Capacity <- Size - 1, Producers <- {"main"}

Init ==
  /\ RecvQue!Init
  /\ SendQue!Init
  /\ mainAt = "start_listen"
  /\ listenAt = "none" /\ sendAt = "none" /\ loopAt = "none"
  /\ appShutdown = FALSE
  /\ sockShutdown = FALSE
  /\ freed = {}
  /\ received = 0 /\ submitted = 0 /\ handled = 0 /\ sent = 0 /\ late = 0

-----------------------------------------------------------------------------
(* main: udp_start, freechat_main, then the GTK main loop.                  *)

StartListen ==
  /\ mainAt = "start_listen"
  /\ mainAt' = "start_send"
  /\ listenAt' = "check"
  /\ UNCHANGED <<recvVars, sendVars, sendAt, loopAt, flags, history>>

StartSend ==
  /\ mainAt = "start_send"
  /\ mainAt' = "start_loop"
  /\ sendAt' = "get"
  /\ UNCHANGED <<recvVars, sendVars, listenAt, loopAt, flags, history>>

\* The second pthread_create fails: udp_start stops the listen thread and
\* reports the failure, which main does not look at.
StartSendFails ==
  /\ mainAt = "start_send"
  /\ mainAt' = "undo_listen"
  /\ sendAt' = "failed"
  /\ sockShutdown' = TRUE
  /\ UNCHANGED <<recvVars, sendVars, listenAt, loopAt, appShutdown, freed, history>>

UndoListen ==
  /\ mainAt = "undo_listen"
  /\ listenAt = "exited"
  /\ mainAt' = "start_loop"
  /\ UNCHANGED <<recvVars, sendVars, listenAt, sendAt, loopAt, flags, history>>

\* udp_send
UdpSend ==
  /\ submitted < MaxSend
  /\ SendQue!Accept("main", submitted + 1) \/ SendQue!Refuse("main")
  /\ submitted' = submitted + 1
  /\ UNCHANGED <<recvVars, mainAt, listenAt, sendAt, loopAt, flags, received, handled, sent, late>>

\* online_broadcast, whether or not udp_start failed.
Broadcast ==
  /\ mainAt = "start_loop"
  /\ submitted = 0
  /\ UdpSend

StartLoop ==
  /\ mainAt = "start_loop"
  /\ submitted = 1
  /\ ret["main"] = "none"
  /\ mainAt' = "gtk"
  /\ loopAt' = "get"
  /\ UNCHANGED <<recvVars, sendVars, listenAt, sendAt, flags, history>>

\* The callbacks of the windows.
Submit ==
  /\ mainAt = "gtk"
  /\ UdpSend

Submitted ==
  /\ mainAt \in {"start_loop", "gtk"}
  /\ SendQue!PutReturns("main")
  /\ UNCHANGED <<recvVars, mainAt, listenAt, sendAt, loopAt, flags, history>>

-----------------------------------------------------------------------------
(* main after gtk_main: shutdown = 1, stop_network, join, destroy.          *)

\* Mutant: the flag of the program is not set.
QuitWithoutFlag ==
  /\ mainAt = "gtk"
  /\ ret["main"] = "none"
  /\ mainAt' = "stop"
  /\ UNCHANGED <<recvVars, sendVars, listenAt, sendAt, loopAt, flags, history>>

Quit ==
  /\ mainAt = "gtk"
  /\ ret["main"] = "none"
  /\ mainAt' = "stop"
  /\ appShutdown' = TRUE
  /\ UNCHANGED <<recvVars, sendVars, listenAt, sendAt, loopAt, sockShutdown, freed, history>>

\* udp_stop does nothing for a socket that was shut down before.
StopTwice ==
  /\ mainAt = "stop"
  /\ sockShutdown
  /\ mainAt' = "join_loop"
  /\ UNCHANGED <<recvVars, sendVars, listenAt, sendAt, loopAt, flags, history>>

\* Mutant: the threads are joined without a NULL to wake them.
StopWithoutNull ==
  /\ mainAt = "stop"
  /\ ~sockShutdown
  /\ sockShutdown' = TRUE
  /\ mainAt' = "join_listen"
  /\ UNCHANGED <<recvVars, sendVars, listenAt, sendAt, loopAt, appShutdown, freed, history>>

Stop ==
  /\ mainAt = "stop"
  /\ ~sockShutdown
  /\ sockShutdown' = TRUE
  /\ mainAt' = "put_recv"
  /\ UNCHANGED <<recvVars, sendVars, listenAt, sendAt, loopAt, appShutdown, freed, history>>

\* destroy_msg_queue(recv_que): put NULL, then free the ring.
PutNullRecv ==
  /\ mainAt = "put_recv"
  /\ \/ RecvQue!PutCheck("main", NULL)
     \/ RecvQue!PutWrite("main")
     \/ RecvQue!PutAdvance("main")
  /\ UNCHANGED <<sendVars, mainAt, listenAt, sendAt, loopAt, flags, history>>

FreeRecvQue ==
  /\ mainAt = "put_recv"
  /\ RecvQue!PutReturns("main")
  /\ freed' = freed \cup {"recv_que"}
  /\ mainAt' = "put_send"
  /\ UNCHANGED <<sendVars, listenAt, sendAt, loopAt, appShutdown, sockShutdown, history>>

PutNullSend ==
  /\ mainAt = "put_send"
  /\ SendQue!Accept("main", NULL) \/ SendQue!Refuse("main")
  /\ UNCHANGED <<recvVars, mainAt, listenAt, sendAt, loopAt, flags, history>>

FreeSendQue ==
  /\ mainAt = "put_send"
  /\ SendQue!PutReturns("main")
  /\ freed' = freed \cup {"send_que"}
  /\ mainAt' = "join_listen"
  /\ UNCHANGED <<recvVars, listenAt, sendAt, loopAt, appShutdown, sockShutdown, history>>

JoinListen ==
  /\ mainAt = "join_listen"
  /\ listenAt = "exited"
  /\ mainAt' = "join_send"
  /\ UNCHANGED <<recvVars, sendVars, listenAt, sendAt, loopAt, flags, history>>

\* Mutant: the send thread is not joined.
JoinSendSkipped ==
  /\ mainAt = "join_send"
  /\ freed' = freed \cup {"usock"}
  /\ mainAt' = "join_loop"
  /\ UNCHANGED <<recvVars, sendVars, listenAt, sendAt, loopAt, appShutdown, sockShutdown, history>>

JoinSend ==
  /\ mainAt = "join_send"
  /\ sendAt = "exited"
  /\ freed' = freed \cup {"usock"}
  /\ mainAt' = "join_loop"
  /\ UNCHANGED <<recvVars, sendVars, listenAt, sendAt, loopAt, appShutdown, sockShutdown, history>>

JoinLoop ==
  /\ mainAt = "join_loop"
  /\ loopAt = "exited"
  /\ freed' = freed \cup {"pool"}
  /\ mainAt' = "done"
  /\ UNCHANGED <<recvVars, sendVars, listenAt, sendAt, loopAt, appShutdown, sockShutdown, history>>

MainSteps ==
  \/ StartListen \/ StartSend \/ StartSendFails \/ UndoListen \/ Broadcast
  \/ StartLoop \/ Submitted
  \/ StopTwice \/ Stop \/ PutNullRecv \/ FreeRecvQue \/ PutNullSend \/ FreeSendQue
  \/ JoinListen \/ JoinSend \/ JoinLoop

-----------------------------------------------------------------------------
(* udp_listen_routine: one datagram per epoll_wait, of at most 100 ms.      *)

ListenCheck ==
  /\ listenAt = "check"
  /\ listenAt' = IF sockShutdown THEN "exited" ELSE "wait"
  /\ UNCHANGED <<recvVars, sendVars, mainAt, sendAt, loopAt, flags, history>>

ListenTimeout ==
  /\ listenAt = "wait"
  /\ listenAt' = "check"
  /\ UNCHANGED <<recvVars, sendVars, mainAt, sendAt, loopAt, flags, history>>

ListenRecv ==
  /\ listenAt = "wait"
  /\ received < MaxRecv
  /\ RecvQue!PutCheck("listen", received + 1)
  /\ listenAt' = "put"
  /\ received' = received + 1
  /\ late' = IF sockShutdown THEN late + 1 ELSE late
  /\ UNCHANGED <<sendVars, mainAt, sendAt, loopAt, flags, submitted, handled, sent>>

ListenPut ==
  /\ listenAt = "put"
  /\ RecvQue!PutWrite("listen") \/ RecvQue!PutAdvance("listen")
  /\ UNCHANGED <<sendVars, mainAt, listenAt, sendAt, loopAt, flags, history>>

ListenPutReturns ==
  /\ listenAt = "put"
  /\ RecvQue!PutReturns("listen")
  /\ listenAt' = "check"
  /\ UNCHANGED <<sendVars, mainAt, sendAt, loopAt, flags, history>>

ListenSteps == ListenCheck \/ ListenTimeout \/ ListenRecv \/ ListenPut \/ ListenPutReturns

-----------------------------------------------------------------------------
(* udp_send_routine                                                         *)

SendGet ==
  /\ sendAt = "get"
  /\ SendQue!Take
  /\ sendAt' = "check"
  /\ UNCHANGED <<recvVars, mainAt, listenAt, loopAt, flags, history>>

SendCheck ==
  /\ sendAt = "check"
  /\ sendAt' = IF sockShutdown THEN "exited" ELSE "sendto"
  /\ UNCHANGED <<recvVars, sendVars, mainAt, listenAt, loopAt, flags, history>>

SendTo ==
  /\ sendAt = "sendto"
  /\ sent' = Head(out)
  /\ SendQue!GetReturns
  /\ sendAt' = "get"
  /\ UNCHANGED <<recvVars, mainAt, listenAt, loopAt, flags, received, submitted, handled, late>>

SendSteps == SendGet \/ SendCheck \/ SendTo

-----------------------------------------------------------------------------
(* process_message_loop                                                     *)

LoopGet ==
  /\ loopAt = "get"
  /\ RecvQue!GetSteps
  /\ UNCHANGED <<sendVars, mainAt, listenAt, sendAt, loopAt, flags, history>>

\* Mutant: the loop looks at the flag of the socket.
LoopCheckOfSocket ==
  /\ loopAt = "get"
  /\ getAt = "got"
  /\ loopAt' = IF sockShutdown THEN "exited" ELSE "handle"
  /\ UNCHANGED <<recvVars, sendVars, mainAt, listenAt, sendAt, flags, history>>

LoopCheck ==
  /\ loopAt = "get"
  /\ getAt = "got"
  /\ loopAt' = IF appShutdown THEN "exited" ELSE "handle"
  /\ UNCHANGED <<recvVars, sendVars, mainAt, listenAt, sendAt, flags, history>>

LoopHandle ==
  /\ loopAt = "handle"
  /\ handled' = getData
  /\ RecvQue!GetReturns
  /\ loopAt' = "get"
  /\ UNCHANGED <<sendVars, mainAt, listenAt, sendAt, flags, received, submitted, sent, late>>

LoopSteps == LoopGet \/ LoopCheck \/ LoopHandle

-----------------------------------------------------------------------------
Next == MainSteps \/ Submit \/ Quit \/ ListenSteps \/ SendSteps \/ LoopSteps

\* The operating system schedules every thread; the user may never quit and
\* nobody has to send.
Fairness ==
  WF_vars(MainSteps) /\ WF_vars(ListenSteps) /\ WF_vars(SendSteps) /\ WF_vars(LoopSteps)

Spec == Init /\ [][Next]_vars /\ Fairness

-----------------------------------------------------------------------------
\* The NULL with which udp_stop wakes the two consumers is never taken for a
\* packet, nor is an uninitialised entry: process_message_loop and
\* udp_send_routine dereference what msg_queue_get gave them without a test.
NoNullPacket ==
  /\ loopAt = "handle" => getData \in 1 .. MaxRecv
  /\ sendAt = "sendto" => Head(out) \in 1 .. MaxSend

\* Nothing is given back while a thread that uses it runs: the socket while
\* the two network threads do, the pool while any thread does.
JoinedBeforeFree ==
  /\ "usock" \in freed => listenAt = "exited" /\ sendAt = "exited"
  /\ "pool" \in freed => /\ listenAt = "exited"
                         /\ sendAt \in {"failed", "exited"}
                         /\ loopAt = "exited"

\* udp_stop frees the ring while the listen thread may still put into it:
\* that thread receives at most one more datagram before it sees the flag.
AtMostOneLatePacket == late <= 1

\* What udp_stop frees too early does not outlast the threads by more.
StopIsOrdered == JoinedBeforeFree /\ AtMostOneLatePacket

\* Datagrams are handled and packets are sent in order and at most once, in
\* spite of the two producers that recv_que has while udp_stop runs.
OrderKept ==
  [][ /\ handled' # handled => handled' > handled
      /\ sent' # sent => sent' > sent ]_<<handled, sent>>

\* A datagram that the queue accepted is handled, unless the user quits.
AcceptedIsHandled ==
  \A k \in 1 .. MaxRecv :
    (putAt["listen"] = "ok" /\ putData["listen"] = k) ~> (handled = k \/ appShutdown)

\* main waits for a message loop that waits for a datagram, and all who could
\* give it one have ended.
WaitsForEver ==
  /\ mainAt = "join_loop" /\ listenAt = "exited"
  /\ loopAt = "get" /\ getAt = "poll" /\ head = tail

\* Once the user quits, main joins every thread and returns.  It waits for ever
\* only if udp_start could not start the send thread, so that udp_stop takes the
\* socket for one that was stopped before and puts no NULL.
ShutdownCompletes == mainAt = "stop" ~> (mainAt = "done" \/ (sendAt = "failed" /\ WaitsForEver))
=============================================================================
