--------------------------- MODULE PresenceProofs ---------------------------
(***************************************************************************)
(* For every set of hosts of both programs, any number of restarts and of  *)
(* announcements: no host answers another one twice in a run, and on a     *)
(* reliable network a host is missed for the one reason only.              *)
(***************************************************************************)
EXTENDS Presence, TLAPS

\* What is under way was sent by a run that there has been.
Datagram ==
  {m \in [from : Hosts, run : Nat, nr : Nat, to : Hosts] : m.run \in 1 .. boot[m.from]}

TypeOK ==
  /\ network \in [faulty : BOOLEAN, boots : [Hosts -> Nat]]
  /\ state \in [Hosts -> {"down", "listening", "online"}]
  /\ boot \in [Hosts -> Nat]
  /\ announces \in [Hosts -> Nat]
  /\ learned \in [Hosts -> [Hosts -> Nat]]
  /\ replies \in [Hosts -> [Hosts -> Nat]]
  /\ net \subseteq Datagram

\* A host that runs was started, as often as it may be.
Booted ==
  \A h \in Hosts :
    /\ boot[h] <= network.boots[h]
    /\ state[h] # "down" => boot[h] >= 1

\* Nobody has heard of a run that is still to come.
LearnedOfPast == \A h, p \in Hosts : learned[h][p] <= boot[p]

\* A host that has answered another one has it in its user list, in which
\* nothing is deleted.
AnsweredIsKnown ==
  \A h, p \in Hosts : replies[h][p] <= 1 /\ (replies[h][p] = 1 => learned[h][p] # 0)

IInv == TypeOK /\ Booted /\ LearnedOfPast /\ AnsweredIsKnown

-----------------------------------------------------------------------------
LEMMA InvInit == Init => IInv
<1> SUFFICES ASSUME Init PROVE IInv
  OBVIOUS
<1>1. network \in [faulty : BOOLEAN, boots : [Hosts -> Nat]]
  BY NetworkAssumption DEF Init
<1>2. TypeOK
  BY <1>1 DEF Init, TypeOK, Datagram
<1>3. Booted /\ LearnedOfPast /\ AnsweredIsKnown
  BY <1>1 DEF Init, Booted, LearnedOfPast, AnsweredIsKnown
<1> QED  BY <1>2, <1>3 DEF IInv

\* A message of a host that runs is a datagram.
LEMMA MessageIsDatagram ==
  ASSUME IInv, NEW h \in Hosts, state[h] # "down", NEW nr \in Nat, NEW p \in Hosts
  PROVE  Message(h, nr, p) \in Datagram
  BY DEF IInv, TypeOK, Booted, Message, Datagram

\* What stays under way was there before.
LEMMA RestIsPast ==
  ASSUME NEW m \in net, NEW rest \in Rest(m)
  PROVE  rest \subseteq net /\ net \ {m} \subseteq rest /\ (~ network.faulty => rest = net \ {m})
  BY DEF Rest

LEMMA StartKeeps ==
  ASSUME IInv, NEW h \in Hosts, Start(h) PROVE IInv'
<1> USE DEF IInv, TypeOK
<1>1. /\ boot' = [boot EXCEPT ![h] = boot[h] + 1]
      /\ boot[h] < network.boots[h]
      /\ state' = [state EXCEPT ![h] = "listening"]
      /\ announces' = [announces EXCEPT ![h] = 0]
      /\ learned' = [learned EXCEPT ![h] = [p \in Hosts |-> 0]]
      /\ replies' = [replies EXCEPT ![h] = [p \in Hosts |-> 0]]
      /\ UNCHANGED <<network, net>>
  BY DEF Start
<1>2. \A p \in Hosts : boot'[p] \in Nat /\ boot[p] <= boot'[p]
  BY <1>1
<1>3. TypeOK'
  <2>1. net' \subseteq Datagram'
    BY <1>1, <1>2 DEF Datagram
  <2> QED  BY <1>1, <2>1
<1>4. Booted'
  BY <1>1 DEF Booted
<1>5. LearnedOfPast'
  BY <1>1, <1>2 DEF LearnedOfPast
<1>6. AnsweredIsKnown'
  BY <1>1 DEF AnsweredIsKnown
<1> QED  BY <1>3, <1>4, <1>5, <1>6

LEMMA AnnounceKeeps ==
  ASSUME IInv, NEW h \in Hosts, Announce(h) PROVE IInv'
<1> USE DEF IInv, TypeOK
<1>1. /\ state[h] # "down"
      /\ state' = [state EXCEPT ![h] = "online"]
      /\ announces' = [announces EXCEPT ![h] = announces[h] + 1]
      /\ net' = net \cup {Message(h, announces[h] + 1, p) : p \in Present}
      /\ UNCHANGED <<network, boot, learned, replies>>
  BY DEF Announce
<1>2. \A p \in Present : Message(h, announces[h] + 1, p) \in Datagram
  <2>1. announces[h] + 1 \in Nat /\ Present \subseteq Hosts
    BY DEF Present
  <2> QED  BY <1>1, <2>1, MessageIsDatagram
<1>3. TypeOK'
  BY <1>1, <1>2 DEF Datagram
<1>4. Booted' /\ LearnedOfPast' /\ AnsweredIsKnown'
  BY <1>1 DEF Booted, LearnedOfPast, AnsweredIsKnown
<1> QED  BY <1>3, <1>4

LEMMA StopKeeps ==
  ASSUME IInv, NEW h \in Hosts, Stop(h) PROVE IInv'
<1>1. TypeOK'
  BY DEF IInv, TypeOK, Stop, Datagram
<1>2. Booted' /\ LearnedOfPast' /\ AnsweredIsKnown'
  BY DEF IInv, TypeOK, Stop, Booted, LearnedOfPast, AnsweredIsKnown
<1> QED  BY <1>1, <1>2 DEF IInv

LEMMA ReceiveNewKeeps ==
  ASSUME IInv, NEW m \in net, ReceiveNew(m) PROVE IInv'
<1> USE DEF IInv, TypeOK
<1>1. /\ m \in Datagram /\ m.to \in Hosts /\ m.from \in Hosts
      /\ m.run \in Nat /\ 1 <= m.run /\ m.run <= boot[m.from]
  BY DEF Datagram
<1>2. /\ state[m.to] # "down"
      /\ learned[m.to][m.from] = 0
      /\ learned' = [learned EXCEPT ![m.to] = [learned[m.to] EXCEPT ![m.from] = m.run]]
      /\ UNCHANGED <<network, state, boot, announces>>
  BY DEF ReceiveNew
<1>3. PICK rest \in Rest(m) :
        \/ net' = rest \cup {Message(m.to, 0, m.from)}
           /\ replies' = [replies EXCEPT ![m.to] = [replies[m.to] EXCEPT ![m.from] = replies[m.to][m.from] + 1]]
        \/ net' = rest /\ UNCHANGED replies
  BY DEF ReceiveNew
<1>4. rest \subseteq net
  BY RestIsPast
<1>5. Message(m.to, 0, m.from) \in Datagram
  BY <1>1, <1>2, MessageIsDatagram
<1>6. TypeOK'
  <2>1. net' \subseteq Datagram'
    BY <1>2, <1>3, <1>4, <1>5 DEF Datagram
  <2>2. learned' \in [Hosts -> [Hosts -> Nat]]
    BY <1>1, <1>2
  <2>3. replies' \in [Hosts -> [Hosts -> Nat]]
    <3>1. [replies[m.to] EXCEPT ![m.from] = replies[m.to][m.from] + 1] \in [Hosts -> Nat]
      BY <1>1
    <3> QED  BY <1>1, <1>3, <3>1
  <2> QED  BY <1>2, <2>1, <2>2, <2>3
<1>7. Booted' /\ LearnedOfPast'
  BY <1>1, <1>2 DEF Booted, LearnedOfPast
<1>8. AnsweredIsKnown'
  <2> SUFFICES ASSUME NEW h \in Hosts, NEW p \in Hosts
               PROVE  replies'[h][p] <= 1 /\ (replies'[h][p] = 1 => learned'[h][p] # 0)
    BY DEF AnsweredIsKnown
  <2>1. CASE h = m.to /\ p = m.from
    <3>1. replies[h][p] = 0
      <4>1. replies[h][p] \in Nat /\ replies[h][p] <= 1 /\ replies[h][p] # 1
        BY <1>2, <2>1 DEF AnsweredIsKnown
      <4>2. \A n \in Nat : n <= 1 /\ n # 1 => n = 0
        OBVIOUS
      <4> QED  BY <4>1, <4>2
    <3> QED  BY <1>1, <1>2, <1>3, <2>1, <3>1
  <2>2. CASE ~ (h = m.to /\ p = m.from)
    <3>1. replies'[h][p] = replies[h][p] /\ learned'[h][p] = learned[h][p]
      BY <1>1, <1>2, <1>3, <2>2
    <3> QED  BY <3>1 DEF AnsweredIsKnown
  <2> QED  BY <2>1, <2>2
<1> QED  BY <1>6, <1>7, <1>8

LEMMA ReceiveKnownOrLoseKeeps ==
  ASSUME IInv, NEW m \in net, ReceiveKnown(m) \/ Lose(m) PROVE IInv'
<1>1. net' \subseteq net /\ UNCHANGED <<network, state, boot, announces, learned, replies>>
  BY RestIsPast DEF ReceiveKnown, Lose
<1>2. TypeOK'
  BY <1>1 DEF IInv, TypeOK, Datagram
<1>3. Booted' /\ LearnedOfPast' /\ AnsweredIsKnown'
  BY <1>1 DEF IInv, TypeOK, Booted, LearnedOfPast, AnsweredIsKnown
<1> QED  BY <1>2, <1>3 DEF IInv

LEMMA InvNext == IInv /\ [Next]_vars => IInv'
<1> SUFFICES ASSUME IInv, [Next]_vars PROVE IInv'
  OBVIOUS
<1>1. ASSUME NEW h \in Hosts, Start(h) PROVE IInv'
  BY <1>1, StartKeeps
<1>2. ASSUME NEW h \in Hosts, Announce(h) PROVE IInv'
  BY <1>2, AnnounceKeeps
<1>3. ASSUME NEW h \in Hosts, Stop(h) PROVE IInv'
  BY <1>3, StopKeeps
<1>4. ASSUME NEW m \in net, Receive(m) \/ Lose(m) PROVE IInv'
  BY <1>4, ReceiveNewKeeps, ReceiveKnownOrLoseKeeps DEF Receive
<1>5. CASE UNCHANGED vars
  <2>1. TypeOK'
    BY <1>5 DEF vars, IInv, TypeOK, Datagram
  <2> QED  BY <1>5, <2>1 DEF vars, IInv, Booted, LearnedOfPast, AnsweredIsKnown
<1> QED  BY <1>1, <1>2, <1>3, <1>4, <1>5 DEF Next

\* The inductive invariant of the user lists and the answers.
THEOREM Invariance == Spec => []IInv
<1>1. QED  BY InvInit, InvNext, PTL DEF Spec

\* A host answers each address at most once in a run, although answers are
\* answered too, and whatever the network duplicates.
THEOREM AnswersOnce == Spec => []AtMostOneAnswer
<1>1. IInv => AtMostOneAnswer
  BY DEF IInv, AnsweredIsKnown, AtMostOneAnswer
<1> QED  BY <1>1, Invariance, PTL
-----------------------------------------------------------------------------
(* Why one host is in the user list of the other, on a reliable network.    *)

\* Who has heard of the run that a host is in has sent it an answer, which is
\* under way or was received.
AnswerKept ==
  ~ network.faulty =>
    \A a, b \in Hosts :
      state[a] # "down" /\ Answers(b, a) /\ learned[b][a] = boot[a] =>
        learned[a][b] # 0 \/ \E m \in net : m.from = b /\ m.to = a

\* Of two hosts that are online the later one has announced itself to the other.
Met ==
  ~ network.faulty =>
    \A a, b \in Hosts :
      a # b /\ state[a] = "online" /\ state[b] = "online" =>
        \/ learned[a][b] # 0 \/ learned[b][a] # 0
        \/ \E m \in net : {m.from, m.to} = {a, b}

MeetInv == AnswerKept /\ Met

LEMMA StartMeets ==
  ASSUME IInv, MeetInv, NEW h \in Hosts, Start(h) PROVE MeetInv'
<1> USE DEF IInv, TypeOK, MeetInv
<1>1. /\ boot' = [boot EXCEPT ![h] = boot[h] + 1]
      /\ state' = [state EXCEPT ![h] = "listening"]
      /\ learned' = [learned EXCEPT ![h] = [p \in Hosts |-> 0]]
      /\ UNCHANGED <<network, net>>
  BY DEF Start
<1>2. AnswerKept'
  <2> SUFFICES ASSUME ~ network'.faulty, NEW a \in Hosts, NEW b \in Hosts,
                      state'[a] # "down", Answers(b, a), learned'[b][a] = boot'[a]
               PROVE  learned'[a][b] # 0 \/ \E m \in net' : m.from = b /\ m.to = a
    BY DEF AnswerKept, Answers
  \* Nobody has heard of a run that begins, and who begins has heard of nobody.
  <2>1. a # h
    BY <1>1 DEF LearnedOfPast
  <2>2. state[a] # "down" /\ boot'[a] = boot[a] /\ boot[a] >= 1
    BY <1>1, <2>1 DEF Booted
  <2>3. b # h
    BY <1>1, <2>2
  <2> QED  BY <1>1, <2>1, <2>2, <2>3 DEF AnswerKept
<1>3. Met'
  BY <1>1 DEF Met
<1> QED  BY <1>2, <1>3

LEMMA AnnounceMeets ==
  ASSUME IInv, MeetInv, NEW h \in Hosts, Announce(h) PROVE MeetInv'
<1> USE DEF IInv, TypeOK, MeetInv
<1>1. /\ state[h] # "down"
      /\ state' = [state EXCEPT ![h] = "online"]
      /\ net' = net \cup {Message(h, announces[h] + 1, p) : p \in Present}
      /\ UNCHANGED <<network, boot, learned>>
  BY DEF Announce
<1>2. AnswerKept'
  BY <1>1 DEF AnswerKept, Answers
<1>3. Met'
  <2> SUFFICES ASSUME ~ network'.faulty, NEW a \in Hosts, NEW b \in Hosts,
                      a # b, state'[a] = "online", state'[b] = "online"
               PROVE  \/ learned'[a][b] # 0 \/ learned'[b][a] # 0
                      \/ \E m \in net' : {m.from, m.to} = {a, b}
    BY DEF Met
  <2>1. ASSUME NEW p \in Hosts, state[p] = "online"
        PROVE  \E m \in net' : m.from = h /\ m.to = p
    <3>1. p \in Present
      BY <2>1 DEF Present, Booted
    <3>2. Message(h, announces[h] + 1, p) \in net'
      BY <1>1, <3>1
    <3> QED  BY <3>2 DEF Message
  <2>2. CASE h = a
    BY <1>1, <2>1, <2>2
  <2>3. CASE h = b
    BY <1>1, <2>1, <2>3
  <2>4. CASE h # a /\ h # b
    BY <1>1, <2>4 DEF Met
  <2> QED  BY <2>2, <2>3, <2>4
<1> QED  BY <1>2, <1>3

LEMMA StopMeets ==
  ASSUME IInv, MeetInv, NEW h \in Hosts, Stop(h) PROVE MeetInv'
<1>1. \A p \in Hosts : state'[p] # "down" => state'[p] = state[p]
  BY DEF IInv, TypeOK, Stop
<1>2. AnswerKept'
  BY <1>1 DEF Stop, MeetInv, AnswerKept, Answers
<1>3. Met'
  BY <1>1 DEF Stop, MeetInv, Met
<1> QED  BY <1>2, <1>3 DEF MeetInv

LEMMA ReceiveNewMeets ==
  ASSUME IInv, MeetInv, NEW m \in net, ReceiveNew(m) PROVE MeetInv'
<1> USE DEF IInv, TypeOK, MeetInv
<1>1. m.to \in Hosts /\ m.from \in Hosts /\ m.run \in Nat /\ 1 <= m.run
  BY DEF Datagram
<1>2. /\ learned' = [learned EXCEPT ![m.to] = [learned[m.to] EXCEPT ![m.from] = m.run]]
      /\ UNCHANGED <<network, state, boot>>
  BY DEF ReceiveNew
<1>3. PICK rest \in Rest(m) :
        net' = IF Answers(m.to, m.from) THEN rest \cup {Message(m.to, 0, m.from)} ELSE rest
  BY DEF ReceiveNew
<1>4. net \ {m} \subseteq net'
  BY <1>3, RestIsPast
<1>5. learned'[m.to][m.from] # 0
  BY <1>1, <1>2
<1>6. \A h, p \in Hosts : learned[h][p] # 0 => learned'[h][p] # 0
  BY <1>1, <1>2
<1>7. AnswerKept'
  <2> SUFFICES ASSUME ~ network'.faulty, NEW a \in Hosts, NEW b \in Hosts,
                      state'[a] # "down", Answers(b, a), learned'[b][a] = boot'[a]
               PROVE  learned'[a][b] # 0 \/ \E n \in net' : n.from = b /\ n.to = a
    BY DEF AnswerKept, Answers
  <2>1. CASE b = m.to /\ a = m.from
    <3>1. Message(b, 0, a) \in net'
      BY <1>3, <2>1
    <3> QED  BY <3>1 DEF Message
  <2>2. CASE ~ (b = m.to /\ a = m.from)
    <3>1. learned[b][a] = boot[a]
      BY <1>1, <1>2, <2>2
    <3>2. learned[a][b] # 0 \/ \E n \in net : n.from = b /\ n.to = a
      BY <1>2, <3>1 DEF AnswerKept
    <3> QED  BY <1>4, <1>5, <1>6, <3>2
  <2> QED  BY <2>1, <2>2
<1>8. Met'
  <2> SUFFICES ASSUME ~ network'.faulty, NEW a \in Hosts, NEW b \in Hosts,
                      a # b, state'[a] = "online", state'[b] = "online"
               PROVE  \/ learned'[a][b] # 0 \/ learned'[b][a] # 0
                      \/ \E n \in net' : {n.from, n.to} = {a, b}
    BY DEF Met
  <2>1. \/ learned[a][b] # 0 \/ learned[b][a] # 0
        \/ \E n \in net : {n.from, n.to} = {a, b}
    BY <1>2 DEF Met
  <2>2. CASE {m.from, m.to} = {a, b}
    BY <1>5, <2>2
  <2>3. CASE {m.from, m.to} # {a, b}
    BY <1>4, <1>6, <2>1, <2>3
  <2> QED  BY <2>2, <2>3
<1> QED  BY <1>7, <1>8

\* A datagram goes without a trace when its receiver is down, or knows its
\* sender.
LEMMA ReceiveKnownOrLoseMeets ==
  ASSUME IInv, MeetInv, NEW m \in net, ReceiveKnown(m) \/ Lose(m) PROVE MeetInv'
<1>1. UNCHANGED <<network, state, boot, learned>>
  BY DEF ReceiveKnown, Lose
<1>2. ~ network.faulty =>
        net' = net \ {m} /\ (learned[m.to][m.from] # 0 \/ state[m.to] = "down")
  BY RestIsPast DEF ReceiveKnown, Lose
<1>3. AnswerKept'
  BY <1>1, <1>2 DEF MeetInv, AnswerKept, Answers
<1>4. Met'
  <2> SUFFICES ASSUME ~ network'.faulty, NEW a \in Hosts, NEW b \in Hosts,
                      a # b, state'[a] = "online", state'[b] = "online"
               PROVE  \/ learned'[a][b] # 0 \/ learned'[b][a] # 0
                      \/ \E n \in net' : {n.from, n.to} = {a, b}
    BY DEF Met
  <2>1. \/ learned[a][b] # 0 \/ learned[b][a] # 0
        \/ \E n \in net : {n.from, n.to} = {a, b}
    BY <1>1 DEF MeetInv, Met
  <2>2. CASE {m.from, m.to} = {a, b}
    BY <1>1, <1>2, <2>2
  <2>3. CASE {m.from, m.to} # {a, b}
    BY <1>1, <1>2, <2>1, <2>3
  <2> QED  BY <2>2, <2>3
<1> QED  BY <1>3, <1>4 DEF MeetInv

LEMMA MeetInvariance == Spec => []MeetInv
<1>1. Init => MeetInv
  <2> SUFFICES ASSUME Init PROVE MeetInv
    OBVIOUS
  <2> QED  BY DEF Init, MeetInv, AnswerKept, Met
<1>2. IInv /\ MeetInv /\ [Next]_vars => MeetInv'
  <2> SUFFICES ASSUME IInv, MeetInv, [Next]_vars PROVE MeetInv'
    OBVIOUS
  <2>1. ASSUME NEW h \in Hosts, Start(h) PROVE MeetInv'
    BY <2>1, StartMeets
  <2>2. ASSUME NEW h \in Hosts, Announce(h) PROVE MeetInv'
    BY <2>2, AnnounceMeets
  <2>3. ASSUME NEW h \in Hosts, Stop(h) PROVE MeetInv'
    BY <2>3, StopMeets
  <2>4. ASSUME NEW m \in net, Receive(m) \/ Lose(m) PROVE MeetInv'
    BY <2>4, ReceiveNewMeets, ReceiveKnownOrLoseMeets DEF Receive
  <2>5. CASE UNCHANGED vars
    BY <2>5 DEF vars, MeetInv, AnswerKept, Met, Answers
  <2> QED  BY <2>1, <2>2, <2>3, <2>4, <2>5 DEF Next
<1> QED  BY <1>1, <1>2, Invariance, PTL DEF Spec

\* On a reliable network a host misses a legacy one, once nothing is under way
\* between them, only if that one heard of an earlier run of it and so did not
\* answer.
THEOREM MissedForOneReason == Spec => []MissedOnlyAfterRestart
<1>1. IInv /\ MeetInv => MissedOnlyAfterRestart
  <2> SUFFICES ASSUME IInv, MeetInv, ~ network.faulty, NEW a \in Hosts, NEW b \in Hosts,
                      state[a] = "online", state[b] = "online", Answers(b, a),
                      Between(a, b) = {}, learned[a][b] = 0
               PROVE  learned[b][a] \in 1 .. boot[a] - 1
    BY DEF MissedOnlyAfterRestart
  <2>1. a # b
    BY DEF Answers
  <2>2. \A m \in net : {m.from, m.to} # {a, b}
    BY DEF Between
  <2>3. learned[b][a] # 0
    BY <2>1, <2>2 DEF MeetInv, Met
  <2>4. learned[b][a] # boot[a]
    BY <2>2 DEF MeetInv, AnswerKept
  <2>5. learned[b][a] \in Nat /\ boot[a] \in Nat /\ learned[b][a] <= boot[a]
    BY DEF IInv, TypeOK, LearnedOfPast
  <2> QED  BY <2>3, <2>4, <2>5
<1> QED  BY <1>1, Invariance, MeetInvariance, PTL
=============================================================================
