------------------------------ MODULE Presence ------------------------------
(***************************************************************************)
(* How the hosts of a network learn of each other.  A host announces       *)
(* itself with a broadcast (BR_ENTRY); a host of the legacy program that   *)
(* sees a new address adds it to its user list and answers (ANSENTRY):     *)
(* online_broadcast of src/src/broadcast.c and on_buddy_entry of           *)
(* src/src/process_msg.c.  The ifc program handles both messages alike and *)
(* never answers: on_entry_callback of src/ifc/src/handle_message.c.       *)
(*                                                                         *)
(* Datagrams are delayed and reordered, and those for a host that is down  *)
(* are lost; on a faulty network they are also lost and duplicated on the  *)
(* way.                                                                    *)
(* Nobody handles BR_EXIT, so it is not modelled: a host just goes down.   *)
(***************************************************************************)
EXTENDS Naturals, FiniteSets

CONSTANTS
  Hosts,
  Legacy,        \* the hosts that run the legacy program, the others run ifc
  UserName,      \* the user name that a host sends
  Networks,      \* each says whether it loses and duplicates datagrams (faulty)
                 \* and, a bound, how often a host starts (boots, 0 of one that is absent)
  MaxAnnounce    \* bound: announcements of one run of a host

ASSUME HostAssumption == Legacy \subseteq Hosts /\ DOMAIN UserName = Hosts
ASSUME NetworkAssumption == Networks \subseteq [faulty : BOOLEAN, boots : [Hosts -> Nat]]

VARIABLES
  network,    \* the one of Networks that the hosts are in
  state,      \* "down", "listening" (the receiver runs), "online" (announced)
  boot,       \* how often the host was started
  announces,  \* announcements since it was started
  learned,    \* learned[h][p]: the run of p of which h first heard, 0 if p is not in its user list
  replies,    \* replies[h][p]: answers that h sent to p since it was started
  net         \* the datagrams under way

vars == <<network, state, boot, announces, learned, replies, net>>

\* The announcements of a run are numbered, an answer has the number 0.
Message(h, nr, p) == [from |-> h, run |-> boot[h], nr |-> nr, to |-> p]

Present == {h \in Hosts : network.boots[h] > 0}

Init ==
  /\ network \in Networks
  /\ state = [h \in Hosts |-> "down"]
  /\ boot = [h \in Hosts |-> 0]
  /\ announces = [h \in Hosts |-> 0]
  /\ learned = [h \in Hosts |-> [p \in Hosts |-> 0]]
  /\ replies = [h \in Hosts |-> [p \in Hosts |-> 0]]
  /\ net = {}

\* main up to the start of the receiver: the user list is empty.
Start(h) ==
  /\ state[h] = "down"
  /\ boot[h] < network.boots[h]
  /\ state' = [state EXCEPT ![h] = "listening"]
  /\ boot' = [boot EXCEPT ![h] = @ + 1]
  /\ announces' = [announces EXCEPT ![h] = 0]
  /\ learned' = [learned EXCEPT ![h] = [p \in Hosts |-> 0]]
  /\ replies' = [replies EXCEPT ![h] = [p \in Hosts |-> 0]]
  /\ UNCHANGED <<network, net>>

\* online_broadcast, at the start and after a change of nickname; the host
\* receives its own broadcast.
Announce(h) ==
  /\ state[h] # "down"
  /\ announces[h] < MaxAnnounce
  /\ state' = [state EXCEPT ![h] = "online"]
  /\ announces' = [announces EXCEPT ![h] = @ + 1]
  /\ net' = net \cup {Message(h, announces[h] + 1, p) : p \in Present}
  /\ UNCHANGED <<network, boot, learned, replies>>

\* The program ends, or is killed.
Stop(h) ==
  /\ state[h] # "down"
  /\ state' = [state EXCEPT ![h] = "down"]
  /\ UNCHANGED <<network, boot, announces, learned, replies, net>>

\* The command of an ANSENTRY (0x103) contains the bit of BR_ENTRY (1), so
\* that it is answered too.  The user name guards against answering oneself.
Answers(h, p) == h \in Legacy /\ UserName[h] # UserName[p]

\* What a datagram leaves under way when it is received.
Rest(m) == {net \ {m}} \cup (IF network.faulty THEN {net} ELSE {})

\* Mutant: a known user is answered too.
ReceiveKnownAnswers(m) ==
  /\ state[m.to] # "down"
  /\ learned[m.to][m.from] # 0
  /\ \E rest \in Rest(m) : net' = rest \cup {Message(m.to, 0, m.from)}
  /\ replies' = [replies EXCEPT ![m.to][m.from] = @ + 1]
  /\ UNCHANGED <<network, state, boot, announces, learned>>

\* on_buddy_entry and on_entry_callback: a known user is updated in place and
\* gets no answer.
ReceiveKnown(m) ==
  /\ state[m.to] # "down"
  /\ learned[m.to][m.from] # 0
  /\ net' \in Rest(m)
  /\ UNCHANGED <<network, state, boot, announces, learned, replies>>

\* Mutant: nobody answers.
ReceiveNewSilently(m) ==
  /\ state[m.to] # "down"
  /\ learned[m.to][m.from] = 0
  /\ learned' = [learned EXCEPT ![m.to][m.from] = m.run]
  /\ net' \in Rest(m)
  /\ UNCHANGED <<network, state, boot, announces, replies>>

ReceiveNew(m) ==
  /\ state[m.to] # "down"
  /\ learned[m.to][m.from] = 0
  /\ learned' = [learned EXCEPT ![m.to][m.from] = m.run]
  /\ \E rest \in Rest(m) :
       IF Answers(m.to, m.from)
       THEN /\ net' = rest \cup {Message(m.to, 0, m.from)}
            /\ replies' = [replies EXCEPT ![m.to][m.from] = @ + 1]
       ELSE /\ net' = rest
            /\ UNCHANGED replies
  /\ UNCHANGED <<network, state, boot, announces>>

Receive(m) == ReceiveKnown(m) \/ ReceiveNew(m)

Lose(m) ==
  /\ network.faulty \/ state[m.to] = "down"
  /\ net' = net \ {m}
  /\ UNCHANGED <<network, state, boot, announces, learned, replies>>

Next ==
  \/ \E h \in Hosts : Start(h) \/ Announce(h) \/ Stop(h)
  \/ \E m \in net : Receive(m) \/ Lose(m)

Spec == Init /\ [][Next]_vars

\* A host that runs announces itself and handles what it receives.
FairSpec ==
  /\ Spec
  /\ \A h \in Hosts : WF_vars(state[h] = "listening" /\ Announce(h))
  /\ WF_vars(\E m \in net : Receive(m) \/ Lose(m))

-----------------------------------------------------------------------------
\* Two hosts that both answer do not answer each other's answers for ever: a
\* host answers each address at most once, whatever the network duplicates.
AtMostOneAnswer == \A h, p \in Hosts : replies[h][p] <= 1

Between(a, b) == {m \in net : {m.from, m.to} = {a, b}}

\* On a reliable network, once all datagrams between two running hosts were
\* received, a host can miss a legacy host of another user name for one reason
\* only: that host still had it in its user list from an earlier run, and did
\* not answer.
MissedOnlyAfterRestart ==
  ~ network.faulty => \A a, b \in Hosts :
    /\ state[a] = "online" /\ state[b] = "online"
    /\ Answers(b, a)
    /\ Between(a, b) = {}
    /\ learned[a][b] = 0
    => learned[b][a] \in 1 .. boot[a] - 1

\* On a reliable network two hosts in their first run find each other, if the
\* one to be found runs the legacy program.
FirstRunDiscovery ==
  \A b \in Hosts : \A a \in {a \in Hosts : Answers(b, a)} :
    (/\ ~ network.faulty
     /\ state[a] = "online" /\ state[b] = "online"
     /\ boot[a] = 1 /\ boot[b] = 1)
    ~> (learned[a][b] # 0 \/ state[a] = "down" \/ state[b] = "down")
=============================================================================
