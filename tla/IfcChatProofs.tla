--------------------------- MODULE IfcChatProofs ---------------------------
(***************************************************************************)
(* For any number of messages, windows and users: what the two threads     *)
(* that share the ring of unread messages can and cannot do to it, and     *)
(* where each message that came ends.  The inductive invariant says what   *)
(* every link of the ring is between any two steps of insert_chat_msg and  *)
(* of tray_icon_activated.                                                 *)
(***************************************************************************)
EXTENDS IfcChat, FiniteSetTheorems, WellFoundedInduction, TLAPS

Links == [next : [Nodes -> Nodes], prev : [Nodes -> Nodes]]
LoopPlaces == {"idle", "append", "link", "finish", "alert", "show"}
GtkPlaces == {"idle", "join", "unlink", "present", "init", "insert", "test", "calm", "free"}
LoopState == [at : LoopPlaces, msg : 0 .. MaxMsgs, tail : Nodes, box : Windows \cup {None}]
GtkState ==
  [at : GtkPlaces, msg : Msgs \cup {None}, prev : Nodes, next : Nodes, user : Users \cup {None}]
Window == [user : Users, click : Msgs \cup {None}, seen : 0 .. MaxMsgs]

TypeOK ==
  /\ from \in [Msgs -> Users]
  /\ links \in Links
  /\ chatbox \in [Users -> Windows \cup {None}]
  /\ loop \in LoopState /\ gtk \in GtkState
  /\ freed \subseteq Msgs /\ dropped \subseteq Msgs
  /\ shown \in [Windows -> Seq(Msgs)]
  /\ unread \in Seq(Msgs)
  /\ opened \in Seq(Window) /\ Len(opened) <= MaxWindows

Appending == {"append", "link", "finish"}
Unlinking == {"join", "unlink"}

\* The messages that have come and are on their way to the list or a window.
PlacesInv ==
  /\ loop.at # "idle" => loop.msg \in Msgs
  /\ loop.at = "show" => loop.box \in Windows
  /\ gtk.at = "idle" => gtk.msg = None
  /\ gtk.at \in Unlinking \cup {"present", "insert", "test", "free"} => gtk.msg \in Msgs
  /\ gtk.at \in Unlinking => gtk.prev = MList /\ gtk.msg \in ToSet(unread)

\* The window that the GTK thread has entered, and those of the users.
BoxesInv ==
  /\ gtk.at \in {"init", "insert"} =>
       /\ gtk.user \in Users /\ chatbox[gtk.user] # None
       /\ opened[chatbox[gtk.user]].click = gtk.msg
  /\ \A usr \in Users : chatbox[usr] # None =>
       chatbox[usr] \in DOMAIN opened /\ opened[chatbox[usr]].user = usr

\* The list holds the messages in the order in which they came.
OrderInv == \A i, j \in DOMAIN unread : i < j => unread[i] < unread[j]

\* The message that insert_chat_msg has and has not delivered yet.
New == IF loop.at \in Appending \cup {"show"} THEN {loop.msg} ELSE {}
Arrived == (1 .. loop.msg) \ New

\* A message is on the list, in one window, dropped or with the GTK thread.
Displayed(m) == \E w \in Windows : m \in ToSet(shown[w])

Fates(m) ==
  /\ m \in ToSet(unread) => ~Displayed(m) /\ m \notin dropped /\ m \notin Taken
  /\ m \in dropped => ~Displayed(m) /\ m \notin Taken
  /\ m \in Taken => ~Displayed(m)
  /\ \A w, x \in Windows : m \in ToSet(shown[w]) /\ m \in ToSet(shown[x]) => w = x

Somewhere(m) == m \in ToSet(unread) \/ Displayed(m) \/ m \in dropped \/ m \in Taken

FatesInv ==
  \A m \in Msgs :
    /\ Fates(m)
    /\ Somewhere(m) => m \in Arrived
    /\ Running /\ m \in Arrived => Somewhere(m)

\* What is given back, or is about to be, was taken from the list.
FreedInv ==
  /\ \A m \in freed : m \in Arrived /\ m \notin ToSet(unread) /\ m \notin Taken
  /\ gtk.at \in {"test", "calm", "free"} /\ gtk.msg \in Msgs =>
       gtk.msg \in Arrived /\ gtk.msg \notin ToSet(unread)

\* A walk that starts at t meets messages of the list, each behind the last.
Chain(t) ==
  t # MList =>
    /\ t \in ToSet(unread)
    /\ \A x \in ToSet(unread) : x >= t /\ links.next[x] # MList =>
         links.next[x] > x /\ links.next[x] \in ToSet(unread)

ChainInv ==
  /\ Chain(links.next[MList])
  /\ links.next[MList] # MList => links.prev[links.next[MList]] = MList \/ gtk.at \in Unlinking
  /\ gtk.at \in Unlinking =>
       /\ Chain(gtk.next) /\ (gtk.next # MList => gtk.next > gtk.msg)
       /\ links.next[MList] # MList
  /\ gtk.at = "unlink" /\ gtk.next # MList => links.prev[gtk.next] = MList
  /\ loop.at = "finish" => links.next[loop.msg] = MList /\ links.prev[loop.msg] = loop.tail
  /\ links.prev[MList] <= loop.msg
  /\ loop.at \in {"append", "link"} => links.prev[MList] < loop.msg
  /\ loop.at \in {"link", "finish"} => loop.tail < loop.msg
  /\ undefined # "freed_message"

\* The ring, while the threads have not met at its only message: whole in one
\* direction, and in the other but for what a thread has not done yet.
NodeAt(i) == IF i = 0 THEN MList ELSE unread[i]
LastNode == NodeAt(Len(unread))

RingInv ==
  ~overlapped =>
    /\ \A i \in 0 .. Len(unread) - 1 : links.next[NodeAt(i)] = unread[i + 1]
    /\ links.next[LastNode] = MList
    /\ \A i \in 1 .. Len(unread) :
         links.prev[unread[i]] = IF gtk.at = "unlink" /\ i = 2 THEN MList ELSE NodeAt(i - 1)
    /\ loop.at = "finish" => links.prev[MList] = loop.msg
    /\ loop.at # "finish" =>
         links.prev[MList] = IF gtk.at = "unlink" /\ gtk.next = MList THEN MList ELSE LastNode
    /\ loop.at \in {"link", "finish"} => loop.tail = LastNode
    /\ gtk.at \in Unlinking =>
         /\ Len(unread) >= 1 /\ gtk.msg = unread[1]
         /\ gtk.next = IF Len(unread) = 1 THEN MList ELSE unread[2]
         /\ gtk.next = MList => loop.at \notin {"link", "finish"}
    /\ undefined # "freed_node"

\* There is room on the list for the message that has come last.
LengthInv == Len(unread) <= loop.msg /\ (New # {} => Len(unread) < loop.msg)

\* Who waits to be shown came before the window that his user has.
Waiting(m) ==
  \/ m \in ToSet(unread)
  \/ gtk.at = "present" /\ m = gtk.msg
  \/ loop.at \in Appending /\ m = loop.msg

SeenInv ==
  \A m \in Msgs :
    Waiting(m) /\ chatbox[from[m]] # None => m <= opened[chatbox[from[m]]].seen

\* Nothing is shown in a window that was not opened.
EmptyInv ==
  /\ loop.at = "show" => loop.box \in DOMAIN opened
  /\ \A w \in Windows : shown[w] # << >> => w \in DOMAIN opened

\* The icon blinks while there is something to take, or an alert is to come.
AlertInv ==
  /\ links.next[MList] # MList => blinking \/ late \/ loop.at = "alert"
  /\ gtk.at = "calm" /\ links.next[MList] # MList => late \/ loop.at = "alert"

IInv ==
  /\ TypeOK /\ PlacesInv /\ BoxesInv /\ OrderInv /\ FatesInv /\ FreedInv
  /\ ChainInv /\ RingInv /\ LengthInv /\ AlertInv
  /\ SeenInv /\ DroppedBehindNewWindow /\ EmptyInv /\ WindowInOrder

(* What is in a sequence to which something was appended.                   *)
LEMMA AppendFacts ==
  ASSUME NEW S, NEW s \in Seq(S), NEW e \in S
  PROVE  /\ Append(s, e) \in Seq(S) /\ Len(Append(s, e)) = Len(s) + 1 /\ Len(s) \in Nat
         /\ Append(s, e)[Len(s) + 1] = e
         /\ \A i \in 1 .. Len(s) : Append(s, e)[i] = s[i]
         /\ ToSet(Append(s, e)) = ToSet(s) \cup {e}
<1>1. /\ Append(s, e) \in Seq(S) /\ Len(Append(s, e)) = Len(s) + 1 /\ Len(s) \in Nat
      /\ Append(s, e)[Len(s) + 1] = e
      /\ \A i \in 1 .. Len(s) : Append(s, e)[i] = s[i]
  OBVIOUS
<1> DEFINE t == Append(s, e)
<1>2. DOMAIN t = 1 .. Len(s) + 1 /\ DOMAIN s = 1 .. Len(s)
  BY <1>1
<1> HIDE DEF t
<1>3. \A i \in DOMAIN t : i \in DOMAIN s \/ i = Len(s) + 1
  BY <1>1, <1>2
<1>4. \A i \in DOMAIN s : i \in DOMAIN t
  BY <1>1, <1>2
<1>5. Len(s) + 1 \in DOMAIN t
  BY <1>1, <1>2
<1>6. ToSet(t) = ToSet(s) \cup {e}
  BY <1>1, <1>2, <1>3, <1>4, <1>5 DEF ToSet, t
<1> QED
  BY <1>1, <1>6 DEF t

(* A set of numbers that is not empty has a least element.                  *)
LEMMA LeastOf ==
  ASSUME NEW S \in SUBSET Nat, S # {}
  PROVE  \E n \in S : \A k \in S : n <= k
<1>1. PICK n \in S : \A k \in S : <<k, n>> \notin OpToRel(<, Nat)
  BY WFMin, NatLessThanWellFounded
<1>2. \A k \in S : ~(k < n)
  BY <1>1, Zenon DEF OpToRel
<1> QED
  BY <1>2

(* What is left of a sequence without doubles.                              *)
LEMMA RemoveFacts ==
  ASSUME NEW S, NEW s \in Seq(S), NEW k \in 1 .. Len(s), \A i \in 1 .. Len(s) : s[i] = s[k] => i = k
  PROVE  /\ RemoveFirst(s, s[k]) \in Seq(S) /\ Len(RemoveFirst(s, s[k])) = Len(s) - 1
         /\ \A i \in 1 .. Len(s) - 1 : RemoveFirst(s, s[k])[i] = IF i < k THEN s[i] ELSE s[i + 1]
         /\ ToSet(RemoveFirst(s, s[k])) = ToSet(s) \ {s[k]}
<1> DEFINE I == {i \in 1 .. Len(s) : s[i] = s[k]}
           t == RemoveAt(s, k)
<1>1. I = {k}
  OBVIOUS
<1>2. Min(I) = k
  BY <1>1 DEF Min
<1>3. SelectInSeq(s, LAMBDA v : v = s[k]) = k
  BY <1>2 DEF SelectInSeq
<1>4. RemoveFirst(s, s[k]) = t
  BY <1>3 DEF RemoveFirst
<1>5. /\ SubSeq(s, 1, k - 1) \in Seq(S) /\ Len(SubSeq(s, 1, k - 1)) = k - 1
      /\ \A i \in 1 .. k - 1 : SubSeq(s, 1, k - 1)[i] = s[i]
  OBVIOUS
<1>6. /\ SubSeq(s, k + 1, Len(s)) \in Seq(S) /\ Len(SubSeq(s, k + 1, Len(s))) = Len(s) - k
      /\ \A i \in 1 .. Len(s) - k : SubSeq(s, k + 1, Len(s))[i] = s[i + k]
  OBVIOUS
<1> DEFINE a == SubSeq(s, 1, k - 1)
           b == SubSeq(s, k + 1, Len(s))
<1>7. t = a \o b
  BY DEF RemoveAt
<1>8. /\ a \in Seq(S) /\ Len(a) = k - 1 /\ \A i \in 1 .. k - 1 : a[i] = s[i]
      /\ b \in Seq(S) /\ Len(b) = Len(s) - k /\ \A i \in 1 .. Len(s) - k : b[i] = s[i + k]
  BY <1>5, <1>6
<1> HIDE DEF a, b, t
<1>9. t \in Seq(S) /\ Len(t) = Len(s) - 1
  <2>0. a \in Seq(S) /\ b \in Seq(S)
    BY <1>8
  <2>1. a \o b \in Seq(S) /\ Len(a \o b) = Len(a) + Len(b)
    BY <2>0
  <2>2. Len(s) \in Nat /\ k \in Nat
    OBVIOUS
  <2> QED
    BY <1>7, <1>8, <2>1
<1>10. \A i \in 1 .. Len(s) - 1 : t[i] = IF i < k THEN s[i] ELSE s[i + 1]
  <2>1. SUFFICES ASSUME NEW i \in 1 .. Len(s) - 1 PROVE t[i] = IF i < k THEN s[i] ELSE s[i + 1]
    OBVIOUS
  <2>2. t[i] = IF i <= k - 1 THEN a[i] ELSE b[i - (k - 1)]
    <3>1. a \in Seq(S) /\ b \in Seq(S) /\ Len(a) \in Nat /\ Len(b) \in Nat
      BY <1>8
    <3>2. \A j \in 1 .. Len(a) + Len(b) :
            (a \o b)[j] = IF j <= Len(a) THEN a[j] ELSE b[j - Len(a)]
      BY <3>1
    <3>3. Len(s) \in Nat /\ k \in Nat
      OBVIOUS
    <3>4. i \in 1 .. Len(a) + Len(b) /\ Len(a) = k - 1
      BY <1>8, <3>3
    <3> QED
      BY <1>7, <3>2, <3>4
  <2>3. CASE i < k
    <3>1. i \in 1 .. k - 1 /\ i <= k - 1
      BY <2>3
    <3> QED
      BY <1>8, <2>2, <2>3, <3>1
  <2>4. CASE ~(i < k)
    <3> DEFINE l == i - (k - 1)
    <3>1. l \in 1 .. Len(s) - k /\ l + k = i + 1 /\ ~(i <= k - 1)
      BY <2>4
    <3> QED
      BY <1>8, <2>2, <2>4, <3>1
  <2> QED
    BY <2>3, <2>4
<1>11. ToSet(t) = ToSet(s) \ {s[k]}
  <2>1. DOMAIN t = 1 .. Len(s) - 1 /\ DOMAIN s = 1 .. Len(s) /\ Len(s) \in Nat
    BY <1>9
  <2>2. ASSUME NEW i \in DOMAIN t PROVE t[i] \in ToSet(s) \ {s[k]}
    <3>1. \E j \in 1 .. Len(s) : j # k /\ t[i] = s[j]
      BY <1>10, <2>1
    <3> QED
      BY <3>1 DEF ToSet
  <2>3. ASSUME NEW j \in DOMAIN s, s[j] # s[k] PROVE s[j] \in ToSet(t)
    <3>1. \E i \in 1 .. Len(s) - 1 : t[i] = s[j]
      <4>1. CASE j < k
        BY <1>10, <4>1
      <4>2. CASE j > k
        <5>1. j - 1 \in 1 .. Len(s) - 1 /\ ~(j - 1 < k) /\ j - 1 + 1 = j
          BY <2>1, <4>2
        <5>2. t[j - 1] = s[j]
          BY <1>10, <5>1
        <5> QED
          BY <5>1, <5>2
      <4> QED
        BY <2>3, <4>1, <4>2
    <3> QED
      BY <2>1, <3>1 DEF ToSet
  <2> QED
    BY <2>2, <2>3 DEF ToSet
<1> QED
  BY <1>4, <1>9, <1>10, <1>11

(* What new_pchatbox leaves.                                                *)
Entered(u, m) ==
  LET w == Len(opened) + 1 IN
    /\ w \in Windows /\ opened' \in Seq(Window) /\ Len(opened') = w
    /\ opened'[w].user = u /\ opened'[w].click = m /\ opened'[w].seen = loop.msg
    /\ \A x \in 1 .. Len(opened) : opened'[x] = opened[x]
    /\ chatbox' \in [Users -> Windows \cup {None}] /\ chatbox'[u] = w
    /\ \A v \in Users \ {u} : chatbox'[v] = chatbox[v]

(* new_pchatbox makes a window for the user of the message, and no other.   *)
LEMMA EnterFacts ==
  ASSUME TypeOK, NEW u \in Users, NEW m \in Msgs \cup {None}, Enter(u, m)
  PROVE  Entered(u, m)
<1> DEFINE new == [user |-> u, click |-> m, seen |-> loop.msg]
<1>1. new \in Window
  BY DEF TypeOK, LoopState, Window
<1>2. opened \in Seq(Window) /\ opened' = Append(opened, new) /\ chatbox \in [Users -> Windows \cup {None}]
  BY DEF TypeOK, Enter
<1>3. new.user = u /\ new.click = m /\ new.seen = loop.msg
  OBVIOUS
<1> HIDE DEF new
<1>4. /\ opened' \in Seq(Window) /\ Len(opened') = Len(opened) + 1 /\ Len(opened) \in Nat
      /\ opened'[Len(opened) + 1] = new /\ \A x \in 1 .. Len(opened) : opened'[x] = opened[x]
  BY <1>1, <1>2, AppendFacts
<1>5. Len(opened) + 1 \in Windows
  BY <1>4, BoundAssumption DEF Enter, Windows
<1>6. chatbox' = [chatbox EXCEPT ![u] = Len(opened) + 1]
  BY DEF Enter
<1> QED
  BY <1>2, <1>3, <1>4, <1>5, <1>6 DEF Entered

(* What a window shows after a message was added.                           *)
Showed(w, m) ==
  /\ shown' \in [Windows -> Seq(Msgs)]
  /\ Len(shown'[w]) = Len(shown[w]) + 1 /\ Len(shown[w]) \in Nat
  /\ shown'[w][Len(shown[w]) + 1] = m
  /\ \A i \in 1 .. Len(shown[w]) : shown'[w][i] = shown[w][i]
  /\ ToSet(shown'[w]) = ToSet(shown[w]) \cup {m}
  /\ \A x \in Windows \ {w} : shown'[x] = shown[x]

(* insert_chat_record adds a message at the end of one window.              *)
LEMMA ShowFacts ==
  ASSUME TypeOK, NEW w \in Windows, NEW m \in Msgs, shown' = [shown EXCEPT ![w] = Append(@, m)]
  PROVE  Showed(w, m)
<1>1. shown[w] \in Seq(Msgs) /\ shown \in [Windows -> Seq(Msgs)]
  BY DEF TypeOK
<1>2. shown'[w] = Append(shown[w], m) /\ \A x \in Windows \ {w} : shown'[x] = shown[x]
  BY <1>1
<1>3. Append(shown[w], m) \in Seq(Msgs)
  BY <1>1, AppendFacts
<1>4. shown' \in [Windows -> Seq(Msgs)]
  BY <1>1, <1>3
<1> QED
  BY <1>1, <1>2, <1>4, AppendFacts DEF Showed

(* The list after a message was appended.                                   *)
Grown ==
  /\ unread' \in Seq(Msgs) /\ Len(unread') = Len(unread) + 1 /\ Len(unread) \in Nat
  /\ unread'[Len(unread) + 1] = loop.msg
  /\ \A i \in 1 .. Len(unread) : unread'[i] = unread[i]
  /\ ToSet(unread') = ToSet(unread) \cup {loop.msg}

(* insert_chat_msg puts its message at the end of the list.                 *)
LEMMA GrowFacts ==
  ASSUME TypeOK, PlacesInv, AppendForward PROVE Grown
<1>1. unread \in Seq(Msgs) /\ loop.msg \in Msgs /\ unread' = Append(unread, loop.msg)
  BY DEF TypeOK, PlacesInv, AppendForward, LoopAt
<1> QED
  BY <1>1, AppendFacts DEF Grown

(* The list after one was taken, be it the first or not.                    *)
Shrunk(k) ==
  /\ unread[k] = gtk.msg
  /\ unread' \in Seq(Msgs) /\ Len(unread') = Len(unread) - 1
  /\ \A i \in 1 .. Len(unread) - 1 : unread'[i] = IF i < k THEN unread[i] ELSE unread[i + 1]
  /\ ToSet(unread') = ToSet(unread) \ {gtk.msg}

(* tray_icon_activated takes one message out and leaves the others in order.*)
LEMMA ShrinkFacts ==
  ASSUME TypeOK, PlacesInv, OrderInv, TrayUnlink PROVE \E k \in 1 .. Len(unread) : Shrunk(k)
<1>1. unread \in Seq(Msgs) /\ Len(unread) \in Nat /\ DOMAIN unread = 1 .. Len(unread)
  BY DEF TypeOK
<1>2. gtk.msg \in ToSet(unread) /\ unread' = RemoveFirst(unread, gtk.msg)
  BY DEF PlacesInv, TrayUnlink, GtkAt, Unlinking
<1>3. PICK k \in 1 .. Len(unread) : unread[k] = gtk.msg
  BY <1>1, <1>2 DEF ToSet
<1>4. \A i \in 1 .. Len(unread) : unread[i] \in Nat
  BY <1>1, BoundAssumption DEF Msgs
<1>5. \A i \in 1 .. Len(unread) : unread[i] = unread[k] => i = k
  <2>1. SUFFICES ASSUME NEW i \in 1 .. Len(unread), unread[i] = unread[k], i # k PROVE FALSE
    OBVIOUS
  <2>2. i < k \/ k < i
    BY <1>1, <2>1
  <2>3. unread[i] < unread[k] \/ unread[k] < unread[i]
    BY <1>1, <2>2 DEF OrderInv
  <2> QED
    BY <1>4, <2>1, <2>3
<1>6. /\ RemoveFirst(unread, unread[k]) \in Seq(Msgs)
      /\ Len(RemoveFirst(unread, unread[k])) = Len(unread) - 1
      /\ \A i \in 1 .. Len(unread) - 1 :
           RemoveFirst(unread, unread[k])[i] = IF i < k THEN unread[i] ELSE unread[i + 1]
      /\ ToSet(RemoveFirst(unread, unread[k])) = ToSet(unread) \ {unread[k]}
  BY <1>1, <1>5, RemoveFacts
<1> QED
  BY <1>2, <1>3, <1>6 DEF Shrunk

(* Every step keeps the types.                                              *)
LEMMA TypeStep ==
  ASSUME TypeOK, PlacesInv, BoxesInv, OrderInv, [Next]_vars
  PROVE  TypeOK'
<1>1. CASE Receive
  <2>1. loop.msg + 1 \in Msgs /\ loop.msg + 1 \in 0 .. MaxMsgs
    BY <1>1, BoundAssumption DEF Receive, TypeOK, LoopState, Msgs
  <2>2. chatbox[from[loop.msg + 1]] \in Windows \cup {None}
    BY <2>1 DEF TypeOK
  <2> QED
    BY <1>1, <2>1 DEF Receive, TypeOK, shared, ghosts, LoopIdle, LoopState, LoopPlaces, Nodes
<1>2. CASE AppendRead
  BY <1>2 DEF AppendRead, TypeOK, shared, Links, LoopState, LoopPlaces, Nodes
<1>3. CASE AppendBack
  BY <1>3 DEF AppendBack, TypeOK, PlacesInv, ghosts, LoopAt, LoopThen, Links, LoopState,
     LoopPlaces, Nodes
<1>4. CASE AppendForward
  <2>1. unread' \in Seq(Msgs)
    BY <1>4, GrowFacts DEF Grown
  <2>2. links' \in Links
    BY <1>4 DEF AppendForward, TypeOK, PlacesInv, LoopAt, Links, Nodes
  <2> QED
    BY <1>4, <2>1, <2>2 DEF AppendForward, TypeOK, ghosts, LoopThen, LoopState, LoopPlaces
<1>5. CASE Alert
  BY <1>5 DEF Alert, TypeOK, LoopReturns, LoopIdle, LoopState, LoopPlaces, Nodes
<1>6. CASE Show
  <2>1. loop.box \in Windows /\ loop.msg \in Msgs
    BY <1>6 DEF Show, LoopAt, PlacesInv
  <2>2. shown' \in [Windows -> Seq(Msgs)]
    BY <1>6, <2>1, ShowFacts DEF Show, Showed, TypeOK
  <2> QED
    BY <1>6, <2>1, <2>2 DEF Show, TypeOK, ghosts, LoopReturns, LoopIdle, LoopState, LoopPlaces,
       Nodes
<1>7. CASE TrayNothing
  BY <1>7 DEF TrayNothing, TypeOK, shared, ghosts, GtkThen, GtkState, GtkPlaces
<1>8. CASE TrayTake
  BY <1>8 DEF TrayTake, TypeOK, shared, GtkIdle, Links, GtkState, GtkPlaces, Nodes
<1>9. CASE TrayJoinBack
  BY <1>9 DEF TrayJoinBack, TypeOK, ghosts, GtkThen, Links, GtkState, GtkPlaces
<1>10. CASE TrayUnlink
  <2>1. unread' \in Seq(Msgs)
    BY <1>10, ShrinkFacts DEF Shrunk
  <2>2. links' \in Links
    BY <1>10 DEF TrayUnlink, TypeOK, Links, GtkState
  <2> QED
    BY <1>10, <2>1, <2>2 DEF TrayUnlink, TypeOK, ghosts, GtkIdle, GtkState, GtkPlaces, Nodes
<1>11. CASE TrayPresent
  BY <1>11 DEF TrayPresent, TypeOK, PlacesInv, shared, GtkAt, GtkThen, GtkState, GtkPlaces
<1>12. CASE TrayNew
  <2>1. from[gtk.msg] \in Users /\ gtk.msg \in Msgs
    BY <1>12 DEF TrayNew, GtkAt, PlacesInv, TypeOK
  <2>2. Entered(from[gtk.msg], gtk.msg) /\ Enter(from[gtk.msg], gtk.msg)
    BY <1>12, <2>1, EnterFacts DEF TrayNew
  <2>3. opened' \in Seq(Window) /\ Len(opened') <= MaxWindows /\ chatbox' \in [Users -> Windows \cup {None}]
    BY <2>2 DEF Entered, Windows
  <2> QED
    BY <2>1, <2>2, <2>3 DEF Enter, TypeOK, GtkIdle, GtkState, GtkPlaces, Nodes
<1>13. CASE InitChatbox
  BY <1>13 DEF InitChatbox, TypeOK, ghosts, GtkAt, GtkThen, GtkIdle, GtkState, GtkPlaces, Nodes
<1>14. CASE TrayInsert
  <2>1. chatbox[gtk.user] \in Windows /\ gtk.msg \in Msgs
    BY <1>14 DEF TrayInsert, GtkAt, PlacesInv, BoxesInv, TypeOK
  <2>2. shown' \in [Windows -> Seq(Msgs)]
    BY <1>14, <2>1, ShowFacts DEF TrayInsert, Showed
  <2> QED
    BY <1>14, <2>2 DEF TrayInsert, TypeOK, ghosts, GtkThen, GtkState, GtkPlaces
<1>15. CASE TrayTest
  BY <1>15 DEF TrayTest, TypeOK, shared, ghosts, GtkThen, GtkState, GtkPlaces
<1>16. CASE TrayCalm
  BY <1>16 DEF TrayCalm, TypeOK, ghosts, GtkAt, GtkThen, GtkIdle, Links, GtkState, GtkPlaces,
     Nodes
<1>17. CASE TrayFree
  BY <1>17 DEF TrayFree, TypeOK, PlacesInv, ghosts, GtkAt, GtkIdle, GtkState, GtkPlaces, Nodes
<1>18. ASSUME NEW u \in Users, DoubleClick(u) PROVE TypeOK'
  <2>1. u \in Users /\ None \in Msgs \cup {None}
    BY <1>18 DEF DoubleClick
  <2>2. Entered(u, None) /\ Enter(u, None)
    BY <1>18, EnterFacts DEF DoubleClick
  <2>3. opened' \in Seq(Window) /\ Len(opened') <= MaxWindows /\ chatbox' \in [Users -> Windows \cup {None}]
    BY <2>2 DEF Entered, Windows
  <2> QED
    BY <2>2, <2>3 DEF Enter, TypeOK, GtkIdle, GtkState, GtkPlaces, Nodes
<1>19. ASSUME NEW u \in Users, Close(u) PROVE TypeOK'
  BY <1>19 DEF Close, TypeOK, ghosts
<1>20. CASE UNCHANGED vars
  BY <1>20 DEF vars, TypeOK, shared, ghosts
<1> QED
  BY <1>1, <1>2, <1>3, <1>4, <1>5, <1>6, <1>7, <1>8, <1>9, <1>10, <1>11, <1>12, <1>13, <1>14,
     <1>15, <1>16, <1>17, <1>18, <1>19, <1>20 DEF Next

(* A thread that is between two steps has a message.                        *)
LEMMA PlacesStep ==
  ASSUME TypeOK, PlacesInv, BoxesInv, OrderInv, FatesInv, ChainInv, [Next]_vars
  PROVE  PlacesInv'
<1>1. CASE Receive
  <2>1. loop.msg + 1 \in Msgs
    BY <1>1, BoundAssumption DEF Receive, TypeOK, LoopState, Msgs
  <2>2. chatbox[from[loop.msg + 1]] \in Windows \cup {None}
    BY <2>1 DEF TypeOK
  <2> QED
    BY <1>1, <2>1, <2>2 DEF Receive, PlacesInv, shared
<1>2. CASE AppendRead
  BY <1>2 DEF AppendRead, PlacesInv, shared, LoopAt
<1>3. CASE AppendBack
  BY <1>3 DEF AppendBack, PlacesInv, LoopAt, LoopThen
<1>4. CASE AppendForward
  <2>1. Grown
    BY <1>4, GrowFacts
  <2> QED
    BY <1>4, <2>1 DEF AppendForward, Grown, PlacesInv, LoopThen
<1>5. CASE Alert
  BY <1>5 DEF Alert, PlacesInv, LoopReturns, LoopIdle
<1>6. CASE Show
  BY <1>6 DEF Show, PlacesInv, LoopReturns, LoopIdle
<1>7. CASE TrayNothing
  BY <1>7 DEF TrayNothing, PlacesInv, Unlinking, GtkThen
<1>8. CASE TrayTake
  <2>1. links.next[MList] \in ToSet(unread) /\ links.prev[links.next[MList]] = MList
    BY <1>8 DEF TrayTake, GtkAt, ChainInv, Chain, Unlinking
  <2>2. links.next[MList] \in Msgs
    BY <1>8 DEF TrayTake, TypeOK, Links, Nodes
  <2> QED
    BY <1>8, <2>1, <2>2 DEF TrayTake, PlacesInv, shared
<1>9. CASE TrayJoinBack
  BY <1>9 DEF TrayJoinBack, PlacesInv, Unlinking, GtkAt, GtkThen
<1>10. CASE TrayUnlink
  BY <1>10 DEF TrayUnlink, PlacesInv, Unlinking, GtkAt
<1>11. CASE TrayPresent
  BY <1>11 DEF TrayPresent, PlacesInv, Unlinking, GtkAt, GtkThen
<1>12. CASE TrayNew
  BY <1>12 DEF TrayNew, PlacesInv, Enter, Unlinking
<1>13. CASE InitChatbox
  BY <1>13 DEF InitChatbox, TypeOK, PlacesInv, GtkState, Unlinking, GtkThen, GtkIdle
<1>14. CASE TrayInsert
  BY <1>14 DEF TrayInsert, PlacesInv, Unlinking, GtkAt, GtkThen
<1>15. CASE TrayTest
  BY <1>15 DEF TrayTest, PlacesInv, Unlinking, GtkAt, GtkThen
<1>16. CASE TrayCalm
  BY <1>16 DEF TrayCalm, TypeOK, PlacesInv, GtkState, Unlinking, GtkThen, GtkIdle
<1>17. CASE TrayFree
  BY <1>17 DEF TrayFree, PlacesInv, Unlinking, GtkIdle
<1>18. ASSUME NEW u \in Users, DoubleClick(u) PROVE PlacesInv'
  BY <1>18 DEF DoubleClick, PlacesInv, Enter, Unlinking
<1>19. ASSUME NEW u \in Users, Close(u) PROVE PlacesInv'
  BY <1>19 DEF Close, PlacesInv
<1>20. CASE UNCHANGED vars
  BY <1>20 DEF vars, PlacesInv, shared
<1> QED
  BY <1>1, <1>2, <1>3, <1>4, <1>5, <1>6, <1>7, <1>8, <1>9, <1>10, <1>11, <1>12, <1>13, <1>14,
     <1>15, <1>16, <1>17, <1>18, <1>19, <1>20 DEF Next

(* chatbox leads to a window of that user, as pchatbox_close takes it out.  *)
LEMMA BoxesStep ==
  ASSUME TypeOK, PlacesInv, BoxesInv, OrderInv, FatesInv, ChainInv, [Next]_vars
  PROVE  BoxesInv'
<1>1. CASE Receive
  BY <1>1 DEF Receive, BoxesInv, shared, ghosts
<1>2. CASE AppendRead
  BY <1>2 DEF AppendRead, BoxesInv, shared
<1>3. CASE AppendBack
  BY <1>3 DEF AppendBack, BoxesInv, ghosts
<1>4. CASE AppendForward
  BY <1>4 DEF AppendForward, BoxesInv, ghosts
<1>5. CASE Alert
  BY <1>5 DEF Alert, BoxesInv
<1>6. CASE Show
  BY <1>6 DEF Show, BoxesInv, ghosts
<1>7. CASE TrayNothing
  BY <1>7 DEF TrayNothing, BoxesInv, shared, ghosts, GtkThen
<1>8. CASE TrayTake
  BY <1>8 DEF TrayTake, BoxesInv, shared
<1>9. CASE TrayJoinBack
  BY <1>9 DEF TrayJoinBack, BoxesInv, ghosts, GtkThen
<1>10. CASE TrayUnlink
  BY <1>10 DEF TrayUnlink, BoxesInv, ghosts
<1>11. CASE TrayPresent
  BY <1>11 DEF TrayPresent, BoxesInv, shared, GtkThen
<1>12. CASE TrayNew
  <2>1. from[gtk.msg] \in Users /\ gtk.msg \in Msgs
    BY <1>12 DEF TrayNew, GtkAt, PlacesInv, TypeOK
  <2>2. Entered(from[gtk.msg], gtk.msg)
    BY <1>12, <2>1, EnterFacts DEF TrayNew
  <2>3. DOMAIN opened' = 1 .. Len(opened') /\ DOMAIN opened = 1 .. Len(opened) /\ Len(opened) \in Nat
    BY DEF TypeOK
  <2>4. Len(opened) + 1 # None
    BY <2>2, NoneAssumption DEF Entered
  <2>5. gtk'.at = "init" /\ gtk'.user = from[gtk.msg] /\ gtk'.msg = gtk.msg
    BY <1>12 DEF TrayNew, Enter
  <2> QED
    BY <2>1, <2>2, <2>4, <2>5 DEF BoxesInv, Entered
<1>13. CASE InitChatbox
  BY <1>13 DEF InitChatbox, BoxesInv, ghosts, GtkAt, GtkThen, GtkIdle
<1>14. CASE TrayInsert
  BY <1>14 DEF TrayInsert, BoxesInv, ghosts, GtkThen
<1>15. CASE TrayTest
  BY <1>15 DEF TrayTest, BoxesInv, shared, ghosts, GtkThen
<1>16. CASE TrayCalm
  BY <1>16 DEF TrayCalm, BoxesInv, ghosts, GtkThen, GtkIdle
<1>17. CASE TrayFree
  BY <1>17 DEF TrayFree, BoxesInv, ghosts, GtkIdle
<1>18. ASSUME NEW u \in Users, DoubleClick(u) PROVE BoxesInv'
  <2>1. u \in Users /\ None \in Msgs \cup {None}
    OBVIOUS
  <2>2. Entered(u, None)
    BY <1>18, EnterFacts DEF DoubleClick
  <2>3. DOMAIN opened' = 1 .. Len(opened') /\ DOMAIN opened = 1 .. Len(opened) /\ Len(opened) \in Nat
    BY DEF TypeOK
  <2>4. Len(opened) + 1 # None
    BY <2>2, NoneAssumption DEF Entered
  <2>5. gtk'.at = "init" /\ gtk'.user = u /\ gtk'.msg = None
    BY <1>18 DEF DoubleClick, Enter
  <2> QED
    BY <2>2, <2>4, <2>5 DEF BoxesInv, Entered
<1>19. ASSUME NEW u \in Users, Close(u) PROVE BoxesInv'
  BY <1>19 DEF Close, BoxesInv, ghosts, GtkAt
<1>20. CASE UNCHANGED vars
  BY <1>20 DEF vars, BoxesInv, shared, ghosts
<1> QED
  BY <1>1, <1>2, <1>3, <1>4, <1>5, <1>6, <1>7, <1>8, <1>9, <1>10, <1>11, <1>12, <1>13, <1>14,
     <1>15, <1>16, <1>17, <1>18, <1>19, <1>20 DEF Next

(* The list is in the order in which the messages came.                     *)
LEMMA OrderStep ==
  ASSUME TypeOK, PlacesInv, BoxesInv, OrderInv, FatesInv, ChainInv, [Next]_vars
  PROVE  OrderInv'
<1>1. CASE Receive
  BY <1>1 DEF Receive, OrderInv, shared
<1>2. CASE AppendRead
  BY <1>2 DEF AppendRead, OrderInv, shared
<1>3. CASE AppendBack
  BY <1>3 DEF AppendBack, OrderInv
<1>4. CASE AppendForward
  <2>1. Grown
    BY <1>4, GrowFacts
  <2>2. DOMAIN unread' = 1 .. Len(unread) + 1 /\ DOMAIN unread = 1 .. Len(unread) /\ Len(unread) \in Nat
    BY <2>1 DEF Grown
  <2>3. ASSUME NEW i \in DOMAIN unread PROVE unread[i] < loop.msg
    <3>1. unread[i] \in ToSet(unread) /\ unread[i] \in Msgs
      BY DEF ToSet, TypeOK
    <3>2. unread[i] \in Arrived /\ loop.msg \in New
      BY <1>4, <3>1 DEF FatesInv, Somewhere, AppendForward, LoopAt, New, Appending
    <3> QED
      BY <3>2 DEF Arrived, TypeOK, LoopState
  <2> QED
    BY <2>1, <2>3 DEF OrderInv, Grown
<1>5. CASE Alert
  BY <1>5 DEF Alert, OrderInv
<1>6. CASE Show
  BY <1>6 DEF Show, OrderInv
<1>7. CASE TrayNothing
  BY <1>7 DEF TrayNothing, OrderInv, shared
<1>8. CASE TrayTake
  BY <1>8 DEF TrayTake, OrderInv, shared
<1>9. CASE TrayJoinBack
  BY <1>9 DEF TrayJoinBack, OrderInv
<1>10. CASE TrayUnlink
  <2>1. PICK k \in 1 .. Len(unread) : Shrunk(k)
    BY <1>10, ShrinkFacts
  <2>2. DOMAIN unread' = 1 .. Len(unread) - 1 /\ DOMAIN unread = 1 .. Len(unread) /\ Len(unread) \in Nat
    BY <2>1 DEF Shrunk
  <2>3. \A i \in 1 .. Len(unread) - 1 : \E a \in 1 .. Len(unread) :
          unread'[i] = unread[a] /\ a = IF i < k THEN i ELSE i + 1
    BY <2>1 DEF Shrunk
  <2>4. SUFFICES ASSUME NEW i \in 1 .. Len(unread) - 1, NEW j \in 1 .. Len(unread) - 1, i < j
        PROVE  unread'[i] < unread'[j]
    BY <2>2 DEF OrderInv
  <2>5. PICK a \in 1 .. Len(unread) : unread'[i] = unread[a] /\ a = IF i < k THEN i ELSE i + 1
    BY <2>3
  <2>6. PICK b \in 1 .. Len(unread) : unread'[j] = unread[b] /\ b = IF j < k THEN j ELSE j + 1
    BY <2>3
  <2>7. a < b
    BY <2>4, <2>5, <2>6
  <2> QED
    BY <2>5, <2>6, <2>7 DEF OrderInv
<1>11. CASE TrayPresent
  BY <1>11 DEF TrayPresent, OrderInv, shared
<1>12. CASE TrayNew
  BY <1>12 DEF TrayNew, OrderInv, Enter
<1>13. CASE InitChatbox
  BY <1>13 DEF InitChatbox, OrderInv
<1>14. CASE TrayInsert
  BY <1>14 DEF TrayInsert, OrderInv
<1>15. CASE TrayTest
  BY <1>15 DEF TrayTest, OrderInv, shared
<1>16. CASE TrayCalm
  BY <1>16 DEF TrayCalm, OrderInv
<1>17. CASE TrayFree
  BY <1>17 DEF TrayFree, OrderInv
<1>18. ASSUME NEW u \in Users, DoubleClick(u) PROVE OrderInv'
  BY <1>18 DEF DoubleClick, OrderInv, Enter
<1>19. ASSUME NEW u \in Users, Close(u) PROVE OrderInv'
  BY <1>19 DEF Close, OrderInv
<1>20. CASE UNCHANGED vars
  BY <1>20 DEF vars, OrderInv, shared
<1> QED
  BY <1>1, <1>2, <1>3, <1>4, <1>5, <1>6, <1>7, <1>8, <1>9, <1>10, <1>11, <1>12, <1>13, <1>14,
     <1>15, <1>16, <1>17, <1>18, <1>19, <1>20 DEF Next

(* Nothing happens to any message.                                          *)
Same ==
  \A m \in Msgs :
    /\ m \in ToSet(unread)' <=> m \in ToSet(unread)
    /\ \A w \in Windows : m \in ToSet(shown'[w]) <=> m \in ToSet(shown[w])
    /\ m \in dropped' <=> m \in dropped
    /\ m \in Taken' <=> m \in Taken
    /\ m \in Arrived' <=> m \in Arrived
    /\ Running' => Running

(* A step that moves no message leaves all as it was.                       *)
LEMMA SameFates == ASSUME FatesInv, Same PROVE FatesInv'
<1>1. SUFFICES ASSUME NEW m \in Msgs
      PROVE  (Fates(m) /\ (Somewhere(m) => m \in Arrived) /\ (Running /\ m \in Arrived => Somewhere(m)))'
  BY DEF FatesInv
<1>2. Fates(m) /\ (Somewhere(m) => m \in Arrived) /\ (Running /\ m \in Arrived => Somewhere(m))
  BY DEF FatesInv
<1>3. Displayed(m)' <=> Displayed(m)
  BY DEF Same, Displayed
<1>4. Fates(m)'
  BY <1>2, <1>3 DEF Fates, Same
<1> QED
  BY <1>2, <1>3, <1>4 DEF Somewhere, Same

(* A message is in one place only, and only if it has come.                 *)
LEMMA FatesStep ==
  ASSUME TypeOK, PlacesInv, BoxesInv, OrderInv, FatesInv, ChainInv, [Next]_vars
  PROVE  FatesInv'
<1>1. CASE Receive
  <2>1. Arrived' = Arrived
    BY <1>1 DEF Receive, Arrived, New, Appending, TypeOK, LoopState, LoopAt
  <2>2. Same
    BY <1>1, <2>1 DEF Receive, Same, Taken, Running, shared, ghosts
  <2> QED
    BY <2>2, SameFates
<1>2. CASE AppendRead
  <2>1. Same
    BY <1>2 DEF AppendRead, Same, Taken, Arrived, New, Appending, shared, LoopAt
  <2> QED
    BY <2>1, SameFates
<1>3. CASE AppendBack
  <2>1. Same
    BY <1>3 DEF AppendBack, Same, Taken, Arrived, New, Appending, ghosts, LoopAt, LoopThen
  <2> QED
    BY <2>1, SameFates
<1>4. CASE AppendForward
  <2> SUFFICES ASSUME NEW m \in Msgs
        PROVE  (Fates(m) /\ (Somewhere(m) => m \in Arrived) /\ (Running /\ m \in Arrived => Somewhere(m)))'
    BY DEF FatesInv
  <2>1. Grown
    BY <1>4, GrowFacts
  <2>2. Arrived' = Arrived \cup {loop.msg} /\ loop.msg \notin Arrived
    BY <1>4 DEF AppendForward, LoopAt, LoopThen, Arrived, New, Appending, PlacesInv, Msgs
  <2>3. Fates(m) /\ (Somewhere(m) => m \in Arrived) /\ (Running /\ m \in Arrived => Somewhere(m))
    BY DEF FatesInv
  <2>4. /\ shown' = shown /\ dropped' = dropped /\ Taken' = Taken /\ ToSet(unread)' = ToSet(unread) \cup {loop.msg}
        /\ Running
    BY <1>4, <2>1 DEF AppendForward, LoopAt, Taken, Grown, ghosts
  <2>5. Displayed(m)' <=> Displayed(m)
    BY <2>4 DEF Displayed
  <2> HIDE DEF Taken, Running
  <2> QED
    BY <2>2, <2>3, <2>4, <2>5 DEF Fates, Somewhere
<1>5. CASE Alert
  <2>1. Same
    BY <1>5 DEF Alert, Same, Taken, Arrived, New, Appending, LoopAt, LoopReturns, LoopIdle
  <2> QED
    BY <2>1, SameFates
<1>6. CASE Show
  <2> SUFFICES ASSUME NEW m \in Msgs
        PROVE  (Fates(m) /\ (Somewhere(m) => m \in Arrived) /\ (Running /\ m \in Arrived => Somewhere(m)))'
    BY DEF FatesInv
  <2>1. loop.box \in Windows /\ loop.msg \in Msgs /\ Running
    BY <1>6 DEF Show, LoopAt, PlacesInv
  <2>2. Arrived' = Arrived \cup {loop.msg} /\ loop.msg \notin Arrived
    BY <1>6, <2>1 DEF Show, LoopAt, LoopReturns, LoopIdle, Arrived, New, Appending, Msgs
  <2>3. Fates(m) /\ (Somewhere(m) => m \in Arrived) /\ (Running /\ m \in Arrived => Somewhere(m))
    BY DEF FatesInv
  <2>4. dropped' = dropped /\ Taken' = Taken /\ ToSet(unread)' = ToSet(unread)
    BY <1>6 DEF Show, Taken, ghosts
  <2>5. CASE shown' = shown /\ ~Running'
    <3>1. Displayed(m)' <=> Displayed(m)
      BY <2>5 DEF Displayed
    <3> QED
      BY <2>2, <2>3, <2>4, <2>5, <3>1 DEF Fates, Somewhere
  <2>6. CASE shown' = [shown EXCEPT ![loop.box] = Append(shown[loop.box], loop.msg)]
    <3>1. Showed(loop.box, loop.msg)
      BY <2>1, <2>6, ShowFacts
    <3>2. \A w \in Windows : ToSet(shown'[w]) = IF w = loop.box THEN ToSet(shown[w]) \cup {loop.msg} ELSE ToSet(shown[w])
      BY <3>1 DEF Showed
    <3>3. Displayed(m)' <=> Displayed(m) \/ m = loop.msg
      BY <2>1, <3>2 DEF Displayed
    <3>4. ~Somewhere(loop.msg)
      BY <2>1, <2>2 DEF FatesInv
    <3> QED
      BY <2>1, <2>2, <2>3, <2>4, <3>2 DEF Fates, Somewhere, Displayed
  <2> QED
    BY <1>6, <2>5, <2>6 DEF Show, Running
<1>7. CASE TrayNothing
  <2>1. Same
    BY <1>7 DEF TrayNothing, Same, Taken, Arrived, New, shared, ghosts, GtkAt, GtkThen
  <2> QED
    BY <2>1, SameFates
<1>8. CASE TrayTake
  <2>1. Same
    BY <1>8 DEF TrayTake, Same, Taken, Arrived, New, shared, GtkAt
  <2> QED
    BY <2>1, SameFates
<1>9. CASE TrayJoinBack
  <2>1. Same
    BY <1>9 DEF TrayJoinBack, Same, Taken, Arrived, New, ghosts, GtkAt, GtkThen
  <2> QED
    BY <2>1, SameFates
<1>10. CASE TrayUnlink
  <2> SUFFICES ASSUME NEW m \in Msgs
        PROVE  (Fates(m) /\ (Somewhere(m) => m \in Arrived) /\ (Running /\ m \in Arrived => Somewhere(m)))'
    BY DEF FatesInv
  <2>1. ToSet(unread)' = ToSet(unread) \ {gtk.msg}
    BY <1>10, ShrinkFacts DEF Shrunk
  <2>2. gtk.msg \in ToSet(unread) /\ Taken = {} /\ Taken' = {gtk.msg}
    BY <1>10 DEF TrayUnlink, GtkAt, PlacesInv, Unlinking, Taken
  <2>3. Fates(m) /\ (Somewhere(m) => m \in Arrived) /\ (Running /\ m \in Arrived => Somewhere(m))
    BY DEF FatesInv
  <2>4. shown' = shown /\ dropped' = dropped /\ loop' = loop /\ Running
    BY <1>10 DEF TrayUnlink, GtkAt, ghosts
  <2>5. (Displayed(m)' <=> Displayed(m)) /\ Arrived' = Arrived
    BY <2>4 DEF Displayed, Arrived, New
  <2> QED
    BY <2>1, <2>2, <2>3, <2>4, <2>5 DEF Fates, Somewhere
<1>11. CASE TrayPresent
  <2> SUFFICES ASSUME NEW m \in Msgs
        PROVE  (Fates(m) /\ (Somewhere(m) => m \in Arrived) /\ (Running /\ m \in Arrived => Somewhere(m)))'
    BY DEF FatesInv
  <2>1. ToSet(unread)' = ToSet(unread) /\ dropped' = dropped \cup {gtk.msg}
    BY <1>11 DEF TrayPresent, shared
  <2>2. Taken = {gtk.msg} /\ Taken' = {}
    BY <1>11 DEF TrayPresent, GtkAt, GtkThen, Taken
  <2>3. Fates(m) /\ (Somewhere(m) => m \in Arrived) /\ (Running /\ m \in Arrived => Somewhere(m))
    BY DEF FatesInv
  <2>4. shown' = shown /\ loop' = loop /\ Running
    BY <1>11 DEF TrayPresent, GtkAt, shared
  <2>5. (Displayed(m)' <=> Displayed(m)) /\ Arrived' = Arrived
    BY <2>4 DEF Displayed, Arrived, New
  <2> QED
    BY <2>1, <2>2, <2>3, <2>4, <2>5 DEF Fates, Somewhere
<1>12. CASE TrayNew
  <2>1. Same
    BY <1>12 DEF TrayNew, Same, Taken, Arrived, New, GtkAt, Enter
  <2> QED
    BY <2>1, SameFates
<1>13. CASE InitChatbox
  <2>1. Same
    BY <1>13, NoneAssumption DEF InitChatbox, Same, Taken, Arrived, New, ghosts, GtkAt, GtkThen,
       GtkIdle
  <2> QED
    BY <2>1, SameFates
<1>14. CASE TrayInsert
  <2> SUFFICES ASSUME NEW m \in Msgs
        PROVE  (Fates(m) /\ (Somewhere(m) => m \in Arrived) /\ (Running /\ m \in Arrived => Somewhere(m)))'
    BY DEF FatesInv
  <2>1. chatbox[gtk.user] \in Windows /\ gtk.msg \in Msgs
    BY <1>14 DEF TrayInsert, GtkAt, PlacesInv, BoxesInv, TypeOK
  <2>2. Taken = {gtk.msg} /\ Taken' = {}
    BY <1>14 DEF TrayInsert, GtkAt, GtkThen, Taken
  <2>3. Fates(m) /\ (Somewhere(m) => m \in Arrived) /\ (Running /\ m \in Arrived => Somewhere(m))
    BY DEF FatesInv
  <2>4. ToSet(unread)' = ToSet(unread) /\ dropped' = dropped /\ loop' = loop /\ Running
    BY <1>14 DEF TrayInsert, GtkAt, ghosts
  <2>5. Showed(chatbox[gtk.user], gtk.msg)
    BY <1>14, <2>1, ShowFacts DEF TrayInsert
  <2>6. \A w \in Windows : ToSet(shown'[w]) = IF w = chatbox[gtk.user] THEN ToSet(shown[w]) \cup {gtk.msg} ELSE ToSet(shown[w])
    BY <2>5 DEF Showed
  <2>7. (Displayed(m)' <=> Displayed(m) \/ m = gtk.msg) /\ Arrived' = Arrived
    BY <2>1, <2>4, <2>6 DEF Displayed, Arrived, New
  <2>8. Fates(gtk.msg)
    BY <2>1 DEF FatesInv
  <2> QED
    BY <2>2, <2>3, <2>4, <2>6, <2>7 DEF Fates, Somewhere, Displayed
<1>15. CASE TrayTest
  <2>1. Same
    BY <1>15 DEF TrayTest, Same, Taken, Arrived, New, shared, ghosts, GtkAt, GtkThen
  <2> QED
    BY <2>1, SameFates
<1>16. CASE TrayCalm
  <2>1. Same
    BY <1>16 DEF TrayCalm, Same, Taken, Arrived, New, ghosts, GtkAt, GtkThen, GtkIdle
  <2> QED
    BY <2>1, SameFates
<1>17. CASE TrayFree
  <2>1. Same
    BY <1>17 DEF TrayFree, Same, Taken, Arrived, New, ghosts, GtkAt, GtkIdle
  <2> QED
    BY <2>1, SameFates
<1>18. ASSUME NEW u \in Users, DoubleClick(u) PROVE FatesInv'
  <2>1. Same
    BY <1>18, NoneAssumption DEF DoubleClick, Same, Taken, Arrived, New, GtkAt, Enter
  <2> QED
    BY <2>1, SameFates
<1>19. ASSUME NEW u \in Users, Close(u) PROVE FatesInv'
  <2>1. Same
    BY <1>19 DEF Close, Same, Taken, Arrived, New, ghosts, GtkAt
  <2> QED
    BY <2>1, SameFates
<1>20. CASE UNCHANGED vars
  <2>1. Same
    BY <1>20 DEF vars, Same, Taken, Arrived, New, Running, shared, ghosts
  <2> QED
    BY <2>1, SameFates
<1> QED
  BY <1>1, <1>2, <1>3, <1>4, <1>5, <1>6, <1>7, <1>8, <1>9, <1>10, <1>11, <1>12, <1>13, <1>14,
     <1>15, <1>16, <1>17, <1>18, <1>19, <1>20 DEF Next

(* Only what was taken off the list is given back.                          *)
LEMMA FreedStep ==
  ASSUME TypeOK, PlacesInv, BoxesInv, OrderInv, FatesInv, ChainInv, FreedInv, [Next]_vars
  PROVE  FreedInv'
<1>1. CASE Receive
  <2>1. Arrived' = Arrived
    BY <1>1 DEF Receive, Arrived, New, Appending, TypeOK, LoopState, LoopAt
  <2> QED
    BY <1>1, <2>1 DEF Receive, FreedInv, Taken, shared
<1>2. CASE AppendRead
  BY <1>2 DEF AppendRead, FreedInv, Taken, Arrived, New, Appending, shared, LoopAt
<1>3. CASE AppendBack
  BY <1>3 DEF AppendBack, FreedInv, Taken, Arrived, New, Appending, LoopAt, LoopThen
<1>4. CASE AppendForward
  <2>1. ToSet(unread)' = ToSet(unread) \cup {loop.msg}
    BY <1>4, GrowFacts DEF Grown
  <2>2. Arrived' = Arrived \cup {loop.msg} /\ loop.msg \notin Arrived
    BY <1>4 DEF AppendForward, LoopAt, LoopThen, Arrived, New, Appending, PlacesInv, Msgs
  <2> QED
    BY <1>4, <2>1, <2>2 DEF AppendForward, FreedInv, Taken
<1>5. CASE Alert
  BY <1>5 DEF Alert, FreedInv, Taken, Arrived, New, Appending, LoopReturns, LoopIdle
<1>6. CASE Show
  <2>1. Arrived' = Arrived \cup {loop.msg} /\ loop.msg \notin Arrived /\ loop.msg \in Msgs
    BY <1>6 DEF Show, LoopAt, LoopReturns, LoopIdle, Arrived, New, Appending, PlacesInv, Msgs
  <2>2. loop.msg \notin ToSet(unread) /\ loop.msg \notin Taken
    BY <2>1 DEF FatesInv, Somewhere
  <2>3. ToSet(unread)' = ToSet(unread) /\ Taken' = Taken /\ gtk' = gtk
    BY <1>6 DEF Show, Taken
  <2>4. freed' \subseteq freed \cup {loop.msg}
    BY <1>6 DEF Show
  <2> QED
    BY <2>1, <2>2, <2>3, <2>4 DEF FreedInv
<1>7. CASE TrayNothing
  BY <1>7, NoneAssumption DEF TrayNothing, FreedInv, Taken, Arrived, New, PlacesInv, shared,
     GtkAt, GtkThen
<1>8. CASE TrayTake
  BY <1>8 DEF TrayTake, FreedInv, Taken, Arrived, New, shared
<1>9. CASE TrayJoinBack
  BY <1>9 DEF TrayJoinBack, FreedInv, Taken, Arrived, New, GtkThen
<1>10. CASE TrayUnlink
  <2>1. ToSet(unread)' = ToSet(unread) \ {gtk.msg}
    BY <1>10, ShrinkFacts DEF Shrunk
  <2>2. gtk.msg \in ToSet(unread) /\ Taken' = {gtk.msg} /\ Arrived' = Arrived
    BY <1>10 DEF TrayUnlink, GtkAt, PlacesInv, Unlinking, Taken, Arrived, New
  <2> QED
    BY <1>10, <2>1, <2>2 DEF TrayUnlink, FreedInv
<1>11. CASE TrayPresent
  <2>1. gtk.msg \in Msgs /\ Taken = {gtk.msg} /\ Taken' = {}
    BY <1>11 DEF TrayPresent, GtkAt, GtkThen, Taken, PlacesInv
  <2>2. gtk.msg \in Arrived /\ gtk.msg \notin ToSet(unread)
    BY <2>1 DEF FatesInv, Fates, Somewhere
  <2>3. gtk'.msg = gtk.msg /\ Arrived' = Arrived
    BY <1>11 DEF TrayPresent, GtkThen, Arrived, New
  <2> QED
    BY <1>11, <2>1, <2>2, <2>3 DEF TrayPresent, FreedInv, shared
<1>12. CASE TrayNew
  BY <1>12 DEF TrayNew, FreedInv, Taken, Arrived, New, GtkAt, Enter
<1>13. CASE InitChatbox
  BY <1>13 DEF InitChatbox, FreedInv, Taken, Arrived, New, GtkAt, GtkThen, GtkIdle
<1>14. CASE TrayInsert
  <2>1. gtk.msg \in Msgs /\ Taken = {gtk.msg} /\ Taken' = {}
    BY <1>14 DEF TrayInsert, GtkAt, GtkThen, Taken, PlacesInv
  <2>2. gtk.msg \in Arrived /\ gtk.msg \notin ToSet(unread)
    BY <2>1 DEF FatesInv, Fates, Somewhere
  <2>3. gtk'.msg = gtk.msg /\ Arrived' = Arrived
    BY <1>14 DEF TrayInsert, GtkThen, Arrived, New
  <2> QED
    BY <1>14, <2>1, <2>2, <2>3 DEF TrayInsert, FreedInv
<1>15. CASE TrayTest
  BY <1>15 DEF TrayTest, FreedInv, Taken, Arrived, New, shared, GtkAt, GtkThen
<1>16. CASE TrayCalm
  BY <1>16 DEF TrayCalm, FreedInv, Taken, Arrived, New, GtkAt, GtkThen, GtkIdle
<1>17. CASE TrayFree
  BY <1>17 DEF TrayFree, FreedInv, Taken, Arrived, New, PlacesInv, GtkAt, GtkIdle
<1>18. ASSUME NEW u \in Users, DoubleClick(u) PROVE FreedInv'
  BY <1>18, NoneAssumption DEF DoubleClick, Enter, FreedInv, Taken, Arrived, New, TypeOK
<1>19. ASSUME NEW u \in Users, Close(u) PROVE FreedInv'
  BY <1>19 DEF Close, FreedInv, Taken, Arrived, New
<1>20. CASE UNCHANGED vars
  BY <1>20 DEF vars, FreedInv, Taken, Arrived, New, shared
<1> QED
  BY <1>1, <1>2, <1>3, <1>4, <1>5, <1>6, <1>7, <1>8, <1>9, <1>10, <1>11, <1>12, <1>13, <1>14,
     <1>15, <1>16, <1>17, <1>18, <1>19, <1>20 DEF Next

(* What is on the list has come, and the message loop does not have it.     *)
LEMMA UnreadFacts ==
  ASSUME TypeOK, FatesInv
  PROVE  /\ ToSet(unread) \subseteq Msgs /\ MList \notin ToSet(unread)
         /\ \A m \in ToSet(unread) : m <= loop.msg /\ m \notin New
         /\ \A m \in New : m \notin ToSet(unread)
<1>1. ToSet(unread) \subseteq Msgs
  BY DEF TypeOK, ToSet
<1>2. \A m \in ToSet(unread) : m \in Arrived
  BY <1>1 DEF FatesInv, Somewhere
<1> QED
  BY <1>1, <1>2 DEF Arrived, MList, Msgs, TypeOK, LoopState

(* Numbers of nodes can be compared.                                        *)
LEMMA NodeFacts ==
  ASSUME TypeOK
  PROVE  /\ Nodes \subseteq Nat /\ MList \in Nodes /\ Msgs \subseteq Nodes /\ MList \notin Msgs
         /\ links.next \in [Nodes -> Nodes] /\ links.prev \in [Nodes -> Nodes]
         /\ loop.tail \in Nodes /\ loop.msg \in Nat
         /\ gtk.prev \in Nodes /\ gtk.next \in Nodes
BY BoundAssumption DEF TypeOK, Nodes, Msgs, MList, Links, LoopState, GtkState

(* The way from the head leads forward, through messages of the list.       *)
LEMMA ChainStep ==
  ASSUME TypeOK, PlacesInv, BoxesInv, OrderInv, FatesInv, ChainInv, FreedInv, [Next]_vars
  PROVE  ChainInv'
<1>1. CASE Receive
  <2>1. links.prev[MList] < loop'.msg /\ loop'.at \notin {"link", "finish"}
    BY <1>1, NodeFacts DEF Receive, ChainInv
  <2>2. links.prev[MList] <= loop'.msg
    BY <2>1, NodeFacts, <1>1 DEF Receive
  <2> QED
    BY <1>1, <2>1, <2>2 DEF Receive, shared, ChainInv, Chain
<1>2. CASE AppendRead
  BY <1>2 DEF AppendRead, ChainInv, Chain, shared, LoopAt
<1>3. CASE AppendBack
  <2>1. /\ loop.msg \in Msgs /\ loop.msg \notin ToSet(unread) /\ loop.at = "link"
        /\ loop.tail < loop.msg
    BY <1>3, UnreadFacts DEF AppendBack, LoopAt, New, Appending, PlacesInv, ChainInv
  <2>2. /\ links'.next[loop.msg] = MList /\ \A x \in Nodes \ {loop.msg} : links'.next[x] = links.next[x]
        /\ links'.prev[MList] = loop.msg /\ links'.prev[loop.msg] = loop.tail
        /\ \A x \in Nodes \ {MList, loop.msg} : links'.prev[x] = links.prev[x]
    BY <1>3, <2>1, NodeFacts DEF AppendBack
  <2>3. /\ unread' = unread /\ gtk' = gtk /\ undefined' = undefined
        /\ loop'.at = "finish" /\ loop'.msg = loop.msg /\ loop'.tail = loop.tail
    BY <1>3 DEF AppendBack, LoopThen
  <2>4. links'.next[MList] = links.next[MList]
    BY <2>1, <2>2, NodeFacts
  <2>5. \A t \in Nodes : Chain(t) => Chain(t)'
    BY <2>2, <2>3, UnreadFacts, NodeFacts DEF Chain
  <2>6. \A t \in Nodes : Chain(t) /\ t # MList => links'.prev[t] = links.prev[t]
    BY <2>1, <2>2 DEF Chain
  <2>7. Chain(links.next[MList])' /\ (gtk.at \in Unlinking => Chain(gtk.next)')
    BY <2>3, <2>4, <2>5, NodeFacts DEF ChainInv
  <2>8. links.next[MList] # MList =>
          links'.prev[links.next[MList]] = MList \/ gtk.at \in Unlinking
    BY <2>6, NodeFacts DEF ChainInv
  <2>9. gtk.at = "unlink" /\ gtk.next # MList => links'.prev[gtk.next] = MList
    BY <2>6, NodeFacts DEF ChainInv, Unlinking
  <2> QED
    BY <2>1, <2>2, <2>3, <2>7, <2>8, <2>9, NodeFacts DEF ChainInv
<1>4. CASE AppendForward
  <2>1. /\ loop.msg \in Msgs /\ loop.at = "finish" /\ loop.tail < loop.msg
        /\ links.next[loop.msg] = MList /\ links.prev[loop.msg] = loop.tail
        /\ \A m \in ToSet(unread) : m < loop.msg
    BY <1>4, UnreadFacts, NodeFacts DEF AppendForward, LoopAt, New, Appending, PlacesInv,
       ChainInv
  <2>2. /\ links'.next[loop.tail] = loop.msg /\ \A x \in Nodes \ {loop.tail} : links'.next[x] = links.next[x]
        /\ links'.prev = links.prev
    BY <1>4, NodeFacts DEF AppendForward
  <2>3. /\ ToSet(unread)' = ToSet(unread) \cup {loop.msg}
        /\ gtk' = gtk /\ loop'.at = "alert" /\ loop'.msg = loop.msg /\ undefined' # "freed_message"
    BY <1>4, GrowFacts DEF AppendForward, LoopThen, LoopAt, Running, Grown
  <2>4. loop.msg # loop.tail
    BY <2>1, NodeFacts
  <2>5. \A t \in Nodes : Chain(t) => Chain(t)'
    <3>1. SUFFICES ASSUME NEW t \in Nodes, Chain(t), t # MList,
                          NEW x \in ToSet(unread)', x >= t, links'.next[x] # MList
          PROVE  links'.next[x] > x /\ links'.next[x] \in ToSet(unread)'
      BY <2>3 DEF Chain
    <3>2. x \in ToSet(unread) \/ x = loop.msg
      BY <2>3
    <3>3. CASE x = loop.tail
      BY <2>1, <2>2, <2>3, <3>3
    <3>4. CASE x # loop.tail /\ x \in ToSet(unread)
      BY <2>2, <2>3, <3>1, <3>4, UnreadFacts, NodeFacts DEF Chain
    <3>5. CASE x # loop.tail /\ x = loop.msg
      BY <2>1, <2>2, <3>1, <3>5, NodeFacts
    <3> QED
      BY <3>2, <3>3, <3>4, <3>5
  <2>6. Chain(loop.msg)'
    <3>1. \A x \in ToSet(unread)' : x >= loop.msg => x = loop.msg
      BY <2>3, UnreadFacts, NodeFacts
    <3>2. links'.next[loop.msg] = MList
      BY <2>1, <2>2, NodeFacts
    <3> QED
      BY <2>3, <3>1, <3>2 DEF Chain
  <2>7. CASE loop.tail = MList
    BY <2>1, <2>2, <2>3, <2>5, <2>6, NodeFacts DEF ChainInv
  <2>8. CASE loop.tail # MList
    BY <2>2, <2>3, <2>5, <2>8, NodeFacts DEF ChainInv
  <2> QED
    BY <2>7, <2>8
<1>5. CASE Alert
  BY <1>5 DEF Alert, ChainInv, Chain, LoopReturns, LoopIdle
<1>6. CASE Show
  BY <1>6 DEF Show, ChainInv, Chain, LoopReturns, LoopIdle
<1>7. CASE TrayNothing
  BY <1>7 DEF TrayNothing, ChainInv, Chain, Unlinking, shared, GtkThen
<1>8. CASE TrayTake
  <2> DEFINE m == links.next[MList]
  <2>1. m \in ToSet(unread) /\ Chain(m) /\ m # MList
    BY <1>8 DEF TrayTake, ChainInv, Chain
  <2>2. /\ links' = links /\ unread' = unread /\ loop' = loop /\ undefined' = undefined
        /\ gtk'.at = "join" /\ gtk'.msg = m /\ gtk'.next = links.next[m]
    BY <1>8, <2>1 DEF TrayTake, shared, FreedInv
  <2>3. m \in Nodes /\ links.next[m] \in Nodes /\ m >= m
    BY NodeFacts
  <2>4. links.next[m] # MList => links.next[m] > m /\ links.next[m] \in ToSet(unread)
    BY <2>1, <2>3 DEF Chain
  <2>5. Chain(links.next[m])
    BY <2>1, UnreadFacts, NodeFacts DEF Chain
  <2>6. \A t \in Nodes : Chain(t) => Chain(t)'
    BY <2>2 DEF Chain
  <2> QED
    BY <2>1, <2>2, <2>3, <2>4, <2>5, <2>6 DEF ChainInv, Unlinking
<1>9. CASE TrayJoinBack
  <2>1. gtk.at = "join" /\ gtk.prev = MList /\ Chain(gtk.next)
    BY <1>9 DEF TrayJoinBack, GtkAt, PlacesInv, ChainInv, Unlinking
  <2>2. /\ links'.next = links.next /\ links'.prev[gtk.next] = MList
        /\ \A x \in Nodes \ {gtk.next} : links'.prev[x] = links.prev[x]
    BY <1>9, <2>1, NodeFacts DEF TrayJoinBack
  <2>3. /\ unread' = unread /\ loop' = loop /\ undefined' = undefined
        /\ gtk'.at = "unlink" /\ gtk'.msg = gtk.msg /\ gtk'.next = gtk.next
    BY <1>9 DEF TrayJoinBack, GtkThen
  <2>4. \A t \in Nodes : Chain(t) => Chain(t)'
    BY <2>2, <2>3 DEF Chain
  <2>5. loop.at = "finish" => loop.msg \in Msgs /\ gtk.next # loop.msg
    BY <2>1, UnreadFacts, NodeFacts DEF PlacesInv, New, Appending, Chain
  <2>6. links'.prev[MList] = links.prev[MList] \/ links'.prev[MList] = 0
    BY <2>2, NodeFacts DEF MList
  <2>7. loop.at \in {"append", "link"} => 0 < loop.msg
    BY DEF PlacesInv, Msgs
  <2> QED
    BY <2>1, <2>2, <2>3, <2>4, <2>5, <2>6, NodeFacts DEF ChainInv, Unlinking
<1>10. CASE TrayUnlink
  <2>1. /\ gtk.at = "unlink" /\ gtk.prev = MList /\ Chain(gtk.next) /\ gtk.msg \in ToSet(unread)
        /\ gtk.next # MList => gtk.next > gtk.msg /\ links.prev[gtk.next] = MList
    BY <1>10 DEF TrayUnlink, GtkAt, PlacesInv, ChainInv, Unlinking
  <2>2. gtk.msg \in Msgs /\ gtk.msg \in Nodes /\ gtk.msg # MList
    BY <2>1, UnreadFacts, NodeFacts
  <2>3. /\ links'.next[MList] = gtk.next /\ links'.prev[gtk.msg] = gtk.msg
        /\ \A x \in Nodes \ {MList, gtk.msg} : links'.next[x] = links.next[x]
        /\ \A x \in Nodes \ {gtk.msg} : links'.prev[x] = links.prev[x]
    BY <1>10, <2>1, <2>2, NodeFacts DEF TrayUnlink
  <2>4. /\ ToSet(unread)' = ToSet(unread) \ {gtk.msg}
        /\ loop' = loop /\ undefined' = undefined /\ gtk'.at = "present"
    BY <1>10, ShrinkFacts DEF TrayUnlink, Shrunk
  <2>5. \A t \in Nodes : t = gtk.next => Chain(t)'
    <3>1. SUFFICES ASSUME NEW t \in Nodes, t = gtk.next, t # MList
          PROVE  /\ t \in ToSet(unread)'
                 /\ \A x \in ToSet(unread)' : x >= t /\ links'.next[x] # MList =>
                      links'.next[x] > x /\ links'.next[x] \in ToSet(unread)'
      BY DEF Chain
    <3>2. t \in ToSet(unread) /\ t > gtk.msg
      BY <2>1, <3>1 DEF Chain
    <3>3. ASSUME NEW x \in ToSet(unread)', x >= t, links'.next[x] # MList
          PROVE  links'.next[x] > x /\ links'.next[x] \in ToSet(unread)'
      <4>1. x \in ToSet(unread) /\ x \in Nodes \ {MList, gtk.msg} /\ links'.next[x] = links.next[x]
        BY <2>3, <2>4, UnreadFacts, NodeFacts
      <4>2. links.next[x] > x /\ links.next[x] \in ToSet(unread)
        BY <2>1, <3>1, <3>3, <4>1 DEF Chain
      <4>3. links.next[x] # gtk.msg
        BY <3>2, <3>3, <4>1, <4>2, NodeFacts
      <4> QED
        BY <2>4, <4>1, <4>2, <4>3
    <3> QED
      BY <2>4, <3>2, <3>3, NodeFacts
  <2>6. gtk.next # MList => links'.prev[gtk.next] = MList
    BY <2>1, <2>3, NodeFacts
  <2>7. loop.at = "finish" => loop.msg \in Msgs /\ gtk.msg # loop.msg
    BY <2>1, UnreadFacts DEF PlacesInv, New, Appending
  <2>8. links'.prev[MList] = links.prev[MList]
    BY <2>2, <2>3, NodeFacts
  <2>9. Chain(links.next[MList])'
    BY <2>3, <2>5, NodeFacts
  <2>10. loop.at = "finish" => links'.next[loop.msg] = MList /\ links'.prev[loop.msg] = loop.tail
    BY <2>3, <2>7, NodeFacts DEF ChainInv
  <2> QED
    BY <2>3, <2>4, <2>6, <2>8, <2>9, <2>10 DEF ChainInv, Unlinking
<1>11. CASE TrayPresent
  BY <1>11 DEF TrayPresent, ChainInv, Chain, Unlinking, shared, GtkAt, GtkThen
<1>12. CASE TrayNew
  BY <1>12 DEF TrayNew, ChainInv, Chain, Unlinking, GtkAt, Enter
<1>13. CASE InitChatbox
  BY <1>13 DEF InitChatbox, ChainInv, Chain, Unlinking, GtkAt, GtkThen, GtkIdle
<1>14. CASE TrayInsert
  BY <1>14 DEF TrayInsert, ChainInv, Chain, Unlinking, GtkAt, GtkThen
<1>15. CASE TrayTest
  BY <1>15 DEF TrayTest, ChainInv, Chain, Unlinking, shared, GtkAt, GtkThen
<1>16. CASE TrayCalm
  BY <1>16 DEF TrayCalm, ChainInv, Chain, Unlinking, GtkAt, GtkThen, GtkIdle
<1>17. CASE TrayFree
  BY <1>17 DEF TrayFree, ChainInv, Chain, Unlinking, GtkAt, GtkIdle
<1>18. ASSUME NEW u \in Users, DoubleClick(u) PROVE ChainInv'
  BY <1>18 DEF DoubleClick, ChainInv, Chain, Unlinking, GtkAt, Enter
<1>19. ASSUME NEW u \in Users, Close(u) PROVE ChainInv'
  BY <1>19 DEF Close, ChainInv, Chain
<1>20. CASE UNCHANGED vars
  BY <1>20 DEF vars, ChainInv, Chain, shared
<1> QED
  BY <1>1, <1>2, <1>3, <1>4, <1>5, <1>6, <1>7, <1>8, <1>9, <1>10, <1>11, <1>12, <1>13, <1>14,
     <1>15, <1>16, <1>17, <1>18, <1>19, <1>20 DEF Next

(* The nodes of the ring are different ones.                                *)
LEMMA RingFacts ==
  ASSUME TypeOK, OrderInv
  PROVE  /\ Len(unread) \in Nat /\ DOMAIN unread = 1 .. Len(unread)
         /\ \A i \in 1 .. Len(unread) : unread[i] \in Msgs /\ unread[i] \in ToSet(unread)
         /\ \A i, j \in 1 .. Len(unread) : unread[i] = unread[j] => i = j
         /\ \A i \in 0 .. Len(unread) : NodeAt(i) \in Nodes
         /\ \A i, j \in 0 .. Len(unread) : NodeAt(i) = NodeAt(j) => i = j
<1>1. /\ Len(unread) \in Nat /\ DOMAIN unread = 1 .. Len(unread)
      /\ \A i \in 1 .. Len(unread) : unread[i] \in Msgs /\ unread[i] \in ToSet(unread)
  BY DEF TypeOK, ToSet
<1>2. ASSUME NEW i \in 1 .. Len(unread), NEW j \in 1 .. Len(unread), unread[i] = unread[j]
      PROVE  i = j
  <2>1. SUFFICES ASSUME i # j PROVE FALSE
    OBVIOUS
  <2>2. unread[i] < unread[j] \/ unread[j] < unread[i]
    BY <1>1, <2>1 DEF OrderInv
  <2>3. unread[i] \in Nat /\ unread[j] \in Nat
    BY <1>1, NodeFacts
  <2> QED
    BY <1>2, <2>2, <2>3
<1>3. \A i \in 0 .. Len(unread) : i # 0 => i \in 1 .. Len(unread)
  BY <1>1
<1> QED
  BY <1>1, <1>2, <1>3, NodeFacts DEF NodeAt

(* The links are those of the list, up to what a thread has still to write. *)
LEMMA RingStep ==
  ASSUME TypeOK, PlacesInv, BoxesInv, OrderInv, FatesInv, ChainInv, FreedInv, RingInv, [Next]_vars
  PROVE  RingInv'
<1>1. CASE Receive
  BY <1>1 DEF Receive, RingInv, NodeAt, LastNode, shared, ghosts, LoopAt
<1>2. CASE AppendRead
  <2>1. /\ links' = links /\ unread' = unread /\ gtk' = gtk /\ undefined' = undefined
        /\ loop.at = "append" /\ loop'.at = "link" /\ loop'.tail = links.prev[MList]
    BY <1>2 DEF AppendRead, LoopAt, shared
  <2>2. ~overlapped' => ~overlapped /\ ~(gtk.at \in Unlinking /\ gtk.next = MList)
    BY <1>2 DEF AppendRead, TakesLast, Unlinking
  <2> QED
    BY <2>1, <2>2 DEF RingInv, NodeAt, LastNode, Unlinking
<1>3. CASE AppendBack
  <2>1. loop.msg \in Msgs /\ loop.msg \notin ToSet(unread) /\ loop.at = "link"
    BY <1>3, UnreadFacts DEF AppendBack, LoopAt, New, Appending, PlacesInv
  <2>2. /\ links'.next[loop.msg] = MList /\ \A x \in Nodes \ {loop.msg} : links'.next[x] = links.next[x]
        /\ links'.prev[MList] = loop.msg
        /\ \A x \in Nodes \ {MList, loop.msg} : links'.prev[x] = links.prev[x]
    BY <1>3, <2>1, NodeFacts DEF AppendBack
  <2>3. /\ unread' = unread /\ gtk' = gtk /\ undefined' = undefined /\ overlapped' = overlapped
        /\ loop'.at = "finish" /\ loop'.msg = loop.msg /\ loop'.tail = loop.tail
    BY <1>3 DEF AppendBack, LoopThen, ghosts
  <2>4. \A i \in 0 .. Len(unread) : NodeAt(i) \in Nodes /\ NodeAt(i) # loop.msg
    BY <2>1, RingFacts, NodeFacts DEF NodeAt
  <2>5. \A i \in 0 .. Len(unread) : links'.next[NodeAt(i)] = links.next[NodeAt(i)]
    BY <2>2, <2>4
  <2>6. \A i \in 1 .. Len(unread) : links'.prev[unread[i]] = links.prev[unread[i]]
    BY <2>1, <2>2, RingFacts, NodeFacts
  <2>7. LastNode' = LastNode /\ \A i : NodeAt(i)' = NodeAt(i)
    BY <2>3 DEF LastNode, NodeAt
  <2>8. links'.next[LastNode] = links.next[LastNode]
    BY <2>5 DEF LastNode
  <2> HIDE DEF LastNode, NodeAt
  <2> QED
    BY <2>1, <2>2, <2>3, <2>5, <2>6, <2>7, <2>8 DEF RingInv
<1>4. CASE AppendForward
  <2> SUFFICES ASSUME ~overlapped'
        PROVE RingInv'
    BY DEF RingInv
  <2>1. loop.msg \in Msgs /\ loop.msg \notin ToSet(unread) /\ loop.at = "finish" /\ loop.msg # loop.tail
    BY <1>4, UnreadFacts, NodeFacts DEF AppendForward, LoopAt, New, Appending, PlacesInv,
       ChainInv
  <2>2. /\ links'.next[loop.tail] = loop.msg /\ \A x \in Nodes \ {loop.tail} : links'.next[x] = links.next[x]
        /\ links'.prev = links.prev
    BY <1>4, NodeFacts DEF AppendForward
  <2>3. /\ gtk' = gtk /\ overlapped' = overlapped /\ loop'.at = "alert" /\ ~overlapped
    BY <1>4 DEF AppendForward, LoopThen, ghosts
  <2>4. /\ Len(unread') = Len(unread) + 1 /\ unread'[Len(unread) + 1] = loop.msg
        /\ \A i \in 1 .. Len(unread) : unread'[i] = unread[i]
    BY <1>4, GrowFacts DEF Grown
  <2>5. /\ loop.tail = LastNode /\ links.prev[MList] = loop.msg
        /\ links.next[loop.msg] = MList /\ links.prev[loop.msg] = loop.tail
    BY <2>1, <2>3 DEF RingInv, ChainInv
  <2>6. gtk.at \in Unlinking =>
          Len(unread) >= 2 /\ gtk.msg = unread[1] /\ gtk.next = unread[2] /\ gtk.next # MList
    BY <2>1, <2>3, RingFacts DEF RingInv
  <2>0. Len(unread) \in Nat
    BY RingFacts
  <2>7. \A i \in 0 .. Len(unread) : NodeAt(i)' = NodeAt(i)
    BY <2>4 DEF NodeAt
  <2>8. LastNode' = loop.msg
    BY <2>4 DEF LastNode, NodeAt
  <2>9. \A i \in 0 .. Len(unread) : links'.next[NodeAt(i)'] = unread'[i + 1]
    <3>1. CASE TRUE
      <4> SUFFICES ASSUME NEW i \in 0 .. Len(unread) PROVE links'.next[NodeAt(i)] = unread'[i + 1]
        BY <2>7
      <4>1. CASE i = Len(unread)
        BY <2>2, <2>4, <2>5, <4>1 DEF LastNode
      <4>2. CASE i # Len(unread)
        <5>1. i \in 0 .. Len(unread) - 1 /\ i + 1 \in 1 .. Len(unread) /\ Len(unread) \in 0 .. Len(unread)
          BY <2>0, <4>2
        <5>2. NodeAt(i) \in Nodes \ {loop.tail}
          BY <2>5, <5>1, RingFacts DEF LastNode
        <5>3. links.next[NodeAt(i)] = unread[i + 1]
          BY <2>3, <5>1 DEF RingInv
        <5> QED
          BY <2>2, <2>4, <5>1, <5>2, <5>3
      <4> QED
        BY <4>1, <4>2
    <3> QED
      BY <3>1
  <2>10. links'.next[loop.msg] = MList
    BY <2>1, <2>2, <2>5, NodeFacts
  <2>11. \A i \in 1 .. Len(unread) + 1 :
           links'.prev[unread'[i]] = IF gtk'.at = "unlink" /\ i = 2 THEN MList ELSE NodeAt(i - 1)'
    <3> SUFFICES ASSUME NEW i \in 1 .. Len(unread) + 1
          PROVE  links'.prev[unread'[i]] = IF gtk'.at = "unlink" /\ i = 2 THEN MList ELSE NodeAt(i - 1)'
      OBVIOUS
    <3>1. i - 1 \in 0 .. Len(unread) /\ NodeAt(i - 1)' = NodeAt(i - 1)
      BY <2>7, RingFacts
    <3>2. CASE i = Len(unread) + 1
      <4>1. links'.prev[unread'[i]] = NodeAt(i - 1)
        BY <2>2, <2>4, <2>5, <3>2 DEF LastNode
      <4>2. gtk'.at = "unlink" => i # 2
        BY <2>3, <2>6, <3>2 DEF Unlinking
      <4> QED
        BY <3>1, <4>1, <4>2
    <3>3. CASE i \in 1 .. Len(unread)
      BY <2>2, <2>3, <2>4, <3>1, <3>3 DEF RingInv
    <3> QED
      BY <3>2, <3>3
  <2>12. gtk'.at \in Unlinking =>
           /\ Len(unread') >= 1 /\ gtk'.msg = unread'[1]
           /\ gtk'.next = IF Len(unread') = 1 THEN MList ELSE unread'[2]
           /\ gtk'.next # MList
    BY <2>3, <2>4, <2>6
  <2>13. undefined' # "freed_node"
    <3>1. LastNode \notin freed
      <4>1. LastNode = MList \/ LastNode \in ToSet(unread)
        BY RingFacts DEF LastNode, NodeAt
      <4> QED
        BY <4>1, NodeFacts DEF FreedInv, TypeOK
    <3> QED
      BY <1>4, <2>5, <3>1 DEF AppendForward, LoopAt, Running
  <2> HIDE DEF LastNode, NodeAt
  <2> QED
    BY <2>2, <2>3, <2>4, <2>5, <2>8, <2>9, <2>10, <2>11, <2>13, RingFacts DEF RingInv, Unlinking
<1>5. CASE Alert
  BY <1>5 DEF Alert, RingInv, NodeAt, LastNode, LoopAt, LoopReturns, LoopIdle
<1>6. CASE Show
  BY <1>6 DEF Show, RingInv, NodeAt, LastNode, ghosts, LoopAt, LoopReturns, LoopIdle
<1>7. CASE TrayNothing
  BY <1>7 DEF TrayNothing, RingInv, NodeAt, LastNode, Unlinking, shared, ghosts, GtkAt, GtkThen
<1>8. CASE TrayTake
  <2> SUFFICES ASSUME ~overlapped'
        PROVE RingInv'
    BY DEF RingInv
  <2> DEFINE m == links.next[MList]
  <2>1. /\ ~overlapped /\ m # MList /\ gtk.at = "idle"
        /\ loop.at \in {"link", "finish"} => links.next[m] # MList
    BY <1>8 DEF TrayTake, GtkAt
  <2>2. Len(unread) >= 1 /\ m = unread[1] /\ links.next[m] = IF Len(unread) = 1 THEN MList ELSE unread[2]
    <3>1. Len(unread) # 0
      BY <2>1 DEF RingInv, LastNode, NodeAt
    <3>2. Len(unread) >= 1 /\ m = unread[1]
      BY <2>1, <3>1, RingFacts DEF RingInv, NodeAt
    <3>3. CASE Len(unread) = 1
      BY <2>1, <3>3 DEF RingInv, LastNode, NodeAt
    <3>4. CASE Len(unread) # 1
      <4>1. 1 \in 0 .. Len(unread) - 1
        BY <3>2, <3>4, RingFacts
      <4>2. links.next[NodeAt(1)] = unread[1 + 1]
        BY <2>1, <4>1 DEF RingInv
      <4> QED
        BY <3>2, <3>4, <4>2 DEF NodeAt
    <3> QED
      BY <3>3, <3>4
  <2>3. /\ links' = links /\ unread' = unread /\ loop' = loop /\ undefined' # "freed_node"
        /\ gtk'.at = "join" /\ gtk'.msg = m /\ gtk'.next = links.next[m]
    BY <1>8 DEF TrayTake, GtkAt, Running, shared
  <2> HIDE DEF m
  <2> QED
    BY <2>1, <2>2, <2>3 DEF RingInv, LastNode, NodeAt
<1>9. CASE TrayJoinBack
  <2> SUFFICES ASSUME ~overlapped'
        PROVE RingInv'
    BY DEF RingInv
  <2>1. gtk.at = "join" /\ gtk.prev = MList /\ gtk.at \in Unlinking
    BY <1>9 DEF TrayJoinBack, GtkAt, PlacesInv, Unlinking
  <2>2. /\ links'.next = links.next /\ links'.prev[gtk.next] = MList
        /\ \A x \in Nodes \ {gtk.next} : links'.prev[x] = links.prev[x]
    BY <1>9, <2>1, NodeFacts DEF TrayJoinBack
  <2>3. /\ unread' = unread /\ loop' = loop /\ undefined' = undefined /\ ~overlapped /\ overlapped' = overlapped
        /\ gtk'.at = "unlink" /\ gtk'.msg = gtk.msg /\ gtk'.next = gtk.next /\ gtk'.at \in Unlinking
    BY <1>9 DEF TrayJoinBack, GtkThen, ghosts, Unlinking
  <2>4. /\ Len(unread) >= 1 /\ gtk.msg = unread[1]
        /\ gtk.next = IF Len(unread) = 1 THEN MList ELSE unread[2]
        /\ gtk.next = MList => loop.at \notin {"link", "finish"}
    BY <2>1, <2>3 DEF RingInv
  <2>5. LastNode' = LastNode /\ \A i : NodeAt(i)' = NodeAt(i)
    BY <2>3 DEF LastNode, NodeAt
  <2>6. \A i \in 1 .. Len(unread) : links'.prev[unread[i]] = IF i = 2 THEN MList ELSE NodeAt(i - 1)
    <3> SUFFICES ASSUME NEW i \in 1 .. Len(unread)
          PROVE  links'.prev[unread[i]] = IF i = 2 THEN MList ELSE NodeAt(i - 1)
      OBVIOUS
    <3>1. links.prev[unread[i]] = NodeAt(i - 1)
      BY <2>1, <2>3 DEF RingInv
    <3>2. CASE i = 2
      <4>1. Len(unread) # 1 /\ unread[i] = gtk.next
        BY <2>4, <3>2, RingFacts
      <4> QED
        BY <2>2, <3>2, <4>1
    <3>3. CASE i # 2
      <4>1. unread[i] \in Msgs /\ unread[i] \in Nodes /\ unread[i] # MList
        BY RingFacts, NodeFacts
      <4>2. Len(unread) # 1 => 2 \in 1 .. Len(unread)
        BY <2>4, RingFacts
      <4>3. unread[i] # gtk.next
        BY <2>4, <3>3, <4>1, RingFacts
      <4> QED
        BY <2>2, <3>1, <3>3, <4>1, <4>3
    <3> QED
      BY <3>2, <3>3
  <2>7. links'.prev[MList] = IF gtk.next = MList THEN MList ELSE links.prev[MList]
    BY <2>2, NodeFacts
  <2>8. /\ loop.at = "finish" => links.prev[MList] = loop.msg /\ gtk.next # MList
        /\ loop.at # "finish" => links.prev[MList] = LastNode
    BY <2>1, <2>3 DEF RingInv
  <2>9. /\ \A i \in 0 .. Len(unread) - 1 : links.next[NodeAt(i)] = unread[i + 1]
        /\ links.next[LastNode] = MList
        /\ loop.at \in {"link", "finish"} => loop.tail = LastNode
        /\ undefined # "freed_node"
    BY <2>3 DEF RingInv
  <2> HIDE DEF LastNode, NodeAt
  <2> QED
    BY <2>2, <2>3, <2>4, <2>5, <2>6, <2>7 DEF RingInv
<1>10. CASE TrayUnlink
  <2> SUFFICES ASSUME ~overlapped'
        PROVE RingInv'
    BY DEF RingInv
  <2> DEFINE n == Len(unread)
  <2>1. /\ gtk.at = "unlink" /\ gtk.prev = MList /\ gtk.at \in Unlinking
        /\ overlapped' = overlapped /\ ~overlapped
    BY <1>10 DEF TrayUnlink, GtkAt, PlacesInv, Unlinking, ghosts
  <2>2. /\ n >= 1 /\ gtk.msg = unread[1] /\ gtk.next = IF n = 1 THEN MList ELSE unread[2]
        /\ gtk.next = MList => loop.at \notin {"link", "finish"}
    BY <2>1 DEF RingInv
  <2>3. gtk.msg \in Msgs /\ gtk.msg \in Nodes /\ gtk.msg # MList /\ n \in Nat
    BY <2>2, RingFacts, NodeFacts
  <2>4. /\ links'.next[MList] = gtk.next
        /\ \A x \in Nodes \ {MList, gtk.msg} : links'.next[x] = links.next[x]
        /\ \A x \in Nodes \ {gtk.msg} : links'.prev[x] = links.prev[x]
    BY <1>10, <2>1, NodeFacts DEF TrayUnlink
  <2>5. /\ Len(unread') = n - 1 /\ \A i \in 1 .. n - 1 : unread'[i] = unread[i + 1]
    <3>1. PICK k \in 1 .. n : Shrunk(k)
      BY <1>10, ShrinkFacts
    <3>2. k = 1
      BY <2>2, <3>1, RingFacts DEF Shrunk
    <3> QED
      BY <3>1, <3>2 DEF Shrunk
  <2>6. loop' = loop /\ undefined' = undefined /\ gtk'.at = "present" /\ gtk'.at \notin Unlinking
    BY <1>10 DEF TrayUnlink, Unlinking
  <2>7. \A i \in 1 .. n - 1 : /\ NodeAt(i)' = unread[i + 1] /\ unread[i + 1] \in Nodes \ {MList, gtk.msg}
                              /\ i + 1 \in 1 .. n
    <3> SUFFICES ASSUME NEW i \in 1 .. n - 1
          PROVE  /\ NodeAt(i)' = unread[i + 1] /\ unread[i + 1] \in Nodes \ {MList, gtk.msg}
                 /\ i + 1 \in 1 .. n
      OBVIOUS
    <3>1. i + 1 \in 1 .. n /\ 1 \in 1 .. n /\ i + 1 # 1 /\ i # 0
      BY <2>3
    <3>2. unread[i + 1] # unread[1]
      BY <3>1, RingFacts
    <3>3. unread[i + 1] \in Msgs /\ unread[i + 1] \in Nodes /\ unread[i + 1] # MList
      BY RingFacts, NodeFacts
    <3>4. NodeAt(i)' = unread[i + 1]
      BY <2>5 DEF NodeAt
    <3> QED
      BY <2>2, <3>2, <3>3, <3>4
  <2>8. NodeAt(0)' = MList
    BY DEF NodeAt
  <2>9. LastNode' = IF n = 1 THEN MList ELSE LastNode
    <3>1. CASE n = 1
      BY <2>5 DEF LastNode, NodeAt
    <3>2. CASE n # 1
      <4>1. n - 1 \in 1 .. n - 1 /\ n - 1 + 1 = n /\ n # 0 /\ n - 1 # 0
        <5>1. \A l \in Nat : l >= 1 /\ l # 1 => l - 1 \in 1 .. l - 1 /\ l - 1 + 1 = l /\ l # 0 /\ l - 1 # 0
          OBVIOUS
        <5> HIDE DEF n
        <5> QED
          BY <2>2, <2>3, <3>2
      <4>2. unread'[n - 1] = unread[n]
        BY <2>5, <4>1
      <4> QED
        BY <2>5 DEF LastNode, NodeAt
    <3> QED
      BY <3>1, <3>2
  <2>10. \A i \in 0 .. n - 2 : links'.next[NodeAt(i)'] = unread'[i + 1]
    <3> SUFFICES ASSUME NEW i \in 0 .. n - 2 PROVE links'.next[NodeAt(i)'] = unread'[i + 1]
      OBVIOUS
    <3>1. i + 1 \in 1 .. n - 1 /\ i + 1 \in 0 .. n - 1 /\ i + 1 # 0 /\ unread'[i + 1] = unread[i + 2]
      <4>1. i + 1 \in 1 .. n - 1 /\ i + 1 \in 0 .. n - 1 /\ i + 1 # 0 /\ i + 1 + 1 = i + 2
        BY <2>3
      <4> QED
        BY <2>5, <4>1
    <3>2. CASE i = 0
      BY <2>2, <2>4, <2>8, <3>1, <3>2
    <3>3. CASE i # 0
      <4>1. i \in 1 .. n - 1
        BY <2>3, <3>3
      <4>2. links.next[NodeAt(i + 1)] = unread[i + 1 + 1]
        BY <2>1, <3>1 DEF RingInv
      <4>3. NodeAt(i + 1) = unread[i + 1]
        BY <3>1 DEF NodeAt
      <4>4. i + 1 + 1 = i + 2
        BY <2>3
      <4> QED
        BY <2>4, <2>7, <3>1, <4>1, <4>2, <4>3
    <3> QED
      BY <3>2, <3>3
  <2>11. links'.next[LastNode'] = MList
    <3>1. CASE n = 1
      BY <2>2, <2>4, <2>9, <3>1
    <3>2. CASE n # 1
      <4>1. LastNode = unread[n] /\ n \in 1 .. n
        BY <2>2 DEF LastNode, NodeAt
      <4>2. LastNode \in Nodes \ {MList, gtk.msg}
        BY <2>2, <2>3, <3>2, <4>1, RingFacts, NodeFacts
      <4> QED
        BY <2>1, <2>4, <2>9, <4>2 DEF RingInv
    <3> QED
      BY <3>1, <3>2
  <2>12. \A i \in 1 .. n - 1 : links'.prev[unread'[i]] = NodeAt(i - 1)'
    <3> SUFFICES ASSUME NEW i \in 1 .. n - 1 PROVE links'.prev[unread'[i]] = NodeAt(i - 1)'
      OBVIOUS
    <3>1. links'.prev[unread'[i]] = links.prev[unread[i + 1]] /\ i + 1 \in 1 .. n
      BY <2>4, <2>5, <2>7
    <3>2. CASE i = 1
      <4>1. links.prev[unread[i + 1]] = MList
        BY <2>1, <3>2 DEF RingInv
      <4> QED
        BY <2>8, <3>1, <3>2, <4>1
    <3>3. CASE i # 1
      <4>1. i - 1 \in 1 .. n - 1 /\ i - 1 + 1 = i /\ i + 1 # 2 /\ i # 0 /\ i + 1 - 1 = i
        BY <2>3, <3>3
      <4>2. links.prev[unread[i + 1]] = NodeAt(i)
        BY <2>1, <4>1 DEF RingInv
      <4>3. NodeAt(i - 1)' = unread[i]
        BY <2>7, <4>1
      <4> QED
        BY <3>1, <4>2, <4>3 DEF NodeAt
    <3> QED
      BY <3>2, <3>3
  <2>13. links'.prev[MList] = links.prev[MList]
    BY <2>3, <2>4, NodeFacts
  <2>14. /\ loop.at = "finish" => links.prev[MList] = loop.msg /\ n # 1
         /\ loop.at # "finish" => links.prev[MList] = IF n = 1 THEN MList ELSE LastNode
         /\ loop.at \in {"link", "finish"} => n # 1 /\ loop.tail = LastNode
         /\ undefined # "freed_node"
    BY <2>1, <2>2, RingFacts, NodeFacts DEF RingInv
  <2>15. Len(unread') - 1 = n - 2
    BY <2>3, <2>5
  <2> HIDE DEF LastNode, NodeAt, n
  <2> QED
    BY <2>5, <2>6, <2>9, <2>10, <2>11, <2>12, <2>13, <2>14, <2>15 DEF RingInv
<1>11. CASE TrayPresent
  BY <1>11 DEF TrayPresent, RingInv, NodeAt, LastNode, Unlinking, shared, GtkAt, GtkThen
<1>12. CASE TrayNew
  BY <1>12 DEF TrayNew, RingInv, NodeAt, LastNode, Unlinking, GtkAt, Enter
<1>13. CASE InitChatbox
  BY <1>13 DEF InitChatbox, RingInv, NodeAt, LastNode, Unlinking, ghosts, GtkAt, GtkThen,
     GtkIdle
<1>14. CASE TrayInsert
  BY <1>14 DEF TrayInsert, RingInv, NodeAt, LastNode, Unlinking, ghosts, GtkAt, GtkThen
<1>15. CASE TrayTest
  BY <1>15 DEF TrayTest, RingInv, NodeAt, LastNode, Unlinking, shared, ghosts, GtkAt, GtkThen
<1>16. CASE TrayCalm
  BY <1>16 DEF TrayCalm, RingInv, NodeAt, LastNode, Unlinking, ghosts, GtkAt, GtkThen, GtkIdle
<1>17. CASE TrayFree
  BY <1>17 DEF TrayFree, RingInv, NodeAt, LastNode, Unlinking, ghosts, GtkAt, GtkIdle
<1>18. ASSUME NEW u \in Users, DoubleClick(u) PROVE RingInv'
  BY <1>18 DEF DoubleClick, RingInv, NodeAt, LastNode, Unlinking, GtkAt, Enter
<1>19. ASSUME NEW u \in Users, Close(u) PROVE RingInv'
  BY <1>19 DEF Close, RingInv, NodeAt, LastNode, ghosts
<1>20. CASE UNCHANGED vars
  BY <1>20 DEF vars, RingInv, NodeAt, LastNode, shared, ghosts
<1> QED
  BY <1>1, <1>2, <1>3, <1>4, <1>5, <1>6, <1>7, <1>8, <1>9, <1>10, <1>11, <1>12, <1>13, <1>14,
     <1>15, <1>16, <1>17, <1>18, <1>19, <1>20 DEF Next

(* No more messages wait than have come.                                    *)
LEMMA LengthStep ==
  ASSUME TypeOK, PlacesInv, BoxesInv, OrderInv, FatesInv, ChainInv, LengthInv, [Next]_vars
  PROVE  LengthInv'
<1>1. CASE Receive
  <2>1. Len(unread) \in Nat /\ Len(unread) <= loop.msg /\ loop.msg \in Nat
    BY NodeFacts DEF LengthInv
  <2>2. loop'.msg = loop.msg + 1 /\ unread' = unread
    BY <1>1 DEF Receive, shared
  <2> QED
    BY <2>1, <2>2 DEF LengthInv
<1>2. CASE AppendRead
  BY <1>2 DEF AppendRead, LengthInv, New, Appending, shared, LoopAt
<1>3. CASE AppendBack
  BY <1>3 DEF AppendBack, LengthInv, New, Appending, LoopAt, LoopThen
<1>4. CASE AppendForward
  <2>1. Len(unread)' = Len(unread) + 1 /\ Len(unread) \in Nat
    BY <1>4, GrowFacts DEF Grown
  <2>2. Len(unread) < loop.msg /\ loop.msg \in Nat
    BY <1>4, NodeFacts DEF AppendForward, LoopAt, LengthInv, New, Appending
  <2>3. loop'.msg = loop.msg /\ New' = {}
    BY <1>4 DEF AppendForward, LoopThen, New, Appending
  <2> QED
    BY <2>1, <2>2, <2>3 DEF LengthInv
<1>5. CASE Alert
  BY <1>5 DEF Alert, LengthInv, New, Appending, LoopReturns, LoopIdle
<1>6. CASE Show
  BY <1>6 DEF Show, LengthInv, New, LoopAt, LoopReturns
<1>7. CASE TrayNothing
  BY <1>7 DEF TrayNothing, LengthInv, New, shared
<1>8. CASE TrayTake
  BY <1>8 DEF TrayTake, LengthInv, New, shared
<1>9. CASE TrayJoinBack
  BY <1>9 DEF TrayJoinBack, LengthInv, New
<1>10. CASE TrayUnlink
  <2>1. Len(unread)' = Len(unread) - 1 /\ Len(unread) \in Nat
    BY <1>10, ShrinkFacts DEF Shrunk
  <2>2. loop' = loop /\ loop.msg \in Nat
    BY <1>10, NodeFacts DEF TrayUnlink
  <2> QED
    BY <2>1, <2>2 DEF LengthInv
<1>11. CASE TrayPresent
  BY <1>11 DEF TrayPresent, LengthInv, New, shared
<1>12. CASE TrayNew
  BY <1>12 DEF TrayNew, LengthInv, New, Enter
<1>13. CASE InitChatbox
  BY <1>13 DEF InitChatbox, LengthInv, New
<1>14. CASE TrayInsert
  BY <1>14 DEF TrayInsert, LengthInv, New
<1>15. CASE TrayTest
  BY <1>15 DEF TrayTest, LengthInv, New, shared
<1>16. CASE TrayCalm
  BY <1>16 DEF TrayCalm, LengthInv, New
<1>17. CASE TrayFree
  BY <1>17 DEF TrayFree, LengthInv, New
<1>18. ASSUME NEW u \in Users, DoubleClick(u) PROVE LengthInv'
  BY <1>18 DEF DoubleClick, LengthInv, New, Enter
<1>19. ASSUME NEW u \in Users, Close(u) PROVE LengthInv'
  BY <1>19 DEF Close, LengthInv, New
<1>20. CASE UNCHANGED vars
  BY <1>20 DEF vars, LengthInv, New, shared
<1> QED
  BY <1>1, <1>2, <1>3, <1>4, <1>5, <1>6, <1>7, <1>8, <1>9, <1>10, <1>11, <1>12, <1>13, <1>14,
     <1>15, <1>16, <1>17, <1>18, <1>19, <1>20 DEF Next

(* Whoever waits came before the window that his user has was opened.       *)
LEMMA SeenStep ==
  ASSUME TypeOK, PlacesInv, BoxesInv, OrderInv, FatesInv, ChainInv, SeenInv, [Next]_vars
  PROVE  SeenInv'
<1>1. CASE Receive
  <2>1. loop'.at = "append" => chatbox[from[loop'.msg]] = None
    BY <1>1 DEF Receive
  <2>2. /\ unread' = unread /\ gtk' = gtk /\ chatbox' = chatbox /\ from' = from /\ opened' = opened
        /\ loop'.at \in {"append", "show"}
    BY <1>1 DEF Receive, shared, ghosts
  <2> QED
    BY <2>1, <2>2 DEF SeenInv, Waiting, Appending
<1>2. CASE AppendRead
  BY <1>2 DEF AppendRead, SeenInv, Waiting, Appending, shared, LoopAt
<1>3. CASE AppendBack
  BY <1>3 DEF AppendBack, SeenInv, Waiting, Appending, ghosts, LoopAt, LoopThen
<1>4. CASE AppendForward
  <2>1. ToSet(unread)' = ToSet(unread) \cup {loop.msg}
    BY <1>4, GrowFacts DEF Grown
  <2> QED
    BY <1>4, <2>1 DEF AppendForward, ghosts, SeenInv, Waiting, Appending, LoopAt, LoopThen
<1>5. CASE Alert
  BY <1>5 DEF Alert, SeenInv, Waiting, Appending, LoopReturns, LoopIdle
<1>6. CASE Show
  BY <1>6 DEF Show, SeenInv, Waiting, Appending, ghosts, LoopReturns, LoopIdle
<1>7. CASE TrayNothing
  BY <1>7 DEF TrayNothing, SeenInv, Waiting, shared, ghosts, GtkThen
<1>8. CASE TrayTake
  BY <1>8 DEF TrayTake, SeenInv, Waiting, shared
<1>9. CASE TrayJoinBack
  BY <1>9 DEF TrayJoinBack, SeenInv, Waiting, ghosts, GtkThen
<1>10. CASE TrayUnlink
  <2>1. ToSet(unread)' = ToSet(unread) \ {gtk.msg} /\ gtk.msg \in ToSet(unread)
    BY <1>10, ShrinkFacts DEF Shrunk, TrayUnlink, GtkAt
  <2>2. gtk'.msg = gtk.msg
    BY <1>10 DEF TrayUnlink
  <2> QED
    BY <1>10, <2>1 DEF TrayUnlink, SeenInv, Waiting, ghosts
<1>11. CASE TrayPresent
  BY <1>11 DEF TrayPresent, SeenInv, Waiting, shared, GtkThen
<1>12. CASE TrayNew
  <2>1. from[gtk.msg] \in Users /\ gtk.msg \in Msgs
    BY <1>12 DEF TrayNew, GtkAt, PlacesInv, TypeOK
  <2>2. Entered(from[gtk.msg], gtk.msg) /\ Enter(from[gtk.msg], gtk.msg)
    BY <1>12, <2>1, EnterFacts DEF TrayNew
  <2>3. unread' = unread /\ loop' = loop /\ from' = from /\ gtk'.at = "init"
    BY <2>2 DEF Enter
  <2>4. SUFFICES ASSUME NEW m \in Msgs, Waiting(m)', chatbox'[from[m]] # None
        PROVE  m <= opened'[chatbox'[from[m]]].seen
    BY <2>3 DEF SeenInv
  <2>5. Waiting(m) /\ m <= loop.msg
    BY <2>3, <2>4, UnreadFacts, NodeFacts DEF Waiting
  <2>6. CASE from[m] = from[gtk.msg]
    BY <2>2, <2>5, <2>6 DEF Entered
  <2>7. CASE from[m] # from[gtk.msg]
    <3>1. from[m] \in Users /\ chatbox'[from[m]] = chatbox[from[m]]
      BY <2>2, <2>7 DEF Entered, TypeOK
    <3>2. chatbox[from[m]] \in DOMAIN opened /\ DOMAIN opened = 1 .. Len(opened)
      BY <2>4, <3>1 DEF BoxesInv
    <3> QED
      BY <2>2, <2>4, <2>5, <3>1, <3>2 DEF Entered, SeenInv
  <2> QED
    BY <2>6, <2>7
<1>13. CASE InitChatbox
  BY <1>13 DEF InitChatbox, SeenInv, Waiting, ghosts, GtkThen, GtkIdle
<1>14. CASE TrayInsert
  BY <1>14 DEF TrayInsert, SeenInv, Waiting, ghosts, GtkThen
<1>15. CASE TrayTest
  BY <1>15 DEF TrayTest, SeenInv, Waiting, shared, ghosts, GtkThen
<1>16. CASE TrayCalm
  BY <1>16 DEF TrayCalm, SeenInv, Waiting, ghosts, GtkThen, GtkIdle
<1>17. CASE TrayFree
  BY <1>17 DEF TrayFree, SeenInv, Waiting, ghosts, GtkIdle
<1>18. ASSUME NEW u \in Users, DoubleClick(u) PROVE SeenInv'
  <2>1. u \in Users /\ None \in Msgs \cup {None}
    OBVIOUS
  <2>2. Entered(u, None) /\ Enter(u, None)
    BY <1>18, EnterFacts DEF DoubleClick
  <2>3. unread' = unread /\ loop' = loop /\ from' = from /\ gtk'.at = "init"
    BY <2>2 DEF Enter
  <2>4. SUFFICES ASSUME NEW m \in Msgs, Waiting(m)', chatbox'[from[m]] # None
        PROVE  m <= opened'[chatbox'[from[m]]].seen
    BY <2>3 DEF SeenInv
  <2>5. Waiting(m) /\ m <= loop.msg
    BY <2>3, <2>4, UnreadFacts, NodeFacts DEF Waiting
  <2>6. CASE from[m] = u
    BY <2>2, <2>5, <2>6 DEF Entered
  <2>7. CASE from[m] # u
    <3>1. from[m] \in Users /\ chatbox'[from[m]] = chatbox[from[m]]
      BY <2>2, <2>7 DEF Entered, TypeOK
    <3>2. chatbox[from[m]] \in DOMAIN opened /\ DOMAIN opened = 1 .. Len(opened)
      BY <2>4, <3>1 DEF BoxesInv
    <3> QED
      BY <2>2, <2>4, <2>5, <3>1, <3>2 DEF Entered, SeenInv
  <2> QED
    BY <2>6, <2>7
<1>19. ASSUME NEW u \in Users, Close(u) PROVE SeenInv'
  BY <1>19 DEF Close, SeenInv, Waiting, ghosts
<1>20. CASE UNCHANGED vars
  BY <1>20 DEF vars, SeenInv, Waiting, shared, ghosts
<1> QED
  BY <1>1, <1>2, <1>3, <1>4, <1>5, <1>6, <1>7, <1>8, <1>9, <1>10, <1>11, <1>12, <1>13, <1>14,
     <1>15, <1>16, <1>17, <1>18, <1>19, <1>20 DEF Next

(* insert_chat_msg drops a message only behind a window opened meanwhile.   *)
LEMMA DroppedStep ==
  ASSUME TypeOK, PlacesInv, BoxesInv, OrderInv, FatesInv, ChainInv, SeenInv, DroppedBehindNewWindow, [Next]_vars
  PROVE  DroppedBehindNewWindow'
<1>1. CASE Receive
  BY <1>1 DEF Receive, DroppedBehindNewWindow, ghosts
<1>2. CASE AppendRead
  BY <1>2 DEF AppendRead, DroppedBehindNewWindow
<1>3. CASE AppendBack
  BY <1>3 DEF AppendBack, DroppedBehindNewWindow, ghosts
<1>4. CASE AppendForward
  BY <1>4 DEF AppendForward, DroppedBehindNewWindow, ghosts
<1>5. CASE Alert
  BY <1>5 DEF Alert, DroppedBehindNewWindow
<1>6. CASE Show
  BY <1>6 DEF Show, DroppedBehindNewWindow, ghosts
<1>7. CASE TrayNothing
  BY <1>7 DEF TrayNothing, DroppedBehindNewWindow, ghosts
<1>8. CASE TrayTake
  BY <1>8 DEF TrayTake, DroppedBehindNewWindow
<1>9. CASE TrayJoinBack
  BY <1>9 DEF TrayJoinBack, DroppedBehindNewWindow, ghosts
<1>10. CASE TrayUnlink
  BY <1>10 DEF TrayUnlink, DroppedBehindNewWindow, ghosts
<1>11. CASE TrayPresent
  <2>1. gtk.msg \in Msgs /\ from[gtk.msg] \in Users /\ chatbox[from[gtk.msg]] # None /\ Waiting(gtk.msg)
    BY <1>11 DEF TrayPresent, GtkAt, PlacesInv, TypeOK, Waiting
  <2>2. chatbox[from[gtk.msg]] \in DOMAIN opened /\ opened[chatbox[from[gtk.msg]]].user = from[gtk.msg]
    BY <2>1 DEF BoxesInv
  <2>3. gtk.msg <= opened[chatbox[from[gtk.msg]]].seen
    BY <2>1 DEF SeenInv
  <2> QED
    BY <1>11, <2>2, <2>3 DEF TrayPresent, DroppedBehindNewWindow
<1>12. CASE TrayNew
  <2>1. from[gtk.msg] \in Users /\ gtk.msg \in Msgs
    BY <1>12 DEF TrayNew, GtkAt, PlacesInv, TypeOK
  <2>2. Entered(from[gtk.msg], gtk.msg) /\ Enter(from[gtk.msg], gtk.msg)
    BY <1>12, <2>1, EnterFacts DEF TrayNew
  <2>3. /\ DOMAIN opened = 1 .. Len(opened) /\ DOMAIN opened' = 1 .. Len(opened) + 1 /\ Len(opened) \in Nat
        /\ from' = from /\ dropped' = dropped
    BY <2>2 DEF Enter
  <2>4. \A x \in DOMAIN opened : x \in DOMAIN opened' /\ opened'[x] = opened[x]
    BY <2>2 DEF Entered
  <2> QED
    BY <2>3, <2>4 DEF DroppedBehindNewWindow
<1>13. CASE InitChatbox
  BY <1>13 DEF InitChatbox, DroppedBehindNewWindow, ghosts
<1>14. CASE TrayInsert
  BY <1>14 DEF TrayInsert, DroppedBehindNewWindow, ghosts
<1>15. CASE TrayTest
  BY <1>15 DEF TrayTest, DroppedBehindNewWindow, ghosts
<1>16. CASE TrayCalm
  BY <1>16 DEF TrayCalm, DroppedBehindNewWindow, ghosts
<1>17. CASE TrayFree
  BY <1>17 DEF TrayFree, DroppedBehindNewWindow, ghosts
<1>18. ASSUME NEW u \in Users, DoubleClick(u) PROVE DroppedBehindNewWindow'
  <2>1. u \in Users /\ None \in Msgs \cup {None}
    OBVIOUS
  <2>2. Entered(u, None) /\ Enter(u, None)
    BY <1>18, EnterFacts DEF DoubleClick
  <2>3. /\ DOMAIN opened = 1 .. Len(opened) /\ DOMAIN opened' = 1 .. Len(opened) + 1 /\ Len(opened) \in Nat
        /\ from' = from /\ dropped' = dropped
    BY <2>2 DEF Enter
  <2>4. \A x \in DOMAIN opened : x \in DOMAIN opened' /\ opened'[x] = opened[x]
    BY <2>2 DEF Entered
  <2> QED
    BY <2>3, <2>4 DEF DroppedBehindNewWindow
<1>19. ASSUME NEW u \in Users, Close(u) PROVE DroppedBehindNewWindow'
  BY <1>19 DEF Close, DroppedBehindNewWindow, ghosts
<1>20. CASE UNCHANGED vars
  BY <1>20 DEF vars, DroppedBehindNewWindow, ghosts
<1> QED
  BY <1>1, <1>2, <1>3, <1>4, <1>5, <1>6, <1>7, <1>8, <1>9, <1>10, <1>11, <1>12, <1>13, <1>14,
     <1>15, <1>16, <1>17, <1>18, <1>19, <1>20 DEF Next

(* Only a window that was opened shows anything.                            *)
LEMMA EmptyStep ==
  ASSUME TypeOK, PlacesInv, BoxesInv, OrderInv, FatesInv, ChainInv, EmptyInv, [Next]_vars
  PROVE  EmptyInv'
<1>1. CASE Receive
  <2>1. loop.msg + 1 \in Msgs
    BY <1>1, BoundAssumption DEF Receive, TypeOK, LoopState, Msgs
  <2>2. from[loop.msg + 1] \in Users
    BY <2>1 DEF TypeOK
  <2>3. loop'.at = "show" => loop'.box \in DOMAIN opened
    BY <1>1, <2>2 DEF Receive, BoxesInv
  <2> QED
    BY <1>1, <2>3 DEF Receive, EmptyInv, shared, ghosts
<1>2. CASE AppendRead
  BY <1>2 DEF AppendRead, EmptyInv, shared
<1>3. CASE AppendBack
  BY <1>3 DEF AppendBack, EmptyInv, ghosts, LoopThen
<1>4. CASE AppendForward
  BY <1>4 DEF AppendForward, EmptyInv, ghosts, LoopThen
<1>5. CASE Alert
  BY <1>5 DEF Alert, EmptyInv, LoopReturns, LoopIdle
<1>6. CASE Show
  <2>1. loop.box \in Windows /\ loop.msg \in Msgs /\ loop.box \in DOMAIN opened
    BY <1>6 DEF Show, LoopAt, PlacesInv, EmptyInv
  <2>2. \A w \in Windows : w # loop.box => shown'[w] = shown[w]
    BY <1>6 DEF Show, TypeOK
  <2>3. opened' = opened /\ loop'.at = "idle"
    BY <1>6 DEF Show, ghosts, LoopReturns, LoopIdle
  <2> QED
    BY <2>1, <2>2, <2>3 DEF EmptyInv
<1>7. CASE TrayNothing
  BY <1>7 DEF TrayNothing, EmptyInv, shared, ghosts
<1>8. CASE TrayTake
  BY <1>8 DEF TrayTake, EmptyInv, shared
<1>9. CASE TrayJoinBack
  BY <1>9 DEF TrayJoinBack, EmptyInv, ghosts
<1>10. CASE TrayUnlink
  BY <1>10 DEF TrayUnlink, EmptyInv, ghosts
<1>11. CASE TrayPresent
  BY <1>11 DEF TrayPresent, EmptyInv, shared
<1>12. CASE TrayNew
  <2>1. from[gtk.msg] \in Users /\ gtk.msg \in Msgs
    BY <1>12 DEF TrayNew, GtkAt, PlacesInv, TypeOK
  <2>2. Entered(from[gtk.msg], gtk.msg) /\ Enter(from[gtk.msg], gtk.msg)
    BY <1>12, <2>1, EnterFacts DEF TrayNew
  <2>3. DOMAIN opened = 1 .. Len(opened) /\ DOMAIN opened' = 1 .. Len(opened) + 1 /\ Len(opened) \in Nat
    BY <2>2 DEF Entered
  <2>4. DOMAIN opened \subseteq DOMAIN opened' /\ shown' = shown /\ loop' = loop
    BY <2>2 DEF Enter
  <2> QED
    BY <2>4 DEF EmptyInv
<1>13. CASE InitChatbox
  BY <1>13 DEF InitChatbox, EmptyInv, ghosts
<1>14. CASE TrayInsert
  <2>1. chatbox[gtk.user] \in Windows /\ chatbox[gtk.user] \in DOMAIN opened
    BY <1>14 DEF TrayInsert, GtkAt, BoxesInv, TypeOK
  <2>2. \A w \in Windows : w # chatbox[gtk.user] => shown'[w] = shown[w]
    BY <1>14 DEF TrayInsert
  <2> QED
    BY <1>14, <2>1 DEF TrayInsert, EmptyInv, ghosts
<1>15. CASE TrayTest
  BY <1>15 DEF TrayTest, EmptyInv, shared, ghosts
<1>16. CASE TrayCalm
  BY <1>16 DEF TrayCalm, EmptyInv, ghosts
<1>17. CASE TrayFree
  BY <1>17 DEF TrayFree, EmptyInv, ghosts
<1>18. ASSUME NEW u \in Users, DoubleClick(u) PROVE EmptyInv'
  <2>1. u \in Users /\ None \in Msgs \cup {None}
    OBVIOUS
  <2>2. Entered(u, None) /\ Enter(u, None)
    BY <1>18, EnterFacts DEF DoubleClick
  <2>3. DOMAIN opened = 1 .. Len(opened) /\ DOMAIN opened' = 1 .. Len(opened) + 1 /\ Len(opened) \in Nat
    BY <2>2 DEF Entered
  <2>4. DOMAIN opened \subseteq DOMAIN opened' /\ shown' = shown /\ loop' = loop
    BY <2>2 DEF Enter
  <2> QED
    BY <2>4 DEF EmptyInv
<1>19. ASSUME NEW u \in Users, Close(u) PROVE EmptyInv'
  BY <1>19 DEF Close, EmptyInv, ghosts
<1>20. CASE UNCHANGED vars
  BY <1>20 DEF vars, EmptyInv, shared, ghosts
<1> QED
  BY <1>1, <1>2, <1>3, <1>4, <1>5, <1>6, <1>7, <1>8, <1>9, <1>10, <1>11, <1>12, <1>13, <1>14,
     <1>15, <1>16, <1>17, <1>18, <1>19, <1>20 DEF Next

(* A window shows the messages in the order in which they came.             *)
LEMMA WindowsStep ==
  ASSUME TypeOK, PlacesInv, BoxesInv, OrderInv, FatesInv, ChainInv, EmptyInv, WindowInOrder, [Next]_vars
  PROVE  WindowInOrder'
<1>1. CASE Receive
  BY <1>1 DEF Receive, WindowInOrder, shared, ghosts
<1>2. CASE AppendRead
  BY <1>2 DEF AppendRead, WindowInOrder, shared
<1>3. CASE AppendBack
  BY <1>3 DEF AppendBack, WindowInOrder, ghosts
<1>4. CASE AppendForward
  BY <1>4 DEF AppendForward, WindowInOrder, ghosts
<1>5. CASE Alert
  BY <1>5 DEF Alert, WindowInOrder
<1>6. CASE Show
  <2>1. loop.box \in Windows /\ loop.msg \in Msgs /\ loop.msg \in New
    BY <1>6 DEF Show, LoopAt, PlacesInv, New
  <2>2. opened' = opened
    BY <1>6 DEF Show, ghosts
  <2>3. CASE shown' = shown
    BY <2>2, <2>3 DEF WindowInOrder
  <2>4. CASE shown' = [shown EXCEPT ![loop.box] = Append(shown[loop.box], loop.msg)]
    <3>1. Showed(loop.box, loop.msg)
      BY <2>1, <2>4, ShowFacts
    <3>2. \A i \in 1 .. Len(shown[loop.box]) : shown[loop.box][i] < loop.msg
      <4>1. SUFFICES ASSUME NEW i \in 1 .. Len(shown[loop.box]) PROVE shown[loop.box][i] < loop.msg
        OBVIOUS
      <4>2. shown[loop.box] \in Seq(Msgs)
        BY <2>1 DEF TypeOK
      <4>3. shown[loop.box][i] \in Msgs /\ shown[loop.box][i] \in ToSet(shown[loop.box])
        BY <4>2 DEF ToSet
      <4>4. shown[loop.box][i] \in Arrived
        BY <2>1, <4>3 DEF FatesInv, Somewhere, Displayed
      <4> QED
        BY <2>1, <4>4, NodeFacts DEF Arrived
    <3>3. SUFFICES ASSUME NEW w \in DOMAIN opened, NEW i \in DOMAIN shown'[w], NEW j \in DOMAIN shown'[w],
                          i < j, opened[w].click \notin {shown'[w][i], shown'[w][j]}
          PROVE  shown'[w][i] < shown'[w][j]
      BY <2>2 DEF WindowInOrder
    <3>4. w \in Windows
      BY BoundAssumption DEF TypeOK, Windows
    <3>5. CASE w # loop.box
      BY <3>1, <3>3, <3>4, <3>5 DEF Showed, WindowInOrder
    <3>6. CASE w = loop.box
      <4>1. /\ DOMAIN shown'[w] = 1 .. Len(shown[w]) + 1 /\ DOMAIN shown[w] = 1 .. Len(shown[w])
            /\ Len(shown[w]) \in Nat
        BY <3>1, <3>6 DEF Showed
      <4>2. i \in DOMAIN shown[w] /\ shown'[w][i] = shown[w][i]
        BY <3>1, <3>3, <3>6, <4>1 DEF Showed
      <4>3. CASE j = Len(shown[w]) + 1
        BY <3>1, <3>2, <3>6, <4>2, <4>3 DEF Showed
      <4>4. CASE j # Len(shown[w]) + 1
        <5>1. j \in DOMAIN shown[w] /\ shown'[w][j] = shown[w][j]
          BY <3>1, <3>6, <4>1, <4>4 DEF Showed
        <5> QED
          BY <3>3, <4>2, <5>1 DEF WindowInOrder
      <4> QED
        BY <4>3, <4>4
    <3> QED
      BY <3>5, <3>6
  <2> QED
    BY <1>6, <2>3, <2>4 DEF Show
<1>7. CASE TrayNothing
  BY <1>7 DEF TrayNothing, WindowInOrder, shared, ghosts
<1>8. CASE TrayTake
  BY <1>8 DEF TrayTake, WindowInOrder, shared
<1>9. CASE TrayJoinBack
  BY <1>9 DEF TrayJoinBack, WindowInOrder, ghosts
<1>10. CASE TrayUnlink
  BY <1>10 DEF TrayUnlink, WindowInOrder, ghosts
<1>11. CASE TrayPresent
  BY <1>11 DEF TrayPresent, WindowInOrder, shared
<1>12. CASE TrayNew
  <2>1. from[gtk.msg] \in Users /\ gtk.msg \in Msgs
    BY <1>12 DEF TrayNew, GtkAt, PlacesInv, TypeOK
  <2>2. Entered(from[gtk.msg], gtk.msg) /\ Enter(from[gtk.msg], gtk.msg)
    BY <1>12, <2>1, EnterFacts DEF TrayNew
  <2>3. DOMAIN opened = 1 .. Len(opened) /\ DOMAIN opened' = 1 .. Len(opened) + 1 /\ Len(opened) \in Nat
    BY <2>2 DEF Entered
  <2>4. DOMAIN opened \subseteq DOMAIN opened' /\ shown' = shown /\ loop' = loop
    BY <2>2 DEF Enter
  <2>5. SUFFICES ASSUME NEW w \in DOMAIN opened', NEW i \in DOMAIN shown[w], NEW j \in DOMAIN shown[w],
                        i < j, opened'[w].click \notin {shown[w][i], shown[w][j]}
        PROVE  shown[w][i] < shown[w][j]
    BY <2>4 DEF WindowInOrder
  <2>6. CASE w \in DOMAIN opened
    BY <2>2, <2>5, <2>6 DEF Entered, WindowInOrder
  <2>7. CASE w \notin DOMAIN opened
    <3>1. w = Len(opened) + 1 /\ w \in Windows
      BY <2>2, <2>7 DEF Entered
    <3>2. shown[w] = << >>
      BY <3>1 DEF EmptyInv
    <3> QED
      BY <2>5, <3>2
  <2> QED
    BY <2>6, <2>7
<1>13. CASE InitChatbox
  BY <1>13 DEF InitChatbox, WindowInOrder, ghosts
<1>14. CASE TrayInsert
  <2> DEFINE box == chatbox[gtk.user]
  <2>1. box \in Windows /\ gtk.msg \in Msgs /\ opened[box].click = gtk.msg
    BY <1>14 DEF TrayInsert, GtkAt, PlacesInv, BoxesInv, TypeOK
  <2>2. opened' = opened
    BY <1>14 DEF TrayInsert, ghosts
  <2>3. Showed(box, gtk.msg)
    BY <1>14, <2>1, ShowFacts DEF TrayInsert
  <2> HIDE DEF box
  <2>4. SUFFICES ASSUME NEW w \in DOMAIN opened, NEW i \in DOMAIN shown'[w], NEW j \in DOMAIN shown'[w],
                        i < j, opened[w].click \notin {shown'[w][i], shown'[w][j]}
        PROVE  shown'[w][i] < shown'[w][j]
    BY <2>2 DEF WindowInOrder
  <2>5. w \in Windows
    BY BoundAssumption DEF TypeOK, Windows
  <2>6. CASE w # box
    BY <2>3, <2>4, <2>5, <2>6 DEF Showed, WindowInOrder
  <2>7. CASE w = box
    <3>1. /\ DOMAIN shown'[w] = 1 .. Len(shown[w]) + 1 /\ DOMAIN shown[w] = 1 .. Len(shown[w])
          /\ Len(shown[w]) \in Nat
      BY <2>3, <2>7 DEF Showed
    <3>2. i \in DOMAIN shown[w] /\ shown'[w][i] = shown[w][i]
      BY <2>3, <2>4, <2>7, <3>1 DEF Showed
    <3>3. j # Len(shown[w]) + 1
      BY <2>1, <2>3, <2>4, <2>7 DEF Showed
    <3>4. j \in DOMAIN shown[w] /\ shown'[w][j] = shown[w][j]
      BY <2>3, <2>7, <3>1, <3>3 DEF Showed
    <3> QED
      BY <2>4, <3>2, <3>4 DEF WindowInOrder
  <2> QED
    BY <2>6, <2>7
<1>15. CASE TrayTest
  BY <1>15 DEF TrayTest, WindowInOrder, shared, ghosts
<1>16. CASE TrayCalm
  BY <1>16 DEF TrayCalm, WindowInOrder, ghosts
<1>17. CASE TrayFree
  BY <1>17 DEF TrayFree, WindowInOrder, ghosts
<1>18. ASSUME NEW u \in Users, DoubleClick(u) PROVE WindowInOrder'
  <2>1. u \in Users /\ None \in Msgs \cup {None}
    OBVIOUS
  <2>2. Entered(u, None) /\ Enter(u, None)
    BY <1>18, EnterFacts DEF DoubleClick
  <2>3. DOMAIN opened = 1 .. Len(opened) /\ DOMAIN opened' = 1 .. Len(opened) + 1 /\ Len(opened) \in Nat
    BY <2>2 DEF Entered
  <2>4. DOMAIN opened \subseteq DOMAIN opened' /\ shown' = shown /\ loop' = loop
    BY <2>2 DEF Enter
  <2>5. SUFFICES ASSUME NEW w \in DOMAIN opened', NEW i \in DOMAIN shown[w], NEW j \in DOMAIN shown[w],
                        i < j, opened'[w].click \notin {shown[w][i], shown[w][j]}
        PROVE  shown[w][i] < shown[w][j]
    BY <2>4 DEF WindowInOrder
  <2>6. CASE w \in DOMAIN opened
    BY <2>2, <2>5, <2>6 DEF Entered, WindowInOrder
  <2>7. CASE w \notin DOMAIN opened
    <3>1. w = Len(opened) + 1 /\ w \in Windows
      BY <2>2, <2>7 DEF Entered
    <3>2. shown[w] = << >>
      BY <2>7, <3>1 DEF EmptyInv
    <3> QED
      BY <2>5, <3>2
  <2> QED
    BY <2>6, <2>7
<1>19. ASSUME NEW u \in Users, Close(u) PROVE WindowInOrder'
  BY <1>19 DEF Close, WindowInOrder, ghosts
<1>20. CASE UNCHANGED vars
  BY <1>20 DEF vars, WindowInOrder, shared, ghosts
<1> QED
  BY <1>1, <1>2, <1>3, <1>4, <1>5, <1>6, <1>7, <1>8, <1>9, <1>10, <1>11, <1>12, <1>13, <1>14,
     <1>15, <1>16, <1>17, <1>18, <1>19, <1>20 DEF Next

(* The icon blinks, or will, or an alert came too late.                     *)
LEMMA AlertStep ==
  ASSUME TypeOK, PlacesInv, BoxesInv, OrderInv, FatesInv, ChainInv, AlertInv, [Next]_vars
  PROVE  AlertInv'
<1>1. CASE Receive
  BY <1>1 DEF Receive, AlertInv, shared, ghosts, LoopAt
<1>2. CASE AppendRead
  BY <1>2 DEF AppendRead, AlertInv, shared, LoopAt
<1>3. CASE AppendBack
  <2>1. loop.msg \in Msgs
    BY <1>3 DEF AppendBack, LoopAt, PlacesInv
  <2>2. links'.next[MList] = links.next[MList]
    BY <1>3, <2>1, NodeFacts DEF AppendBack
  <2> QED
    BY <1>3 DEF AppendBack, LoopAt, AlertInv, ghosts
<1>4. CASE AppendForward
  BY <1>4 DEF AppendForward, AlertInv, LoopThen
<1>5. CASE Alert
  BY <1>5 DEF Alert, AlertInv
<1>6. CASE Show
  BY <1>6 DEF Show, AlertInv, ghosts, LoopAt
<1>7. CASE TrayNothing
  BY <1>7 DEF TrayNothing, AlertInv, shared
<1>8. CASE TrayTake
  BY <1>8 DEF TrayTake, AlertInv, shared
<1>9. CASE TrayJoinBack
  BY <1>9 DEF TrayJoinBack, AlertInv, ghosts, GtkThen
<1>10. CASE TrayUnlink
  <2>1. links.next[MList] # MList
    BY <1>10 DEF TrayUnlink, GtkAt, ChainInv, Unlinking
  <2> QED
    BY <1>10, <2>1 DEF TrayUnlink, AlertInv, ghosts
<1>11. CASE TrayPresent
  BY <1>11 DEF TrayPresent, AlertInv, shared, GtkThen
<1>12. CASE TrayNew
  BY <1>12 DEF TrayNew, AlertInv, Enter
<1>13. CASE InitChatbox
  BY <1>13 DEF InitChatbox, AlertInv, ghosts, GtkThen, GtkIdle
<1>14. CASE TrayInsert
  BY <1>14 DEF TrayInsert, AlertInv, ghosts, GtkThen
<1>15. CASE TrayTest
  BY <1>15 DEF TrayTest, AlertInv, shared, ghosts, GtkThen
<1>16. CASE TrayCalm
  BY <1>16 DEF TrayCalm, AlertInv, ghosts, GtkAt
<1>17. CASE TrayFree
  BY <1>17 DEF TrayFree, AlertInv, ghosts, GtkIdle
<1>18. ASSUME NEW u \in Users, DoubleClick(u) PROVE AlertInv'
  BY <1>18 DEF DoubleClick, AlertInv, Enter
<1>19. ASSUME NEW u \in Users, Close(u) PROVE AlertInv'
  BY <1>19 DEF Close, AlertInv, ghosts
<1>20. CASE UNCHANGED vars
  BY <1>20 DEF vars, AlertInv, shared, ghosts
<1> QED
  BY <1>1, <1>2, <1>3, <1>4, <1>5, <1>6, <1>7, <1>8, <1>9, <1>10, <1>11, <1>12, <1>13, <1>14,
     <1>15, <1>16, <1>17, <1>18, <1>19, <1>20 DEF Next

-----------------------------------------------------------------------------
(* m holds the nodes that the first i steps of a walk from h meet.           *)
Follows(f, h, i, m) == m = [j \in 0 .. i |-> IF j = 0 THEN h ELSE f[m[j - 1]]]

(* Where a walk is after some steps, given a function that takes them.      *)
LEMMA MetIs ==
  ASSUME NEW f, NEW h, NEW i \in Nat, NEW g, Follows(f, h, i, g)
  PROVE  Met(f, h, i) = g[i]
<1> DEFINE met == CHOOSE m : Follows(f, h, i, m)
<1>1. Met(f, h, i) = met[i]
  BY DEF Met, Follows
<1>2. Follows(f, h, i, g)
  OBVIOUS
<1>3. Follows(f, h, i, met)
  BY <1>2
<1> HIDE DEF met
<1>4. /\ \A j \in 0 .. i : met[j] = IF j = 0 THEN h ELSE f[met[j - 1]]
      /\ \A j \in 0 .. i : g[j] = IF j = 0 THEN h ELSE f[g[j - 1]]
  BY <1>3 DEF Follows
<1> DEFINE S == {j \in 0 .. i : met[j] # g[j]}
<1>5. S = {}
  <2>1. SUFFICES ASSUME S # {} PROVE FALSE
    OBVIOUS
  <2>2. S \in SUBSET Nat
    OBVIOUS
  <2>3. PICK n \in S : \A k \in S : n <= k
    BY <2>1, <2>2, LeastOf
  <2>4. n \in 0 .. i /\ met[n] # g[n]
    BY <2>3
  <2>5. n # 0
    BY <1>4, <2>4
  <2>6. n - 1 \in 0 .. i /\ ~(n <= n - 1)
    BY <2>4, <2>5
  <2>7. met[n - 1] = g[n - 1]
    BY <2>3, <2>6
  <2> QED
    BY <1>4, <2>7
<1>6. i \in 0 .. i
  OBVIOUS
<1> QED
  BY <1>1, <1>5

(* A walk round a ring meets its nodes in order, once.                      *)
LEMMA WalkIs ==
  ASSUME NEW f \in [Nodes -> Nodes], NEW s \in Seq(Msgs), Len(s) <= MaxMsgs,
         f[MList] = IF Len(s) = 0 THEN MList ELSE s[1],
         \A i \in 1 .. Len(s) : f[s[i]] = IF i = Len(s) THEN MList ELSE s[i + 1]
  PROVE  Ends(f, MList) /\ Walk(f, MList) = s
<1> DEFINE n == Len(s)
           node(j) == IF j = 0 \/ j = n + 1 THEN MList ELSE s[j]
<1>1. n \in Nat /\ MaxMsgs \in Nat /\ n <= MaxMsgs /\ \A i \in 1 .. n : s[i] \in Msgs
  BY BoundAssumption
<1>2. ASSUME NEW i \in 0 .. n + 1 PROVE Met(f, MList, i) = node(i)
  <2> DEFINE g == [j \in 0 .. i |-> node(j)]
  <2>1. \A j \in 0 .. i : node(j) = IF j = 0 THEN MList ELSE f[g[j - 1]]
    <3>1. SUFFICES ASSUME NEW j \in 0 .. i, j # 0 PROVE node(j) = f[node(j - 1)]
      <4>1. \A j \in 0 .. i : j # 0 => j - 1 \in 0 .. i
        BY <1>1
      <4> QED
        BY <4>1
    <3>2. j \in 1 .. n + 1 /\ j - 1 \in 0 .. n /\ j - 1 + 1 = j
      BY <1>1, <3>1
    <3>3. CASE j = 1
      BY <1>1, <3>3
    <3>4. CASE j # 1
      <4>1. j - 1 \in 1 .. n /\ node(j - 1) = s[j - 1]
        BY <3>2, <3>4
      <4>2. f[s[j - 1]] = IF j - 1 = n THEN MList ELSE s[j]
        BY <3>2, <4>1
      <4> QED
        BY <4>1
    <3> QED
      BY <3>3, <3>4
  <2>2. Follows(f, MList, i, g)
    BY <2>1 DEF Follows
  <2>3. i \in Nat /\ i \in 0 .. i
    BY <1>1
  <2>4. g[i] = node(i)
    BY <2>3
  <2> HIDE DEF g
  <2>5. Met(f, MList, i) = g[i]
    BY <2>2, MetIs
  <2> QED
    BY <2>4, <2>5
<1>3. DOMAIN f = 0 .. MaxMsgs /\ Cardinality(DOMAIN f) = MaxMsgs + 1
  <2>1. Nodes = 0 .. MaxMsgs
    BY <1>1 DEF Nodes, Msgs, MList
  <2>2. Cardinality(0 .. MaxMsgs) = MaxMsgs - 0 + 1
    BY <1>1, FS_Interval
  <2> QED
    BY <1>1, <2>1, <2>2
<1> HIDE DEF n
<1>4. \A i \in 1 .. n : Met(f, MList, i) = s[i] /\ s[i] # MList
  <2>1. \A i \in 1 .. n : i \in 0 .. n + 1 /\ i # 0 /\ i # n + 1
    BY <1>1
  <2> QED
    BY <1>1, <1>2 DEF Msgs, MList
<1>5. Met(f, MList, n + 1) = MList
  <2>1. n + 1 \in 0 .. n + 1
    BY <1>1
  <2> QED
    BY <1>2, <2>1
<1>6. n + 1 \in Returns(f, MList) /\ \A i \in Returns(f, MList) : n + 1 <= i
  <2>1. Returns(f, MList) = {i \in 1 .. MaxMsgs + 1 : Met(f, MList, i) = MList}
    BY <1>3 DEF Returns
  <2>2. n + 1 \in 1 .. MaxMsgs + 1
    BY <1>1
  <2>3. \A i \in 1 .. MaxMsgs + 1 : i \notin 1 .. n => n + 1 <= i
    BY <1>1
  <2> QED
    BY <1>4, <1>5, <2>1, <2>2, <2>3
<1>7. Ends(f, MList)
  BY <1>6 DEF Ends
<1> DEFINE First(k) == k \in Returns(f, MList) /\ \A j \in Returns(f, MList) : k <= j
           steps == CHOOSE k \in Returns(f, MList) : \A j \in Returns(f, MList) : k <= j
<1>8. steps = n + 1
  <2>1. Returns(f, MList) \subseteq Nat
    BY DEF Returns
  <2>2. steps \in Returns(f, MList) /\ \A j \in Returns(f, MList) : steps <= j
    BY <1>6
  <2> HIDE DEF steps
  <2> QED
    BY <1>6, <2>1, <2>2
<1>9. Walk(f, MList) = [i \in 1 .. steps - 1 |-> Met(f, MList, i)]
  BY DEF Walk
<1> HIDE DEF steps
<1>10. steps - 1 = n
  BY <1>1, <1>8
<1>11. [i \in 1 .. n |-> Met(f, MList, i)] = [i \in 1 .. n |-> s[i]]
  BY <1>4
<1>12. s = [i \in 1 .. n |-> s[i]]
  BY DEF n
<1> QED
  BY <1>7, <1>9, <1>10, <1>11, <1>12

-----------------------------------------------------------------------------
(* Before the first message the ring is empty.                              *)
LEMMA InvInit == Init => IInv
<1> SUFFICES ASSUME Init PROVE IInv
  OBVIOUS
<1>1. ToSet(unread) = {} /\ Len(unread) = 0 /\ Taken = {} /\ loop.at = "idle" /\ loop.msg = 0 /\ gtk.at = "idle"
      /\ gtk.msg = None
  BY DEF Init, ToSet, Taken, LoopIdle, GtkIdle
<1>2. links.next = [x \in Nodes |-> x] /\ links.prev = [x \in Nodes |-> x] /\ links \in Links /\ MList \in Nodes
  BY DEF Init, Alone, Links, Nodes
<1>3. TypeOK
  BY <1>2, BoundAssumption DEF Init, TypeOK, LoopIdle, GtkIdle, LoopState, GtkState, LoopPlaces,
     GtkPlaces
<1>4. PlacesInv /\ BoxesInv /\ OrderInv
  BY <1>1 DEF Init, PlacesInv, BoxesInv, OrderInv, Unlinking
<1>5. FatesInv /\ FreedInv
  <2>1. New = {} /\ Arrived = {}
    BY <1>1 DEF New, Arrived, Appending
  <2>2. \A w \in Windows : ToSet(shown[w]) = {}
    BY DEF Init, ToSet
  <2>3. \A m \in Msgs : ~Displayed(m)
    BY <2>2 DEF Displayed
  <2> QED
    BY <1>1, <2>1, <2>3 DEF Init, FatesInv, FreedInv, Fates, Somewhere
<1>6. ChainInv /\ AlertInv
  BY <1>1, <1>2 DEF AlertInv, MList
<1>7. RingInv
  <2>1. LastNode = MList /\ links.next[MList] = MList /\ links.prev[MList] = MList
    BY <1>1, <1>2 DEF LastNode, NodeAt
  <2> QED
    BY <1>1, <2>1 DEF Init, RingInv, Unlinking
<1>8. LengthInv
  BY <1>1 DEF LengthInv, New, Appending
<1>9. SeenInv /\ DroppedBehindNewWindow /\ EmptyInv /\ WindowInOrder
  BY <1>1 DEF Init, SeenInv, DroppedBehindNewWindow, EmptyInv, WindowInOrder
<1> QED
  BY <1>3, <1>4, <1>5, <1>6, <1>7, <1>8, <1>9 DEF IInv

(* The inductive invariant: what the links of the ring are between any two  *)
(* steps of the two threads, and what is where of the messages.             *)
THEOREM Invariance == Spec => []IInv
<1>1. IInv /\ [Next]_vars => IInv'
  BY TypeStep, PlacesStep, BoxesStep, OrderStep, FatesStep, FreedStep, ChainStep, RingStep,
     LengthStep, SeenStep, DroppedStep, EmptyStep, WindowsStep, AlertStep DEF IInv
<1> QED
  BY InvInit, <1>1, PTL DEF Spec

(* Between two calls on mlist the ring holds the unread messages in order,  *)
(* in both directions, unless a message was taken as the only one while     *)
(* another was appended.                                                    *)
THEOREM ListStaysIntact == Spec => []ListIntact
<1>1. ASSUME IInv PROVE ListIntact
  <2>1. SUFFICES ASSUME BetweenAppends, BetweenTakes, ~overlapped
        PROVE  /\ Ends(links.next, MList) /\ Walk(links.next, MList) = unread
               /\ Ends(links.prev, MList) /\ Walk(links.prev, MList) = Reverse(unread)
    BY DEF ListIntact
  <2> DEFINE n == Len(unread)
             back == Reverse(unread)
  <2>2. TypeOK /\ OrderInv /\ RingInv /\ LengthInv
    BY <1>1 DEF IInv
  <2>3. /\ n \in Nat /\ n <= MaxMsgs /\ unread \in Seq(Msgs)
        /\ links.next \in [Nodes -> Nodes] /\ links.prev \in [Nodes -> Nodes]
    <3>1. n <= loop.msg /\ loop.msg <= MaxMsgs /\ loop.msg \in Nat
      BY <2>2 DEF LengthInv, TypeOK, LoopState
    <3> QED
      BY <2>2, <3>1, NodeFacts, BoundAssumption DEF TypeOK
  <2>4. /\ \A i \in 0 .. n - 1 : links.next[NodeAt(i)] = unread[i + 1]
        /\ links.next[LastNode] = MList
        /\ \A i \in 1 .. n : links.prev[unread[i]] = NodeAt(i - 1)
        /\ links.prev[MList] = LastNode
    BY <2>1, <2>2 DEF RingInv, BetweenAppends, BetweenTakes
  <2>5. links.next[MList] = IF n = 0 THEN MList ELSE unread[1]
    <3>1. n # 0 => 0 \in 0 .. n - 1
      BY <2>3
    <3> QED
      BY <2>3, <2>4 DEF NodeAt, LastNode
  <2>6. \A i \in 1 .. n : links.next[unread[i]] = IF i = n THEN MList ELSE unread[i + 1]
    <3>1. \A i \in 1 .. n : i # 0 /\ (i # n => i \in 0 .. n - 1)
      BY <2>3
    <3> QED
      BY <2>3, <2>4, <3>1 DEF NodeAt, LastNode
  <2>7. Ends(links.next, MList) /\ Walk(links.next, MList) = unread
    BY <2>3, <2>5, <2>6, WalkIs
  <2>8. back \in Seq(Msgs) /\ Len(back) = n /\ \A i \in 1 .. n : back[i] = unread[n - i + 1]
    <3>1. \A i \in 1 .. n : n - i + 1 \in 1 .. n
      BY <2>3
    <3>2. back = [i \in 1 .. n |-> unread[n - i + 1]]
      BY DEF Reverse
    <3>3. \A i \in 1 .. n : unread[n - i + 1] \in Msgs
      BY <2>3, <3>1
    <3> HIDE DEF back, n
    <3>4. back \in [1 .. n -> Msgs]
      BY <3>2, <3>3
    <3> QED
      BY <2>3, <3>2, <3>4
  <2>9. links.prev[MList] = IF n = 0 THEN MList ELSE back[1]
    <3>1. n # 0 => 1 \in 1 .. n /\ n - 1 + 1 = n
      BY <2>3
    <3> QED
      BY <2>4, <2>8 DEF NodeAt, LastNode
  <2>10. \A i \in 1 .. n : links.prev[back[i]] = IF i = n THEN MList ELSE back[i + 1]
    <3>1. SUFFICES ASSUME NEW i \in 1 .. n
          PROVE  links.prev[back[i]] = IF i = n THEN MList ELSE back[i + 1]
      OBVIOUS
    <3>2. n - i + 1 \in 1 .. n /\ n - i + 1 - 1 = n - i
      BY <2>3
    <3> HIDE DEF back, n
    <3>3. links.prev[back[i]] = NodeAt(n - i)
      <4>1. back[i] = unread[n - i + 1]
        BY <2>8
      <4>2. \A k \in 1 .. n : links.prev[unread[k]] = NodeAt(k - 1)
        BY <2>4
      <4> DEFINE k == n - i + 1
      <4>3. k \in 1 .. n /\ k - 1 = n - i
        BY <2>3, <3>2
      <4>4. back[i] = unread[k]
        BY <4>1
      <4> HIDE DEF k
      <4>5. links.prev[unread[k]] = NodeAt(k - 1)
        BY <4>2, <4>3
      <4> QED
        BY <4>3, <4>4, <4>5
    <3>4. CASE i = n
      BY <3>3, <3>4 DEF NodeAt
    <3>5. CASE i # n
      <4>1. i + 1 \in 1 .. n /\ n - (i + 1) + 1 = n - i /\ n - i # 0
        BY <2>3, <3>5
      <4> QED
        BY <2>8, <3>3 DEF NodeAt
    <3> QED
      BY <3>4, <3>5
  <2> HIDE DEF back
  <2>11. Ends(links.prev, MList) /\ Walk(links.prev, MList) = back
    BY <2>3, <2>8, <2>9, <2>10, WalkIs
  <2> QED
    BY <2>7, <2>11 DEF back
<1> QED
  BY <1>1, Invariance, PTL

(* The message loop writes to a node that was given back only after such an *)
(* overlap, and tray_icon_activated never takes a message that was.         *)
THEOREM FreedByOverlapOnly == Spec => []FreedOnlyByOverlap
<1>1. IInv => FreedOnlyByOverlap
  BY DEF IInv, RingInv, ChainInv, FreedOnlyByOverlap
<1> QED
  BY <1>1, Invariance, PTL

(* While a message can be found and both threads are idle, the icon blinks, *)
(* unless an alert came between the test of the list and the end of the     *)
(* blinking.                                                                *)
THEOREM IconBlinks == Spec => []BlinksWhileUnread
<1>1. IInv => BlinksWhileUnread
  BY DEF IInv, AlertInv, BlinksWhileUnread
<1> QED
  BY <1>1, Invariance, PTL

(* The windows show the messages in order, each message has one fate, and   *)
(* those that are dropped have a window that was opened after they came.    *)
THEOREM EachIsDelivered == Spec => []Delivered
<1>1. ASSUME IInv PROVE OneFate
  <2>1. SUFFICES ASSUME Running, NEW m \in Msgs, Done(m)
        PROVE  Cardinality(Windowed(m)) + (IF m \in ToSet(unread) THEN 1 ELSE 0)
                 + (IF m \in dropped THEN 1 ELSE 0) + (IF m \in Taken THEN 1 ELSE 0) = 1
    BY DEF OneFate
  <2>2. m \in Arrived
    BY <1>1, <2>1, NodeFacts DEF IInv, TypeOK, LoopState, Done, Arrived, New, Appending, Msgs
  <2>3. Fates(m) /\ Somewhere(m)
    BY <1>1, <2>1, <2>2 DEF IInv, FatesInv
  <2>4. Cardinality(Windowed(m)) = IF Displayed(m) THEN 1 ELSE 0
    <3>1. CASE Displayed(m)
      <4>1. PICK w \in Windows : m \in ToSet(shown[w])
        BY <3>1 DEF Displayed
      <4>2. Windowed(m) = {w}
        BY <2>3, <4>1 DEF Windowed, Fates
      <4> QED
        BY <3>1, <4>2, FS_Singleton
    <3>2. CASE ~Displayed(m)
      <4>1. Windowed(m) = {}
        BY <3>2 DEF Windowed, Displayed
      <4> QED
        BY <3>2, <4>1, FS_EmptySet
    <3> QED
      BY <3>1, <3>2
  <2> QED
    BY <2>3, <2>4 DEF Fates, Somewhere
<1>2. IInv => Delivered
  BY <1>1 DEF IInv, Delivered
<1> QED
  BY <1>2, Invariance, PTL

=============================================================================
