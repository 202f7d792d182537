-------------------------- MODULE LegacyChatProofs ---------------------------
(***************************************************************************)
(* The theorems about LegacyChat, for any users and groups and any number  *)
(* of messages: what the windows show, and when memory is misused.         *)
(***************************************************************************)
EXTENDS LegacyChat, TLAPS

Message == [chat : Chats, stranger : BOOLEAN]
Window == [open : BOOLEAN, text : Seq(Nat)]
Tray == {"tray_scan", "tray_new", "tray_free"}
Delivering == {"find_user", "lock", "show", "reply"}

TypeOK ==
  /\ ulist \subseteq Users /\ rows \subseteq Users
  /\ msg \in Seq(Message) /\ mlist \in Seq(Nat)
  /\ window \in [Chats -> Window]
  /\ lock \in [Kinds -> {"none", "recv"}] /\ gdk \in {"none", "gtk"}
  /\ recvAt \in {"idle", "row"} \cup Delivering
  /\ gtkAt \in {"idle", "open", "close"} \cup Tray
  /\ gtkMsg \in Nat /\ gtkChat \in Chats \cup {None}

(* The receiver delivers the last message that came, GTK one that was       *)
(* queued before all that are queued.                                       *)
NumbersInv ==
  /\ recvMsg = Len(msg) /\ gtkMsg <= Len(msg)
  /\ recvAt \in Delivering => recvMsg >= 1
  /\ gtkAt \in Tray => gtkMsg >= 1
  /\ recvAt = "find_user" => msg[recvMsg].chat \in Users
  /\ gtkAt \in {"open", "close"} => gtkChat \in Chats
  /\ \A a \in DOMAIN mlist : gtkMsg < mlist[a] /\ mlist[a] <= Len(msg)
  /\ \A a, b \in DOMAIN mlist : a < b => mlist[a] < mlist[b]

(* Who is where tells who has which lock.  The window that the receiver     *)
(* found stays open, and none of the kind opens beside the tray handler.    *)
LockInv ==
  /\ gdk = "none" <=> gtkAt = "idle"
  /\ \A kind \in Kinds :
       lock[kind] = "recv" <=> recvAt = "show" /\ Kind(msg[recvMsg].chat) = kind
  /\ recvAt = "show" => Open(msg[recvMsg].chat)
  /\ gtkAt = "tray_new" =>
       \A c \in Chats : Kind(c) = Kind(msg[gtkMsg].chat) => ~Open(c)

(* A private message that is in a window before the receiver has put it     *)
(* there was put by the tray handler, which is about to free it.            *)
TextInv ==
  /\ \A c \in Chats : ~Open(c) => window[c].text = <<>>
  /\ \A c \in Chats : \A a \in DOMAIN window[c].text :
       /\ window[c].text[a] \in 1 .. Len(msg)
       /\ c \in Users /\ window[c].text[a] = recvMsg /\ recvAt \in {"find_user", "lock", "show"} =>
            recvMsg \in freed \/ (gtkAt = "tray_free" /\ gtkMsg = recvMsg)
  /\ ShownInOrder

(* What is freed is of a stranger or went through the tray handler; what    *)
(* has no user is of a stranger or in the hands of the receiver.            *)
MisuseInv ==
  /\ \A n \in 1 .. Len(msg) :
       /\ msg[n].chat \in Users /\ ~msg[n].stranger => msg[n].chat \in ulist
       /\ n \notin hasUser => msg[n].stranger \/ (n = recvMsg /\ recvAt = "find_user")
  /\ \A n \in freed :
       /\ n \in 1 .. Len(msg)
       /\ msg[n].stranger \/ n < gtkMsg \/ (n = gtkMsg /\ gtkAt \notin Tray)
  /\ MisuseExplained

(* A tray handler that frees its message showed it or found a window.       *)
LossInv ==
  gtkAt = "tray_free" =>
    \/ gtkMsg \in displayed
    \/ \E c \in Chats : Open(c) /\ Kind(c) = Kind(msg[gtkMsg].chat)

IInv == TypeOK /\ NumbersInv /\ LockInv /\ TextInv /\ MisuseInv /\ LossInv

-----------------------------------------------------------------------------
(* Every chat is of one of two kinds.                                       *)
LEMMA KindOfChat ==
  \A c \in Chats : Kind(c) \in Kinds /\ (Kind(c) = "private" <=> c \in Users)
BY ChatAssumption DEF Chats, Kind, Kinds

(* What the queueing of a message does to the two lists.                    *)
Queued(u, chat) ==
  /\ msg' \in Seq(Message) /\ mlist' \in Seq(Nat)
  /\ Len(msg') = Len(msg) + 1 /\ recvMsg' = Len(msg')
  /\ msg'[Len(msg')].chat = chat
  /\ msg'[Len(msg')].stranger <=> u \notin ulist
  /\ \A n \in 1 .. Len(msg) : msg'[n] = msg[n]
  /\ Len(mlist') = Len(mlist) + 1
  /\ mlist'[Len(mlist')] = Len(msg')
  /\ \A a \in 1 .. Len(mlist) : mlist'[a] = mlist[a]

LEMMA QueueFacts ==
  ASSUME TypeOK, NEW u \in Users, NEW chat \in Chats, Queue(u, chat)
  PROVE  Queued(u, chat)
<1> DEFINE new == [chat |-> chat, stranger |-> u \notin ulist]
<1>1. new \in Message
  BY DEF Message
<1>2. msg' = Append(msg, new) /\ mlist' = Append(mlist, Len(msg')) /\ recvMsg' = Len(msg')
  BY DEF Queue
<1>3. new.chat = chat /\ (new.stranger <=> u \notin ulist)
  OBVIOUS
<1>4. msg \in Seq(Message) /\ mlist \in Seq(Nat)
  BY DEF TypeOK
<1> HIDE DEF new
<1>5. msg' \in Seq(Message) /\ Len(msg') = Len(msg) + 1
  BY <1>1, <1>2, <1>4
<1>6. msg'[Len(msg')] = new /\ \A n \in 1 .. Len(msg) : msg'[n] = msg[n]
  BY <1>1, <1>2, <1>4
<1>7. Len(msg') \in Nat
  BY <1>5
<1>8. mlist' \in Seq(Nat) /\ Len(mlist') = Len(mlist) + 1 /\ mlist'[Len(mlist')] = Len(msg')
  BY <1>2, <1>4, <1>7
<1>9. \A a \in 1 .. Len(mlist) : mlist'[a] = mlist[a]
  BY <1>2, <1>4, <1>7
<1> QED
  BY <1>2, <1>3, <1>5, <1>6, <1>8, <1>9 DEF Queued

(* What a window shows after a message was added.                           *)
LEMMA InsertFacts ==
  ASSUME TypeOK, NEW chat \in Chats, NEW n \in Nat, Insert(chat, n)
  PROVE  /\ window' \in [Chats -> Window]
         /\ window'[chat].open
         /\ Len(window'[chat].text) = Len(window[chat].text) + 1
         /\ window'[chat].text[Len(window[chat].text) + 1] = n
         /\ \A a \in DOMAIN window[chat].text : window'[chat].text[a] = window[chat].text[a]
         /\ \A c \in Chats \ {chat} : window'[c] = window[c]
<1> DEFINE text == window[chat].text
           new == [open |-> TRUE, text |-> Append(text, n)]
<1>1. window \in [Chats -> Window]
  BY DEF TypeOK
<1>2. text \in Seq(Nat)
  BY <1>1 DEF Window
<1>3. window' = [window EXCEPT ![chat] = new]
  BY DEF Insert
<1>4. new \in Window
  BY <1>2 DEF Window
<1>5. window'[chat] = new /\ \A c \in Chats \ {chat} : window'[c] = window[c]
  BY <1>1, <1>3
<1>6. window' \in [Chats -> Window]
  BY <1>1, <1>3, <1>4
<1>7. new.open /\ new.text = Append(text, n)
  OBVIOUS
<1>8. /\ Len(Append(text, n)) = Len(text) + 1
      /\ Append(text, n)[Len(text) + 1] = n
      /\ \A a \in DOMAIN text : Append(text, n)[a] = text[a]
  <2> HIDE DEF text
  <2> QED
    BY <1>2
<1> QED
  BY <1>5, <1>6, <1>7, <1>8

(* The types.                                                               *)
LEMMA TypeStep ==
  ASSUME TypeOK, NumbersInv, LockInv, [Next]_vars
  PROVE TypeOK'
<1>1. ASSUME NEW u \in Users, RecvEntry(u) PROVE TypeOK'
  BY <1>1 DEF RecvEntry, TypeOK, msgVars, chatVars, lockVars, gtkVars
<1>2. CASE AddRows
  BY <1>2 DEF AddRows, TypeOK, msgVars, chatVars, lockVars, gtkVars
<1>3. ASSUME NEW u \in Users, RecvPrivate(u) PROVE TypeOK'
  <2>1. Queue(u, u) /\ u \in Chats
    BY <1>3 DEF RecvPrivate, Chats
  <2>2. Queued(u, u)
    BY <2>1, QueueFacts
  <2> QED
    BY <1>3, <2>2 DEF Queued, RecvPrivate, TypeOK, Delivering, chatVars, lockVars, gtkVars
<1>4. ASSUME NEW u \in Users, NEW g \in Groups, RecvGroup(u, g) PROVE TypeOK'
  <2>1. Queue(u, g) /\ g \in Chats
    BY <1>4 DEF RecvGroup, Chats
  <2>2. Queued(u, g)
    BY <2>1, QueueFacts
  <2> QED
    BY <1>4, <2>2 DEF Queued, RecvGroup, TypeOK, Delivering, chatVars, lockVars, gtkVars
<1>5. CASE UseAfterFree
  BY <1>5 DEF UseAfterFree, TypeOK, msgVars, chatVars, lockVars, recvVars, gtkVars
<1>6. CASE FreeOfStranger
  BY <1>6 DEF FreeOfStranger, TypeOK, chatVars, lockVars, gtkVars
<1>7. CASE FindUser
  BY <1>7 DEF FindUser, TypeOK, Delivering, chatVars, lockVars, gtkVars
<1>8. CASE RecvScan
  BY <1>8 DEF RecvScan, TypeOK, Delivering, msgVars, chatVars, gtkVars
<1>9. CASE RecvShow
  <2>1. recvMsg \in 1 .. Len(msg) /\ recvMsg \in Nat
    BY <1>9 DEF RecvShow, NumbersInv, Delivering
  <2>2. msg[recvMsg].chat \in Chats
    <3>1. msg[recvMsg] \in Message
      BY <2>1 DEF TypeOK
    <3> QED
      BY <3>1 DEF Message
  <2>3. Insert(msg[recvMsg].chat, recvMsg)
    BY <1>9 DEF RecvShow
  <2>4. window' \in [Chats -> Window]
    BY <2>1, <2>2, <2>3, InsertFacts
  <2>5. lock' \in [Kinds -> {"none", "recv"}]
    BY <1>9 DEF RecvShow, TypeOK
  <2>6. UNCHANGED <<ulist, rows, msg, mlist, gdk, gtkAt, gtkMsg, gtkChat>> /\ recvAt' = "reply"
    BY <1>9 DEF RecvShow, gtkVars, msgVars
  <2> QED
    BY <2>4, <2>5, <2>6 DEF TypeOK, Delivering
<1>10. CASE Reply
  BY <1>10 DEF Reply, TypeOK, msgVars, chatVars, lockVars, gtkVars
<1>11. CASE TrayClick
  BY <1>11 DEF TrayClick, TypeOK, Tray, chatVars, recvVars, Callback
<1>12. ASSUME NEW c \in Chats, DoubleClick(c) PROVE TypeOK'
  BY <1>12 DEF DoubleClick, TypeOK, msgVars, chatVars, recvVars, Callback
<1>13. ASSUME NEW c \in Chats, Close(c) PROVE TypeOK'
  BY <1>13 DEF Close, TypeOK, msgVars, chatVars, recvVars, Callback
<1>14. CASE TrayScan
  BY <1>14 DEF TrayScan, TypeOK, Tray, msgVars, chatVars, lockVars, recvVars
<1>15. CASE TrayNew
  <2>1. gtkMsg \in 1 .. Len(msg) /\ gtkMsg \in Nat
    BY <1>15 DEF TrayNew, TypeOK, NumbersInv
  <2>2. msg[gtkMsg].chat \in Chats
    <3>1. msg[gtkMsg] \in Message
      BY <2>1 DEF TypeOK
    <3> QED
      BY <3>1 DEF Message
  <2>3. Insert(msg[gtkMsg].chat, gtkMsg)
    BY <1>15 DEF TrayNew
  <2>4. window' \in [Chats -> Window]
    BY <2>1, <2>2, <2>3, InsertFacts
  <2>5. /\ UNCHANGED <<ulist, rows, msg, mlist, lock, gdk, recvAt, gtkMsg, gtkChat>>
        /\ gtkAt' = "tray_free"
    BY <1>15 DEF TrayNew, lockVars, recvVars, msgVars
  <2> QED
    BY <2>4, <2>5 DEF TypeOK, Tray
<1>16. CASE TrayMisuse
  BY <1>16 DEF TrayMisuse, TypeOK, msgVars, chatVars, lockVars, recvVars, gtkVars
<1>17. CASE TrayFree
  BY <1>17 DEF TrayFree, TypeOK, chatVars, recvVars, CallbackReturn
<1>18. CASE NewChatbox
  BY <1>18 DEF NewChatbox, TypeOK, NumbersInv, Window, msgVars, recvVars, CallbackReturn
<1>19. CASE CloseChatbox
  BY <1>19 DEF CloseChatbox, TypeOK, NumbersInv, Window, Closed, msgVars, recvVars,
     CallbackReturn
<1>20. CASE UNCHANGED vars
  BY <1>20 DEF TypeOK, vars, msgVars, chatVars, lockVars, recvVars, gtkVars
<1> QED
  BY <1>1, <1>2, <1>3, <1>4, <1>5, <1>6, <1>7, <1>8, <1>9, <1>10, <1>11, <1>12, <1>13,
     <1>14, <1>15, <1>16, <1>17, <1>18, <1>19, <1>20
  DEF Next, Arrival, RecvSteps, Click, GtkSteps

(* The numbers of the messages.                                             *)
LEMMA NumbersStep ==
  ASSUME TypeOK, NumbersInv, LockInv, [Next]_vars
  PROVE NumbersInv'
<1>1. ASSUME NEW u \in Users, RecvEntry(u) PROVE NumbersInv'
  BY <1>1 DEF RecvEntry, NumbersInv, Delivering, msgVars, gtkVars
<1>2. CASE AddRows
  BY <1>2 DEF AddRows, NumbersInv, Delivering, msgVars, gtkVars
<1>3. ASSUME NEW u \in Users, RecvPrivate(u) PROVE NumbersInv'
  <2>1. Queue(u, u) /\ u \in Chats
    BY <1>3 DEF RecvPrivate, Chats
  <2>2. Queued(u, u)
    BY <2>1, QueueFacts
  <2>3. gtkMsg \in Nat /\ gtkMsg <= Len(msg) /\ Len(msg) \in Nat /\ Len(mlist) \in Nat
    BY DEF TypeOK, NumbersInv
  <2>4. gtkMsg' = gtkMsg /\ gtkAt' = gtkAt /\ gtkChat' = gtkChat
    BY <1>3 DEF RecvPrivate, gtkVars
  <2>5. \A a \in DOMAIN mlist' :
          \/ a \in DOMAIN mlist /\ mlist'[a] = mlist[a]
          \/ a = Len(mlist) + 1 /\ mlist'[a] = Len(msg) + 1
    BY <2>2, <2>3 DEF Queued
  <2>6. \A a \in DOMAIN mlist : mlist[a] \in Nat
    BY DEF TypeOK
  <2>7. \A a \in DOMAIN mlist' : gtkMsg' < mlist'[a] /\ mlist'[a] <= Len(msg')
    <3>1. \A a \in DOMAIN mlist : gtkMsg < mlist[a] /\ mlist[a] <= Len(msg)
      BY DEF NumbersInv
    <3>2. Len(msg') = Len(msg) + 1
      BY <2>2 DEF Queued
    <3> QED
      BY <2>3, <2>4, <2>5, <2>6, <3>1, <3>2
  <2>8. \A a, b \in DOMAIN mlist' : a < b => mlist'[a] < mlist'[b]
    <3>1. SUFFICES ASSUME NEW a \in DOMAIN mlist', NEW b \in DOMAIN mlist', a < b
          PROVE  mlist'[a] < mlist'[b]
      OBVIOUS
    <3>2. a \in DOMAIN mlist /\ mlist'[a] = mlist[a] /\ mlist[a] \in Nat
      BY <2>2, <2>3, <2>5, <2>6, <3>1 DEF Queued
    <3>3. mlist[a] <= Len(msg)
      BY <3>2 DEF NumbersInv
    <3>4. CASE b \in DOMAIN mlist /\ mlist'[b] = mlist[b]
      BY <3>1, <3>2, <3>4 DEF NumbersInv
    <3>5. CASE mlist'[b] = Len(msg) + 1
      BY <2>3, <3>2, <3>3, <3>5
    <3> QED
      BY <2>5, <3>4, <3>5
  <2>9. recvMsg' = Len(msg') /\ gtkMsg' <= Len(msg') /\ recvMsg' >= 1
    BY <2>2, <2>3, <2>4 DEF Queued
  <2>10. recvAt' = "find_user" => msg'[recvMsg'].chat \in Users
    BY <1>3, <2>2 DEF RecvPrivate, Queued
  <2>11. /\ gtkAt' \in Tray => gtkMsg' >= 1
         /\ gtkAt' \in {"open", "close"} => gtkChat' \in Chats
    BY <2>4 DEF NumbersInv
  <2> QED
    BY <2>7, <2>8, <2>9, <2>10, <2>11 DEF NumbersInv
<1>4. ASSUME NEW u \in Users, NEW g \in Groups, RecvGroup(u, g) PROVE NumbersInv'
  <2>1. Queue(u, g) /\ g \in Chats
    BY <1>4 DEF RecvGroup, Chats
  <2>2. Queued(u, g)
    BY <2>1, QueueFacts
  <2>3. gtkMsg \in Nat /\ gtkMsg <= Len(msg) /\ Len(msg) \in Nat /\ Len(mlist) \in Nat
    BY DEF TypeOK, NumbersInv
  <2>4. gtkMsg' = gtkMsg /\ gtkAt' = gtkAt /\ gtkChat' = gtkChat
    BY <1>4 DEF RecvGroup, gtkVars
  <2>5. \A a \in DOMAIN mlist' :
          \/ a \in DOMAIN mlist /\ mlist'[a] = mlist[a]
          \/ a = Len(mlist) + 1 /\ mlist'[a] = Len(msg) + 1
    BY <2>2, <2>3 DEF Queued
  <2>6. \A a \in DOMAIN mlist : mlist[a] \in Nat
    BY DEF TypeOK
  <2>7. \A a \in DOMAIN mlist' : gtkMsg' < mlist'[a] /\ mlist'[a] <= Len(msg')
    <3>1. \A a \in DOMAIN mlist : gtkMsg < mlist[a] /\ mlist[a] <= Len(msg)
      BY DEF NumbersInv
    <3>2. Len(msg') = Len(msg) + 1
      BY <2>2 DEF Queued
    <3> QED
      BY <2>3, <2>4, <2>5, <2>6, <3>1, <3>2
  <2>8. \A a, b \in DOMAIN mlist' : a < b => mlist'[a] < mlist'[b]
    <3>1. SUFFICES ASSUME NEW a \in DOMAIN mlist', NEW b \in DOMAIN mlist', a < b
          PROVE  mlist'[a] < mlist'[b]
      OBVIOUS
    <3>2. a \in DOMAIN mlist /\ mlist'[a] = mlist[a] /\ mlist[a] \in Nat
      BY <2>2, <2>3, <2>5, <2>6, <3>1 DEF Queued
    <3>3. mlist[a] <= Len(msg)
      BY <3>2 DEF NumbersInv
    <3>4. CASE b \in DOMAIN mlist /\ mlist'[b] = mlist[b]
      BY <3>1, <3>2, <3>4 DEF NumbersInv
    <3>5. CASE mlist'[b] = Len(msg) + 1
      BY <2>3, <3>2, <3>3, <3>5
    <3> QED
      BY <2>5, <3>4, <3>5
  <2>9. recvMsg' = Len(msg') /\ gtkMsg' <= Len(msg') /\ recvMsg' >= 1
    BY <2>2, <2>3, <2>4 DEF Queued
  <2>10. recvAt' = "find_user" => msg'[recvMsg'].chat \in Users
    BY <1>4, <2>2 DEF RecvGroup, Queued
  <2>11. /\ gtkAt' \in Tray => gtkMsg' >= 1
         /\ gtkAt' \in {"open", "close"} => gtkChat' \in Chats
    BY <2>4 DEF NumbersInv
  <2> QED
    BY <2>7, <2>8, <2>9, <2>10, <2>11 DEF NumbersInv
<1>5. CASE UseAfterFree
  BY <1>5 DEF UseAfterFree, NumbersInv, msgVars, recvVars, gtkVars
<1>6. CASE FreeOfStranger
  BY <1>6 DEF FreeOfStranger, NumbersInv, Delivering, gtkVars
<1>7. CASE FindUser
  BY <1>7 DEF FindUser, NumbersInv, Delivering, gtkVars
<1>8. CASE RecvScan
  BY <1>8 DEF RecvScan, NumbersInv, Delivering, msgVars, gtkVars
<1>9. CASE RecvShow
  BY <1>9 DEF RecvShow, NumbersInv, Delivering, msgVars, gtkVars
<1>10. CASE Reply
  BY <1>10 DEF Reply, NumbersInv, Delivering, msgVars, gtkVars
<1>11. CASE TrayClick
  <2>1. /\ UNCHANGED <<msg, recvAt, recvMsg, gtkChat>>
        /\ mlist # <<>> /\ gtkMsg' = Head(mlist) /\ mlist' = Tail(mlist)
        /\ gtkAt' = "tray_scan"
    BY <1>11 DEF TrayClick, Callback, recvVars
  <2>2. /\ gtkMsg' = mlist[1] /\ 1 \in DOMAIN mlist
        /\ \A a \in DOMAIN mlist' : a + 1 \in DOMAIN mlist /\ mlist'[a] = mlist[a + 1] /\ 1 < a + 1 /\ a \in Nat
    BY <2>1 DEF TypeOK
  <2>3. gtkMsg \in Nat /\ Len(msg) \in Nat /\ \A a \in DOMAIN mlist : mlist[a] \in Nat
    BY DEF TypeOK
  <2>4. gtkMsg' <= Len(msg') /\ gtkMsg' >= 1
    BY <2>1, <2>2, <2>3 DEF NumbersInv
  <2>5. \A a \in DOMAIN mlist' : gtkMsg' < mlist'[a] /\ mlist'[a] <= Len(msg')
    BY <2>1, <2>2 DEF NumbersInv
  <2>6. \A a, b \in DOMAIN mlist' : a < b => mlist'[a] < mlist'[b]
    <3>1. SUFFICES ASSUME NEW a \in DOMAIN mlist', NEW b \in DOMAIN mlist', a < b
          PROVE  mlist'[a] < mlist'[b]
      OBVIOUS
    <3>2. a + 1 < b + 1
      BY <2>2, <3>1
    <3> QED
      BY <2>2, <3>2 DEF NumbersInv
  <2> QED
    BY <2>1, <2>4, <2>5, <2>6 DEF NumbersInv
<1>12. ASSUME NEW c \in Chats, DoubleClick(c) PROVE NumbersInv'
  BY <1>12 DEF DoubleClick, NumbersInv, Tray, msgVars, recvVars, Callback
<1>13. ASSUME NEW c \in Chats, Close(c) PROVE NumbersInv'
  BY <1>13 DEF Close, NumbersInv, Tray, msgVars, recvVars, Callback
<1>14. CASE TrayScan
  BY <1>14 DEF TrayScan, NumbersInv, Tray, msgVars, recvVars
<1>15. CASE TrayNew
  BY <1>15 DEF TrayNew, NumbersInv, Tray, msgVars, recvVars
<1>16. CASE TrayMisuse
  BY <1>16 DEF TrayMisuse, NumbersInv, msgVars, recvVars, gtkVars
<1>17. CASE TrayFree
  BY <1>17 DEF TrayFree, NumbersInv, Tray, recvVars, CallbackReturn
<1>18. CASE NewChatbox
  BY <1>18 DEF NewChatbox, NumbersInv, Tray, msgVars, recvVars, CallbackReturn
<1>19. CASE CloseChatbox
  BY <1>19 DEF CloseChatbox, NumbersInv, Tray, msgVars, recvVars, CallbackReturn
<1>20. CASE UNCHANGED vars
  BY <1>20 DEF NumbersInv, vars, msgVars, recvVars, gtkVars
<1> QED
  BY <1>1, <1>2, <1>3, <1>4, <1>5, <1>6, <1>7, <1>8, <1>9, <1>10, <1>11, <1>12, <1>13,
     <1>14, <1>15, <1>16, <1>17, <1>18, <1>19, <1>20
  DEF Next, Arrival, RecvSteps, Click, GtkSteps

(* Who holds which lock.                                                    *)
LEMMA LockStep ==
  ASSUME TypeOK, NumbersInv, LockInv, [Next]_vars
  PROVE LockInv'
<1>1. ASSUME NEW u \in Users, RecvEntry(u) PROVE LockInv'
  BY <1>1 DEF RecvEntry, LockInv, Open, msgVars, chatVars, lockVars, gtkVars
<1>2. CASE AddRows
  BY <1>2 DEF AddRows, LockInv, lockVars, gtkVars
<1>3. ASSUME NEW u \in Users, RecvPrivate(u) PROVE LockInv'
  <2>1. Queue(u, u) /\ u \in Chats
    BY <1>3 DEF RecvPrivate, Chats
  <2>2. Queued(u, u)
    BY <2>1, QueueFacts
  <2>3. recvAt = "idle" /\ recvAt' # "show" /\ UNCHANGED <<lock, gdk, gtkAt, gtkMsg, window>>
    BY <1>3 DEF RecvPrivate, gtkVars, lockVars, chatVars
  <2>4. (gdk = "none" <=> gtkAt = "idle")'
    BY <2>3 DEF LockInv
  <2>5. \A kind \in Kinds : lock[kind] # "recv"
    BY <2>3 DEF LockInv
  <2>6. gtkAt = "tray_new" => msg'[gtkMsg] = msg[gtkMsg]
    BY <2>2 DEF Queued, TypeOK, NumbersInv
  <2>7. (gtkAt = "tray_new" =>
           \A c \in Chats : Kind(c) = Kind(msg[gtkMsg].chat) => ~Open(c))'
    BY <2>3, <2>6 DEF LockInv, Open
  <2> QED
    BY <2>3, <2>4, <2>5, <2>7 DEF LockInv
<1>4. ASSUME NEW u \in Users, NEW g \in Groups, RecvGroup(u, g) PROVE LockInv'
  <2>1. Queue(u, g) /\ g \in Chats
    BY <1>4 DEF RecvGroup, Chats
  <2>2. Queued(u, g)
    BY <2>1, QueueFacts
  <2>3. recvAt = "idle" /\ recvAt' # "show" /\ UNCHANGED <<lock, gdk, gtkAt, gtkMsg, window>>
    BY <1>4 DEF RecvGroup, gtkVars, lockVars, chatVars
  <2>4. (gdk = "none" <=> gtkAt = "idle")'
    BY <2>3 DEF LockInv
  <2>5. \A kind \in Kinds : lock[kind] # "recv"
    BY <2>3 DEF LockInv
  <2>6. gtkAt = "tray_new" => msg'[gtkMsg] = msg[gtkMsg]
    BY <2>2 DEF Queued, TypeOK, NumbersInv
  <2>7. (gtkAt = "tray_new" =>
           \A c \in Chats : Kind(c) = Kind(msg[gtkMsg].chat) => ~Open(c))'
    BY <2>3, <2>6 DEF LockInv, Open
  <2> QED
    BY <2>3, <2>4, <2>5, <2>7 DEF LockInv
<1>5. CASE UseAfterFree
  BY <1>5 DEF UseAfterFree, LockInv, Open, msgVars, chatVars, lockVars, recvVars, gtkVars
<1>6. CASE FreeOfStranger
  BY <1>6 DEF FreeOfStranger, LockInv, Open, chatVars, lockVars, gtkVars
<1>7. CASE FindUser
  BY <1>7 DEF FindUser, LockInv, Open, chatVars, lockVars, gtkVars
<1>8. CASE RecvScan
  BY <1>8 DEF RecvScan, TypeOK, LockInv, Open, msgVars, chatVars, gtkVars
<1>9. CASE RecvShow
  BY <1>9 DEF RecvShow, TypeOK, LockInv, gtkVars
<1>10. CASE Reply
  BY <1>10 DEF Reply, LockInv, Open, msgVars, chatVars, lockVars, gtkVars
<1>11. CASE TrayClick
  BY <1>11 DEF TrayClick, LockInv, Open, chatVars, recvVars, Callback
<1>12. ASSUME NEW c \in Chats, DoubleClick(c) PROVE LockInv'
  BY <1>12 DEF DoubleClick, LockInv, Open, msgVars, chatVars, recvVars, Callback
<1>13. ASSUME NEW c \in Chats, Close(c) PROVE LockInv'
  BY <1>13 DEF Close, LockInv, Open, msgVars, chatVars, recvVars, Callback
<1>14. CASE TrayScan
  BY <1>14 DEF TrayScan, LockInv, Open, msgVars, chatVars, lockVars, recvVars
<1>15. CASE TrayNew
  BY <1>15 DEF TrayNew, LockInv, Open, msgVars, lockVars, recvVars, Insert
<1>16. CASE TrayMisuse
  BY <1>16 DEF TrayMisuse, LockInv, Open, msgVars, chatVars, lockVars, recvVars, gtkVars
<1>17. CASE TrayFree
  BY <1>17 DEF TrayFree, LockInv, Open, chatVars, recvVars, CallbackReturn
<1>18. CASE NewChatbox
  BY <1>18 DEF NewChatbox, LockInv, Open, msgVars, recvVars, CallbackReturn
<1>19. CASE CloseChatbox
  BY <1>19, KindOfChat DEF CloseChatbox, NumbersInv, LockInv, Open, msgVars, recvVars,
     CallbackReturn
<1>20. CASE UNCHANGED vars
  BY <1>20 DEF LockInv, Open, vars, msgVars, chatVars, lockVars, recvVars, gtkVars
<1> QED
  BY <1>1, <1>2, <1>3, <1>4, <1>5, <1>6, <1>7, <1>8, <1>9, <1>10, <1>11, <1>12, <1>13,
     <1>14, <1>15, <1>16, <1>17, <1>18, <1>19, <1>20
  DEF Next, Arrival, RecvSteps, Click, GtkSteps

(* What the windows show.                                                   *)
LEMMA TextStep ==
  ASSUME TypeOK, NumbersInv, LockInv, TextInv, [Next]_vars
  PROVE TextInv'
<1>1. ASSUME NEW u \in Users, RecvEntry(u) PROVE TextInv'
  BY <1>1 DEF RecvEntry, TextInv, ShownInOrder, WindowInOrder, ShownTwiceInWindow, Open,
     msgVars, chatVars
<1>2. CASE AddRows
  BY <1>2 DEF AddRows, TextInv, ShownInOrder, WindowInOrder, ShownTwiceInWindow, Open,
     msgVars, chatVars
<1>3. ASSUME NEW u \in Users, RecvPrivate(u) PROVE TextInv'
  <2>1. Queue(u, u) /\ u \in Chats
    BY <1>3 DEF RecvPrivate, Chats
  <2>2. Queued(u, u)
    BY <2>1, QueueFacts
  <2>3. UNCHANGED <<freed, window>>
    BY <1>3 DEF RecvPrivate, chatVars
  <2>4. Len(msg) \in Nat /\ Len(msg') = Len(msg) + 1 /\ recvMsg' = Len(msg) + 1
    BY <2>2 DEF Queued, TypeOK
  <2>5. \A c \in Chats : \A a \in DOMAIN window[c].text :
          /\ window[c].text[a] \in 1 .. Len(msg')
          /\ window[c].text[a] # recvMsg'
    BY <2>4 DEF TextInv
  <2>6. (\A c \in Chats : ~Open(c) => window[c].text = <<>>)' /\ ShownInOrder'
    BY <2>3 DEF TextInv, Open, ShownInOrder, WindowInOrder, ShownTwiceInWindow
  <2> QED
    BY <2>3, <2>5, <2>6 DEF TextInv
<1>4. ASSUME NEW u \in Users, NEW g \in Groups, RecvGroup(u, g) PROVE TextInv'
  <2>1. Queue(u, g) /\ g \in Chats
    BY <1>4 DEF RecvGroup, Chats
  <2>2. Queued(u, g)
    BY <2>1, QueueFacts
  <2>3. UNCHANGED <<freed, window>>
    BY <1>4 DEF RecvGroup, chatVars
  <2>4. Len(msg) \in Nat /\ Len(msg') = Len(msg) + 1 /\ recvMsg' = Len(msg) + 1
    BY <2>2 DEF Queued, TypeOK
  <2>5. \A c \in Chats : \A a \in DOMAIN window[c].text :
          /\ window[c].text[a] \in 1 .. Len(msg')
          /\ window[c].text[a] # recvMsg'
    BY <2>4 DEF TextInv
  <2>6. (\A c \in Chats : ~Open(c) => window[c].text = <<>>)' /\ ShownInOrder'
    BY <2>3 DEF TextInv, Open, ShownInOrder, WindowInOrder, ShownTwiceInWindow
  <2> QED
    BY <2>3, <2>5, <2>6 DEF TextInv
<1>5. CASE UseAfterFree
  BY <1>5 DEF UseAfterFree, TextInv, ShownInOrder, WindowInOrder, ShownTwiceInWindow,
     Open, msgVars, chatVars, recvVars, Freed
<1>6. CASE FreeOfStranger
  BY <1>6 DEF FreeOfStranger, TextInv, ShownInOrder, WindowInOrder, ShownTwiceInWindow,
     Open, chatVars
<1>7. CASE FindUser
  BY <1>7 DEF FindUser, TextInv, ShownInOrder, WindowInOrder, ShownTwiceInWindow, Open,
     chatVars, gtkVars
<1>8. CASE RecvScan
  BY <1>8 DEF RecvScan, TextInv, ShownInOrder, WindowInOrder, ShownTwiceInWindow, Open,
     msgVars, chatVars, gtkVars
<1>9. CASE RecvShow
  <2>1. recvMsg \in 1 .. Len(msg) /\ recvMsg \in Nat
    BY <1>9 DEF RecvShow, NumbersInv, Delivering
  <2>2. msg[recvMsg].chat \in Chats
    <3>1. msg[recvMsg] \in Message
      BY <2>1 DEF TypeOK
    <3> QED
      BY <3>1 DEF Message
  <2>3. Insert(msg[recvMsg].chat, recvMsg)
    BY <1>9 DEF RecvShow
  <2> DEFINE chat == msg[recvMsg].chat
             text == window[chat].text
  <2>4. chat \in Chats
    BY <2>2
  <2>5. text \in Seq(Nat)
    BY <2>4 DEF TypeOK, Window
  <2>6. /\ window'[chat].open
        /\ Len(window'[chat].text) = Len(text) + 1
        /\ window'[chat].text[Len(text) + 1] = recvMsg
        /\ \A a \in DOMAIN text : window'[chat].text[a] = text[a]
        /\ \A c \in Chats \ {chat} : window'[c] = window[c]
        /\ window'[chat].text \in Seq(Nat)
    BY <2>1, <2>3, <2>4, InsertFacts DEF Window
  <2>7. \A a \in DOMAIN window'[chat].text :
          \/ a \in DOMAIN text /\ window'[chat].text[a] = text[a]
          \/ a = Len(text) + 1 /\ window'[chat].text[a] = recvMsg
    <3> HIDE DEF text, chat
    <3> QED
      BY <2>5, <2>6
  <2>8. /\ UNCHANGED <<msg, freed, recvMsg, gtkAt, gtkMsg>>
        /\ recvAt' = "reply" /\ gdk = "none" /\ recvAt = "show"
        /\ Kind(chat) = "private" => recvMsg \notin freed
    BY <1>9 DEF RecvShow, Readable, Alive, Freed, gtkVars, msgVars
  <2>9. \A a \in DOMAIN text : text[a] \in 1 .. recvMsg
    BY <2>4 DEF TextInv, NumbersInv
  <2>10. chat \in Users => \A a \in DOMAIN text : text[a] # recvMsg
    BY <2>4, <2>8, KindOfChat DEF TextInv, LockInv
  <2> HIDE DEF text, chat
  <2>11. \A c \in Chats : ~Open(c)' => (window[c].text = <<>>)'
    BY <2>6 DEF TextInv, Open
  <2>12. \A c \in Chats : \A a \in DOMAIN window'[c].text : window'[c].text[a] \in 1 .. Len(msg')
    BY <2>1, <2>6, <2>7, <2>8, <2>9 DEF TextInv, NumbersInv
  <2>13. \A a, b \in DOMAIN window'[chat].text : a < b =>
           /\ window'[chat].text[a] <= window'[chat].text[b]
           /\ chat \in Users => window'[chat].text[a] # window'[chat].text[b]
    <3>1. \A a, b \in DOMAIN text : a < b => text[a] <= text[b] /\ (chat \in Users => text[a] # text[b])
      BY <2>4 DEF TextInv, ShownInOrder, WindowInOrder, ShownTwiceInWindow, text
    <3>2. SUFFICES ASSUME NEW a \in DOMAIN window'[chat].text,
                          NEW b \in DOMAIN window'[chat].text, a < b
          PROVE  /\ window'[chat].text[a] <= window'[chat].text[b]
                 /\ chat \in Users => window'[chat].text[a] # window'[chat].text[b]
      OBVIOUS
    <3>3. a \in DOMAIN text /\ window'[chat].text[a] = text[a]
      BY <2>5, <2>6, <2>7, <3>2
    <3>4. CASE b \in DOMAIN text /\ window'[chat].text[b] = text[b]
      BY <3>1, <3>2, <3>3, <3>4
    <3>5. CASE window'[chat].text[b] = recvMsg
      BY <2>1, <2>9, <2>10, <3>3, <3>5
    <3> QED
      BY <2>7, <3>4, <3>5
  <2>14. ShownInOrder'
    BY <2>6, <2>13 DEF TextInv, ShownInOrder, WindowInOrder, ShownTwiceInWindow, Chats
  <2> QED
    BY <2>8, <2>11, <2>12, <2>14 DEF TextInv
<1>10. CASE Reply
  BY <1>10 DEF Reply, TextInv, ShownInOrder, WindowInOrder, ShownTwiceInWindow, Open,
     msgVars, chatVars
<1>11. CASE TrayClick
  BY <1>11 DEF TrayClick, TextInv, ShownInOrder, WindowInOrder, ShownTwiceInWindow, Open,
     chatVars, recvVars, Callback
<1>12. ASSUME NEW c \in Chats, DoubleClick(c) PROVE TextInv'
  BY <1>12 DEF DoubleClick, TextInv, ShownInOrder, WindowInOrder, ShownTwiceInWindow,
     Open, msgVars, chatVars, recvVars, Callback
<1>13. ASSUME NEW c \in Chats, Close(c) PROVE TextInv'
  BY <1>13 DEF Close, TextInv, ShownInOrder, WindowInOrder, ShownTwiceInWindow, Open,
     msgVars, chatVars, recvVars, Callback
<1>14. CASE TrayScan
  BY <1>14 DEF TrayScan, TextInv, ShownInOrder, WindowInOrder, ShownTwiceInWindow, Open,
     msgVars, chatVars, recvVars
<1>15. CASE TrayNew
  <2>1. gtkMsg \in 1 .. Len(msg) /\ gtkMsg \in Nat
    BY <1>15 DEF TrayNew, TypeOK, NumbersInv
  <2>2. msg[gtkMsg].chat \in Chats
    <3>1. msg[gtkMsg] \in Message
      BY <2>1 DEF TypeOK
    <3> QED
      BY <3>1 DEF Message
  <2>3. Insert(msg[gtkMsg].chat, gtkMsg)
    BY <1>15 DEF TrayNew
  <2> DEFINE chat == msg[gtkMsg].chat
             text == window[chat].text
  <2>4. chat \in Chats
    BY <2>2
  <2>5. text \in Seq(Nat)
    BY <2>4 DEF TypeOK, Window
  <2>6. /\ window'[chat].open
        /\ Len(window'[chat].text) = Len(text) + 1
        /\ window'[chat].text[Len(text) + 1] = gtkMsg
        /\ \A a \in DOMAIN text : window'[chat].text[a] = text[a]
        /\ \A c \in Chats \ {chat} : window'[c] = window[c]
        /\ window'[chat].text \in Seq(Nat)
    BY <2>1, <2>3, <2>4, InsertFacts DEF Window
  <2>7. \A a \in DOMAIN window'[chat].text :
          \/ a \in DOMAIN text /\ window'[chat].text[a] = text[a]
          \/ a = Len(text) + 1 /\ window'[chat].text[a] = gtkMsg
    <3> HIDE DEF text, chat
    <3> QED
      BY <2>5, <2>6
  <2>8. /\ UNCHANGED <<msg, freed, recvMsg, recvAt, gtkMsg>>
        /\ gtkAt' = "tray_free" /\ gtkAt = "tray_new"
    BY <1>15 DEF TrayNew, recvVars, msgVars
  <2>9. text = <<>>
    BY <2>4, <2>8 DEF TextInv, LockInv
  <2> HIDE DEF text, chat
  <2>10. \A a \in DOMAIN window'[chat].text : a = 1 /\ window'[chat].text[a] = gtkMsg
    BY <2>7, <2>9
  <2>11. \A c \in Chats : ~Open(c)' => (window[c].text = <<>>)'
    BY <2>6 DEF TextInv, Open
  <2>12. \A c \in Chats : \A a \in DOMAIN window'[c].text :
           /\ window'[c].text[a] \in 1 .. Len(msg')
           /\ c \in Users /\ window'[c].text[a] = recvMsg /\ recvAt \in {"find_user", "lock", "show"} =>
                recvMsg \in freed \/ gtkMsg = recvMsg
    BY <2>1, <2>6, <2>8, <2>10 DEF TextInv
  <2>13. \A a, b \in DOMAIN window'[chat].text : ~(a < b)
    BY <2>10
  <2>14. ShownInOrder'
    BY <2>6, <2>13 DEF TextInv, ShownInOrder, WindowInOrder, ShownTwiceInWindow, Chats
  <2> QED
    BY <2>8, <2>11, <2>12, <2>14 DEF TextInv
<1>16. CASE TrayMisuse
  BY <1>16 DEF TrayMisuse, TextInv, ShownInOrder, WindowInOrder, ShownTwiceInWindow,
     Open, msgVars, chatVars, recvVars, Freed
<1>17. CASE TrayFree
  BY <1>17 DEF TrayFree, TextInv, ShownInOrder, WindowInOrder, ShownTwiceInWindow, Open,
     chatVars, recvVars
<1>18. CASE NewChatbox
  BY <1>18 DEF NewChatbox, TextInv, ShownInOrder, WindowInOrder, ShownTwiceInWindow,
     Open, msgVars, recvVars
<1>19. CASE CloseChatbox
  BY <1>19 DEF CloseChatbox, TextInv, ShownInOrder, WindowInOrder, ShownTwiceInWindow,
     Open, Closed, msgVars, recvVars
<1>20. CASE UNCHANGED vars
  BY <1>20 DEF TextInv, ShownInOrder, WindowInOrder, ShownTwiceInWindow, Open, vars,
     msgVars, chatVars, recvVars, gtkVars
<1> QED
  BY <1>1, <1>2, <1>3, <1>4, <1>5, <1>6, <1>7, <1>8, <1>9, <1>10, <1>11, <1>12, <1>13,
     <1>14, <1>15, <1>16, <1>17, <1>18, <1>19, <1>20
  DEF Next, Arrival, RecvSteps, Click, GtkSteps

(* What is freed, and what is misused.                                      *)
LEMMA MisuseStep ==
  ASSUME TypeOK, NumbersInv, LockInv, MisuseInv, ~undefined, [Next]_vars
  PROVE MisuseInv'
<1>1. ASSUME NEW u \in Users, RecvEntry(u) PROVE MisuseInv'
  BY <1>1 DEF RecvEntry, MisuseInv, MisuseExplained, msgVars, gtkVars
<1>2. CASE AddRows
  BY <1>2 DEF AddRows, MisuseInv, MisuseExplained, msgVars, gtkVars
<1>3. ASSUME NEW u \in Users, RecvPrivate(u) PROVE MisuseInv'
  <2>1. Queue(u, u) /\ u \in Chats
    BY <1>3 DEF RecvPrivate, Chats
  <2>2. Queued(u, u)
    BY <2>1, QueueFacts
  <2>3. gtkMsg \in Nat /\ gtkMsg <= Len(msg) /\ Len(msg) \in Nat /\ Len(mlist) \in Nat
    BY DEF TypeOK, NumbersInv
  <2>4. /\ gtkMsg' = gtkMsg /\ gtkAt' = gtkAt /\ freed' = freed /\ ulist' = ulist
        /\ hasUser \subseteq hasUser'
    BY <1>3 DEF RecvPrivate, gtkVars
  <2>5. recvAt = "idle"
    BY <1>3 DEF RecvPrivate
  <2>6. \A n \in 1 .. Len(msg') :
          \/ n \in 1 .. Len(msg) /\ msg'[n] = msg[n]
          \/ n = Len(msg')
    BY <2>2, <2>3 DEF Queued
  <2>7. \A n \in 1 .. Len(msg') :
          /\ msg'[n].chat \in Users /\ ~msg'[n].stranger => msg'[n].chat \in ulist'
          /\ n \notin hasUser' => msg'[n].stranger \/ (n = recvMsg' /\ recvAt' = "find_user")
    <3>1. SUFFICES ASSUME NEW n \in 1 .. Len(msg')
          PROVE  /\ msg'[n].chat \in Users /\ ~msg'[n].stranger => msg'[n].chat \in ulist'
                 /\ n \notin hasUser' => msg'[n].stranger \/ (n = recvMsg' /\ recvAt' = "find_user")
      OBVIOUS
    <3>2. CASE n \in 1 .. Len(msg) /\ msg'[n] = msg[n]
      BY <2>4, <2>5, <3>2 DEF MisuseInv
    <3>3. CASE n = Len(msg')
      BY <1>3, <2>2, <2>4, <3>3, ChatAssumption DEF RecvPrivate, Queued
    <3> QED
      BY <2>6, <3>2, <3>3
  <2>8. \A n \in freed' :
          /\ n \in 1 .. Len(msg')
          /\ msg'[n].stranger \/ n < gtkMsg' \/ (n = gtkMsg' /\ gtkAt' \notin Tray)
    BY <2>2, <2>3, <2>4 DEF Queued, MisuseInv
  <2>9. undefined' => \E n \in DOMAIN msg' : msg'[n].stranger
    <3>1. HAVE undefined'
    <3>2. mlist # <<>> /\ mlist[Len(mlist)] \in freed
      BY <1>3, <3>1 DEF RecvPrivate, Queue, Freed, Last
    <3>3. Len(mlist) \in DOMAIN mlist
      BY <2>3, <3>2 DEF TypeOK
    <3>4. mlist[Len(mlist)] \in 1 .. Len(msg) /\ gtkMsg < mlist[Len(mlist)]
      BY <3>2, <3>3 DEF MisuseInv, NumbersInv
    <3>5. msg[mlist[Len(mlist)]].stranger
      BY <2>3, <3>2, <3>4 DEF MisuseInv
    <3> QED
      BY <2>2, <2>3, <3>4, <3>5 DEF Queued
  <2> QED
    BY <2>7, <2>8, <2>9 DEF MisuseInv, MisuseExplained
<1>4. ASSUME NEW u \in Users, NEW g \in Groups, RecvGroup(u, g) PROVE MisuseInv'
  <2>1. Queue(u, g) /\ g \in Chats
    BY <1>4 DEF RecvGroup, Chats
  <2>2. Queued(u, g)
    BY <2>1, QueueFacts
  <2>3. gtkMsg \in Nat /\ gtkMsg <= Len(msg) /\ Len(msg) \in Nat /\ Len(mlist) \in Nat
    BY DEF TypeOK, NumbersInv
  <2>4. /\ gtkMsg' = gtkMsg /\ gtkAt' = gtkAt /\ freed' = freed /\ ulist' = ulist
        /\ hasUser \subseteq hasUser'
    BY <1>4 DEF RecvGroup, gtkVars
  <2>5. recvAt = "idle"
    BY <1>4 DEF RecvGroup
  <2>6. \A n \in 1 .. Len(msg') :
          \/ n \in 1 .. Len(msg) /\ msg'[n] = msg[n]
          \/ n = Len(msg')
    BY <2>2, <2>3 DEF Queued
  <2>7. \A n \in 1 .. Len(msg') :
          /\ msg'[n].chat \in Users /\ ~msg'[n].stranger => msg'[n].chat \in ulist'
          /\ n \notin hasUser' => msg'[n].stranger \/ (n = recvMsg' /\ recvAt' = "find_user")
    <3>1. SUFFICES ASSUME NEW n \in 1 .. Len(msg')
          PROVE  /\ msg'[n].chat \in Users /\ ~msg'[n].stranger => msg'[n].chat \in ulist'
                 /\ n \notin hasUser' => msg'[n].stranger \/ (n = recvMsg' /\ recvAt' = "find_user")
      OBVIOUS
    <3>2. CASE n \in 1 .. Len(msg) /\ msg'[n] = msg[n]
      BY <2>4, <2>5, <3>2 DEF MisuseInv
    <3>3. CASE n = Len(msg')
      BY <1>4, <2>2, <2>4, <3>3, ChatAssumption DEF RecvGroup, Queued
    <3> QED
      BY <2>6, <3>2, <3>3
  <2>8. \A n \in freed' :
          /\ n \in 1 .. Len(msg')
          /\ msg'[n].stranger \/ n < gtkMsg' \/ (n = gtkMsg' /\ gtkAt' \notin Tray)
    BY <2>2, <2>3, <2>4 DEF Queued, MisuseInv
  <2>9. undefined' => \E n \in DOMAIN msg' : msg'[n].stranger
    <3>1. HAVE undefined'
    <3>2. mlist # <<>> /\ mlist[Len(mlist)] \in freed
      BY <1>4, <3>1 DEF RecvGroup, Queue, Freed, Last
    <3>3. Len(mlist) \in DOMAIN mlist
      BY <2>3, <3>2 DEF TypeOK
    <3>4. mlist[Len(mlist)] \in 1 .. Len(msg) /\ gtkMsg < mlist[Len(mlist)]
      BY <3>2, <3>3 DEF MisuseInv, NumbersInv
    <3>5. msg[mlist[Len(mlist)]].stranger
      BY <2>3, <3>2, <3>4 DEF MisuseInv
    <3> QED
      BY <2>2, <2>3, <3>4, <3>5 DEF Queued
  <2> QED
    BY <2>7, <2>8, <2>9 DEF MisuseInv, MisuseExplained
<1>5. CASE UseAfterFree
  BY <1>5 DEF UseAfterFree, TypeOK, NumbersInv, MisuseInv, MisuseExplained, msgVars,
     recvVars, gtkVars, Freed
<1>6. CASE FreeOfStranger
  BY <1>6 DEF FreeOfStranger, NumbersInv, MisuseInv, MisuseExplained, Delivering, gtkVars
<1>7. CASE FindUser
  BY <1>7 DEF FindUser, NumbersInv, MisuseInv, MisuseExplained, gtkVars
<1>8. CASE RecvScan
  BY <1>8 DEF RecvScan, MisuseInv, MisuseExplained, msgVars, gtkVars
<1>9. CASE RecvShow
  BY <1>9 DEF RecvShow, MisuseInv, MisuseExplained, msgVars, gtkVars
<1>10. CASE Reply
  BY <1>10 DEF Reply, MisuseInv, MisuseExplained, msgVars, gtkVars
<1>11. CASE TrayClick
  <2>1. /\ UNCHANGED <<ulist, msg, hasUser, freed, recvAt, recvMsg>>
        /\ gtkMsg' = Head(mlist) /\ mlist # <<>> /\ gtkAt = "idle"
        /\ undefined' = (\E i \in {1, 2} \cap DOMAIN mlist : Freed(mlist[i]))
    BY <1>11 DEF TrayClick, Callback, recvVars
  <2>2. gtkMsg \in Nat /\ \A a \in DOMAIN mlist : mlist[a] \in Nat
    BY DEF TypeOK
  <2>3. 1 \in DOMAIN mlist /\ Head(mlist) = mlist[1]
    BY <2>1 DEF TypeOK
  <2>4. gtkMsg < gtkMsg' /\ gtkMsg' \in Nat
    BY <2>1, <2>2, <2>3 DEF NumbersInv
  <2>5. \A n \in freed : n \in 1 .. Len(msg) /\ (msg[n].stranger \/ n < gtkMsg')
    BY <2>2, <2>4 DEF MisuseInv
  <2>6. undefined' => \E n \in DOMAIN msg : msg[n].stranger
    <3>1. HAVE undefined'
    <3>2. PICK a \in DOMAIN mlist : mlist[a] \in freed
      BY <2>1, <3>1 DEF Freed
    <3>3. mlist[a] \in 1 .. Len(msg) /\ gtkMsg < mlist[a]
      BY <3>2 DEF MisuseInv, NumbersInv
    <3>4. msg[mlist[a]].stranger
      BY <2>2, <3>2, <3>3 DEF MisuseInv
    <3> QED
      BY <3>3, <3>4 DEF TypeOK
  <2> QED
    BY <2>1, <2>5, <2>6 DEF MisuseInv, MisuseExplained
<1>12. ASSUME NEW c \in Chats, DoubleClick(c) PROVE MisuseInv'
  BY <1>12 DEF DoubleClick, MisuseInv, MisuseExplained, Tray, msgVars, recvVars, Callback
<1>13. ASSUME NEW c \in Chats, Close(c) PROVE MisuseInv'
  BY <1>13 DEF Close, MisuseInv, MisuseExplained, Tray, msgVars, recvVars, Callback
<1>14. CASE TrayScan
  BY <1>14 DEF TrayScan, MisuseInv, MisuseExplained, msgVars, recvVars, Freed
<1>15. CASE TrayNew
  BY <1>15 DEF TrayNew, MisuseInv, MisuseExplained, msgVars, recvVars, Freed
<1>16. CASE TrayMisuse
  BY <1>16, KindOfChat DEF TrayMisuse, TypeOK, NumbersInv, MisuseInv, MisuseExplained,
     Chats, msgVars, recvVars, gtkVars, Freed
<1>17. CASE TrayFree
  BY <1>17 DEF TrayFree, TypeOK, NumbersInv, MisuseInv, MisuseExplained, Tray, recvVars,
     CallbackReturn
<1>18. CASE NewChatbox
  BY <1>18 DEF NewChatbox, MisuseInv, MisuseExplained, Tray, msgVars, recvVars,
     CallbackReturn
<1>19. CASE CloseChatbox
  BY <1>19 DEF CloseChatbox, MisuseInv, MisuseExplained, Tray, msgVars, recvVars,
     CallbackReturn
<1>20. CASE UNCHANGED vars
  BY <1>20 DEF MisuseInv, MisuseExplained, vars, msgVars, recvVars, gtkVars
<1> QED
  BY <1>1, <1>2, <1>3, <1>4, <1>5, <1>6, <1>7, <1>8, <1>9, <1>10, <1>11, <1>12, <1>13,
     <1>14, <1>15, <1>16, <1>17, <1>18, <1>19, <1>20
  DEF Next, Arrival, RecvSteps, Click, GtkSteps

(* What the tray handler frees.                                             *)
LEMMA LossStep ==
  ASSUME TypeOK, NumbersInv, LockInv, LossInv, [Next]_vars
  PROVE LossInv'
<1>1. ASSUME NEW u \in Users, RecvEntry(u) PROVE LossInv'
  BY <1>1 DEF RecvEntry, LossInv, Open, msgVars, chatVars, gtkVars
<1>2. CASE AddRows
  BY <1>2 DEF AddRows, LossInv, Open, msgVars, chatVars, gtkVars
<1>3. ASSUME NEW u \in Users, RecvPrivate(u) PROVE LossInv'
  <2>1. Queue(u, u) /\ u \in Chats
    BY <1>3 DEF RecvPrivate, Chats
  <2>2. Queued(u, u)
    BY <2>1, QueueFacts
  <2> QED
    BY <1>3, <2>2 DEF Queued, RecvPrivate, TypeOK, NumbersInv, LossInv, Open, chatVars,
       gtkVars
<1>4. ASSUME NEW u \in Users, NEW g \in Groups, RecvGroup(u, g) PROVE LossInv'
  <2>1. Queue(u, g) /\ g \in Chats
    BY <1>4 DEF RecvGroup, Chats
  <2>2. Queued(u, g)
    BY <2>1, QueueFacts
  <2> QED
    BY <1>4, <2>2 DEF Queued, RecvGroup, TypeOK, NumbersInv, LossInv, Open, chatVars,
       gtkVars
<1>5. CASE UseAfterFree
  BY <1>5 DEF UseAfterFree, LossInv, Open, msgVars, chatVars, gtkVars
<1>6. CASE FreeOfStranger
  BY <1>6 DEF FreeOfStranger, LossInv, Open, chatVars, gtkVars
<1>7. CASE FindUser
  BY <1>7 DEF FindUser, LossInv, Open, chatVars, gtkVars
<1>8. CASE RecvScan
  BY <1>8 DEF RecvScan, LossInv, Open, msgVars, chatVars, gtkVars
<1>9. CASE RecvShow
  BY <1>9 DEF RecvShow, LossInv, Open, msgVars, gtkVars, Insert
<1>10. CASE Reply
  BY <1>10 DEF Reply, LossInv, Open, msgVars, chatVars, gtkVars
<1>11. CASE TrayClick
  BY <1>11 DEF TrayClick, LossInv, Callback
<1>12. ASSUME NEW c \in Chats, DoubleClick(c) PROVE LossInv'
  BY <1>12 DEF DoubleClick, LossInv, Callback
<1>13. ASSUME NEW c \in Chats, Close(c) PROVE LossInv'
  BY <1>13 DEF Close, LossInv, Callback
<1>14. CASE TrayScan
  BY <1>14 DEF TrayScan, LossInv, Open, msgVars, chatVars
<1>15. CASE TrayNew
  BY <1>15 DEF TrayNew, LossInv, Insert
<1>16. CASE TrayMisuse
  BY <1>16 DEF TrayMisuse, LossInv, Open, msgVars, chatVars, gtkVars
<1>17. CASE TrayFree
  BY <1>17 DEF TrayFree, LossInv, CallbackReturn
<1>18. CASE NewChatbox
  BY <1>18 DEF NewChatbox, LossInv, CallbackReturn
<1>19. CASE CloseChatbox
  BY <1>19 DEF CloseChatbox, LossInv, CallbackReturn
<1>20. CASE UNCHANGED vars
  BY <1>20 DEF LossInv, Open, vars, msgVars, chatVars, gtkVars
<1> QED
  BY <1>1, <1>2, <1>3, <1>4, <1>5, <1>6, <1>7, <1>8, <1>9, <1>10, <1>11, <1>12, <1>13,
     <1>14, <1>15, <1>16, <1>17, <1>18, <1>19, <1>20
  DEF Next, Arrival, RecvSteps, Click, GtkSteps

-----------------------------------------------------------------------------
LEMMA InitInv == Init => IInv
<1> SUFFICES ASSUME Init PROVE IInv
  OBVIOUS
<1>1. TypeOK
  BY DEF Init, TypeOK, Closed, Window, Kinds
<1>2. NumbersInv /\ LossInv
  BY DEF Init, NumbersInv, LossInv, Delivering, Tray
<1>3. LockInv
  BY DEF Init, LockInv, Kinds
<1>4. TextInv
  BY DEF Init, TextInv, Open, Closed, ShownInOrder, WindowInOrder, ShownTwiceInWindow, Chats
<1>5. MisuseInv
  BY DEF Init, MisuseInv, MisuseExplained
<1> QED
  BY <1>1, <1>2, <1>3, <1>4, <1>5 DEF IInv

(* The inductive invariant: where both threads are, what they hold, and     *)
(* what that says of the messages and of the windows.                       *)
THEOREM Invariance == Spec => []IInv
<1>1. IInv /\ [Next]_vars => IInv'
  <2> SUFFICES ASSUME IInv, [Next]_vars PROVE IInv'
    OBVIOUS
  <2>1. TypeOK' /\ NumbersInv' /\ LockInv' /\ TextInv' /\ LossInv'
    BY TypeStep, NumbersStep, LockStep, TextStep, LossStep DEF IInv
  <2>2. CASE ~undefined
    BY <2>1, <2>2, MisuseStep DEF IInv
  <2>3. CASE undefined
    <3>1. UNCHANGED vars
      BY <2>3 DEF Next
    <3>2. MisuseInv'
      BY <3>1 DEF IInv, MisuseInv, MisuseExplained, vars, msgVars, recvVars, gtkVars
    <3> QED
      BY <2>1, <3>2 DEF IInv
  <2> QED
    BY <2>2, <2>3
<1> QED
  BY InitInv, <1>1, PTL DEF Spec

(* Memory is misused only after a message of an address that is not in the  *)
(* user list, or where tray_icon_activated took the private message that    *)
(* on_buddy_sendmsg is still at work on.                                    *)
THEOREM MisuseIsExplained == Spec => []MisuseExplained
<1>1. IInv => MisuseExplained
  BY DEF IInv, MisuseInv
<1> QED
  BY <1>1, Invariance, PTL

(* The window of a chat shows its messages in the order in which they came, *)
(* and chatbox_insert_msg gets no private message twice.                    *)
THEOREM WindowsInOrder == Spec => []ShownInOrder
<1>1. IInv => ShownInOrder
  BY DEF IInv, TextInv
<1> QED
  BY <1>1, Invariance, PTL

(* tray_icon_activated frees a message that nobody has seen only while a    *)
(* window of the same kind is open.                                         *)
THEOREM LossIsExplained == Spec => LostBehindWindow
<1>1. IInv => (gtkAt = "tray_free" /\ gtkAt' = "idle" =>
                 \/ gtkMsg \in displayed
                 \/ \E c \in Chats : Open(c) /\ Kind(c) = Kind(msg[gtkMsg].chat))
  BY DEF IInv, LossInv
<1> QED
  BY <1>1, Invariance, PTL DEF LostBehindWindow
=============================================================================
