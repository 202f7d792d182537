----------------------------- MODULE LegacyChat -----------------------------
(***************************************************************************)
(* How a chat message of the legacy program gets from the network to a     *)
(* chat window.  The receiver thread queues it (on_buddy_sendmsg and       *)
(* on_buddy_sendgpmsg of src/src/process_msg.c) and adds it to the window  *)
(* of its chat if that is open; the GTK thread, when the tray icon is      *)
(* clicked, takes the oldest queued message and opens a window for it      *)
(* (tray_icon_activated of src/src/window.c).                              *)
(*                                                                         *)
(* The threads share the lists of open windows, with a mutex for each      *)
(* kind, and the lock of gdk_threads_enter, which GTK holds while a        *)
(* callback runs.  A critical section in which a thread neither waits nor  *)
(* reads what another one may write is one step.  A run ends where the     *)
(* code first uses a freed message or the user of a message that has none. *)
(***************************************************************************)
EXTENDS Naturals, Sequences, SequencesExt

CONSTANTS
  Users, Groups,  \* the chats: one for each user, and the groups of glist
  None,           \* no message, no chat
  MaxMsg          \* bound: chat messages that arrive

ASSUME ChatAssumption == Users \cap Groups = {} /\ None \notin Users \cup Groups
ASSUME BoundAssumption == MaxMsg \in Nat

Chats == Users \cup Groups
Kinds == {"private", "group"}
Kind(chat) == IF chat \in Users THEN "private" ELSE "group"
Numbers == 1 .. MaxMsg

VARIABLES
  ulist,      \* the users that announced themselves
  rows,       \* those of them that have a row in the contact tree
  msg,        \* the messages so far: their chat, and whether the sender was unknown
  hasUser,    \* the messages whose msg->user is set
  mlist,      \* the queued messages, oldest first
  freed,      \* the messages given to free
  window,     \* per chat: whether it is open, and the messages it shows
  displayed,  \* the messages that were shown in some window
  lock,       \* per kind: the thread that holds pchatbox_lock, gchatbox_lock
  gdk,        \* the thread that holds the lock of GTK
  recvAt, recvMsg,  \* the receiver thread and the message it delivers
  gtkAt, gtkMsg, gtkChat,  \* the GTK thread, the message or chat of its callback
  undefined   \* whether memory was misused

recvVars == <<recvAt, recvMsg>>
gtkVars == <<gtkAt, gtkMsg, gtkChat>>
chatVars == <<window, displayed>>
msgVars == <<msg, hasUser, mlist, freed>>
lockVars == <<lock, gdk>>
vars == <<ulist, rows, msgVars, chatVars, lockVars, recvVars, gtkVars, undefined>>

Closed == [open |-> FALSE, text |-> <<>>]

Open(chat) == window[chat].open

Init ==
  /\ ulist = {} /\ rows = {}
  /\ msg = <<>> /\ hasUser = {} /\ mlist = <<>> /\ freed = {}
  /\ window = [c \in Chats |-> Closed] /\ displayed = {}
  /\ lock = [k \in Kinds |-> "none"] /\ gdk = "none"
  /\ recvAt = "idle" /\ recvMsg = 0
  /\ gtkAt = "idle" /\ gtkMsg = 0 /\ gtkChat = None
  /\ undefined = FALSE

\* chatbox_insert_msg
Insert(chat, n) ==
  /\ window' = [window EXCEPT ![chat] = [open |-> TRUE, text |-> Append(@.text, n)]]
  /\ displayed' = displayed \cup {n}

-----------------------------------------------------------------------------
(* The receiver thread                                                      *)

\* on_buddy_entry of a new address: the user is in ulist before it has a row.
RecvEntry(u) ==
  /\ recvAt = "idle"
  /\ u \notin ulist
  /\ ulist' = ulist \cup {u}
  /\ recvAt' = "row"
  /\ UNCHANGED <<rows, msgVars, chatVars, lockVars, recvMsg, gtkVars, undefined>>

AddRows ==
  /\ recvAt = "row"
  /\ gdk = "none"
  /\ rows' = ulist
  /\ recvAt' = "idle"
  /\ UNCHANGED <<ulist, msgVars, chatVars, lockVars, recvMsg, gtkVars, undefined>>

\* A message that is appended to the list writes the links of the last one,
\* a message that is removed those of the next one.
Freed(n) == n \in freed

Queue(u, chat) ==
  /\ Len(msg) < MaxMsg
  /\ msg' = Append(msg, [chat |-> chat, stranger |-> u \notin ulist])
  /\ mlist' = Append(mlist, Len(msg'))
  /\ recvMsg' = Len(msg')
  /\ undefined' = (mlist # <<>> /\ Freed(Last(mlist)))

\* on_buddy_sendmsg queues the message before it knows who sent it.
RecvPrivate(u) ==
  /\ recvAt = "idle"
  /\ Queue(u, u)
  /\ recvAt' = "find_user"
  /\ UNCHANGED <<ulist, rows, hasUser, freed, chatVars, lockVars, gtkVars>>

\* The receiver reads the message it delivers, which the tray handler may
\* have freed.
UseAfterFree ==
  /\ recvAt \in {"find_user", "lock", "show", "reply"}
  /\ Kind(msg[recvMsg].chat) = "private"
  /\ Freed(recvMsg)
  /\ undefined' = TRUE
  /\ UNCHANGED <<ulist, rows, msgVars, chatVars, lockVars, recvVars, gtkVars>>

Alive == ~Freed(recvMsg)

\* With an empty ulist the message is freed while it is queued; with another
\* one that does not hold the sender, the message stays without a user.
FreeOfStranger ==
  /\ recvAt = "find_user"
  /\ Alive
  /\ ulist = {}
  /\ freed' = freed \cup {recvMsg}
  /\ recvAt' = "idle"
  /\ UNCHANGED <<ulist, rows, msg, hasUser, mlist, chatVars, lockVars, recvMsg, gtkVars, undefined>>

\* Mutant: msg->user is not set.
FindUserNotSet ==
  /\ recvAt = "find_user"
  /\ Alive
  /\ ulist # {}
  /\ recvAt' = "lock"
  /\ UNCHANGED <<ulist, rows, msgVars, chatVars, lockVars, recvMsg, gtkVars, undefined>>

FindUser ==
  /\ recvAt = "find_user"
  /\ Alive
  /\ ulist # {}
  /\ hasUser' = IF msg[recvMsg].chat \in ulist THEN hasUser \cup {recvMsg} ELSE hasUser
  /\ recvAt' = "lock"
  /\ UNCHANGED <<ulist, rows, msg, mlist, freed, chatVars, lockVars, recvMsg, gtkVars, undefined>>

\* on_buddy_sendgpmsg of a known sender and a known group; it does not read
\* the message once it is queued.
RecvGroup(u, g) ==
  /\ recvAt = "idle"
  /\ u \in ulist
  /\ Queue(u, g)
  /\ hasUser' = hasUser \cup {Len(msg')}
  /\ recvAt' = "lock"
  /\ UNCHANGED <<ulist, rows, freed, chatVars, lockVars, gtkVars>>

Readable == Kind(msg[recvMsg].chat) = "group" \/ Alive

\* Takes the lock of the windows and looks for the one of the chat: it keeps
\* the lock while it waits for the lock of GTK.
RecvScan ==
  LET chat == msg[recvMsg].chat
  IN  /\ recvAt = "lock"
      /\ Readable
      /\ lock[Kind(chat)] = "none"
      /\ IF Open(chat)
         THEN /\ lock' = [lock EXCEPT ![Kind(chat)] = "recv"]
              /\ recvAt' = "show"
         ELSE /\ recvAt' = "reply"
              /\ UNCHANGED lock
      /\ UNCHANGED <<ulist, rows, msgVars, chatVars, gdk, recvMsg, gtkVars, undefined>>

\* Mutant: the lock of the windows is not released.
RecvShowKeepsLock ==
  LET chat == msg[recvMsg].chat
  IN  /\ recvAt = "show"
      /\ Readable
      /\ gdk = "none"
      /\ Insert(chat, recvMsg)
      /\ recvAt' = "reply"
      /\ UNCHANGED <<ulist, rows, msgVars, lockVars, recvMsg, gtkVars, undefined>>

RecvShow ==
  LET chat == msg[recvMsg].chat
  IN  /\ recvAt = "show"
      /\ Readable
      /\ gdk = "none"
      /\ Insert(chat, recvMsg)
      /\ lock' = [lock EXCEPT ![Kind(chat)] = "none"]
      /\ recvAt' = "reply"
      /\ UNCHANGED <<ulist, rows, msgVars, gdk, recvMsg, gtkVars, undefined>>

\* The answer to OPT_SENDCHECK, for which it reads the command again.
Reply ==
  /\ recvAt = "reply"
  /\ Readable
  /\ recvAt' = "idle"
  /\ UNCHANGED <<ulist, rows, msgVars, chatVars, lockVars, recvMsg, gtkVars, undefined>>

RecvSteps ==
  AddRows \/ UseAfterFree \/ FreeOfStranger \/ FindUser \/ RecvScan \/ RecvShow \/ Reply

-----------------------------------------------------------------------------
(* The GTK thread.  A callback runs with the lock of GTK.                   *)

Callback(at) ==
  /\ gtkAt = "idle"
  /\ gdk = "none"
  /\ gdk' = "gtk"
  /\ gtkAt' = at

CallbackReturn ==
  /\ gtkAt' = "idle"
  /\ gdk' = "none"

\* tray_icon_activated with a queued message; without one it shows the main
\* window.
TrayClick ==
  /\ mlist # <<>>
  /\ Callback("tray_scan")
  /\ gtkMsg' = Head(mlist)
  /\ mlist' = Tail(mlist)
  /\ undefined' = (\E i \in {1, 2} \cap DOMAIN mlist : Freed(mlist[i]))
  /\ UNCHANGED <<ulist, rows, msg, hasUser, freed, chatVars, lock, recvVars, gtkChat>>

\* Mutants: the message is shown whether a window is
\* open or not; windows of both kinds count.
TrayScanShowsAlways ==
  LET chat == msg[gtkMsg].chat
  IN  /\ gtkAt = "tray_scan"
      /\ lock[Kind(chat)] = "none"
      /\ ~Freed(gtkMsg)
      /\ gtkAt' = "tray_new"
      /\ UNCHANGED <<ulist, rows, msgVars, chatVars, lockVars, recvVars, gtkMsg, gtkChat, undefined>>

TrayScanBothKinds ==
  LET chat == msg[gtkMsg].chat
  IN  /\ gtkAt = "tray_scan"
      /\ lock[Kind(chat)] = "none"
      /\ ~Freed(gtkMsg)
      /\ gtkAt' = IF \E c \in Chats : Open(c) THEN "tray_free" ELSE "tray_new"
      /\ UNCHANGED <<ulist, rows, msgVars, chatVars, lockVars, recvVars, gtkMsg, gtkChat, undefined>>

\* Any open window of the kind, whether it is the right one or not, ends up
\* in the variable that is tested for NULL.
TrayScan ==
  LET chat == msg[gtkMsg].chat
  IN  /\ gtkAt = "tray_scan"
      /\ lock[Kind(chat)] = "none"
      /\ ~Freed(gtkMsg)
      /\ gtkAt' = IF \E c \in Chats : Kind(c) = Kind(chat) /\ Open(c)
                  THEN "tray_free" ELSE "tray_new"
      /\ UNCHANGED <<ulist, rows, msgVars, chatVars, lockVars, recvVars, gtkMsg, gtkChat, undefined>>

\* new_pchatbox or new_gchatbox, then chatbox_insert_msg.
TrayNew ==
  LET chat == msg[gtkMsg].chat
  IN  /\ gtkAt = "tray_new"
      /\ lock[Kind(chat)] = "none"
      /\ gtkMsg \in hasUser
      /\ ~Freed(gtkMsg)
      /\ Insert(chat, gtkMsg)
      /\ gtkAt' = "tray_free"
      /\ UNCHANGED <<ulist, rows, msgVars, lockVars, recvVars, gtkMsg, gtkChat, undefined>>

TrayMisuse ==
  /\ \/ gtkAt = "tray_new" /\ gtkMsg \notin hasUser
     \/ gtkAt \in {"tray_scan", "tray_new", "tray_free"} /\ Freed(gtkMsg)
  /\ undefined' = TRUE
  /\ UNCHANGED <<ulist, rows, msgVars, chatVars, lockVars, recvVars, gtkVars>>

TrayFree ==
  /\ gtkAt = "tray_free"
  /\ ~Freed(gtkMsg)
  /\ freed' = freed \cup {gtkMsg}
  /\ CallbackReturn
  /\ UNCHANGED <<ulist, rows, msg, hasUser, mlist, chatVars, lock, recvVars, gtkMsg, gtkChat, undefined>>

\* contact_treeview_ondoubleclicked and group_treeview_ondoubleclicked: the
\* window of the chat, if it is open, is raised.
DoubleClick(chat) ==
  /\ chat \in rows \cup Groups
  /\ ~Open(chat)
  /\ Callback("open")
  /\ gtkChat' = chat
  /\ UNCHANGED <<ulist, rows, msgVars, chatVars, lock, recvVars, gtkMsg, undefined>>

NewChatbox ==
  /\ gtkAt = "open"
  /\ lock[Kind(gtkChat)] = "none"
  /\ window' = [window EXCEPT ![gtkChat].open = TRUE]
  /\ CallbackReturn
  /\ UNCHANGED <<ulist, rows, msgVars, displayed, lock, recvVars, gtkMsg, gtkChat, undefined>>

Close(chat) ==
  /\ Open(chat)
  /\ Callback("close")
  /\ gtkChat' = chat
  /\ UNCHANGED <<ulist, rows, msgVars, chatVars, lock, recvVars, gtkMsg, undefined>>

\* close_chatbox
CloseChatbox ==
  /\ gtkAt = "close"
  /\ lock[Kind(gtkChat)] = "none"
  /\ window' = [window EXCEPT ![gtkChat] = Closed]
  /\ CallbackReturn
  /\ UNCHANGED <<ulist, rows, msgVars, displayed, lock, recvVars, gtkMsg, gtkChat, undefined>>

GtkSteps == TrayScan \/ TrayNew \/ TrayMisuse \/ TrayFree \/ NewChatbox \/ CloseChatbox

-----------------------------------------------------------------------------
Arrival ==
  \E u \in Users : RecvEntry(u) \/ RecvPrivate(u) \/ \E g \in Groups : RecvGroup(u, g)

Click == TrayClick \/ \E chat \in Chats : DoubleClick(chat) \/ Close(chat)

Next == ~undefined /\ (Arrival \/ RecvSteps \/ Click \/ GtkSteps)

\* Both threads are scheduled; nobody has to click, and no message has to come.
Spec == Init /\ [][Next]_vars /\ WF_vars(~undefined /\ RecvSteps) /\ WF_vars(~undefined /\ GtkSteps)

-----------------------------------------------------------------------------
\* on_buddy_sendmsg queues a message while it still works on it, and queues
\* the messages of addresses it does not know.  These are the only two ways to
\* misuse memory: with messages of known senders only, it takes a click on the
\* tray icon before the receiver is done with that private message.
MisuseExplained ==
  undefined =>
    \/ \E n \in DOMAIN msg : msg[n].stranger
    \/ /\ gtkMsg = recvMsg
       /\ recvAt \in {"find_user", "lock", "show", "reply"}
       /\ Kind(msg[recvMsg].chat) = "private"

\* A window shows the messages of its chat in the order in which they arrived,
\* although two threads add to it and the tray handler adds older ones.
WindowInOrder ==
  \A c \in Chats :
    LET text == window[c].text
    IN  \A i, j \in DOMAIN text : i < j => text[i] <= text[j]

\* A message is added twice to one window only when the tray handler opens the
\* window while the receiver is about to look for it; a private message that
\* is delivered that way is misused, so it happens to group messages alone.
ShownTwiceInWindow ==
  \A c \in Users :
    LET text == window[c].text
    IN  \A i, j \in DOMAIN text : i < j => text[i] # text[j]

\* A window shows what came, as it came.
ShownInOrder == WindowInOrder /\ ShownTwiceInWindow

\* The tray handler drops a message that nobody has seen only while another
\* message or a double click has opened a window of the same kind.
LostBehindWindow ==
  [][gtkAt = "tray_free" /\ gtkAt' = "idle" =>
       \/ gtkMsg \in displayed
       \/ \E c \in Chats : Open(c) /\ Kind(c) = Kind(msg[gtkMsg].chat)]_gtkAt

\* The receiver takes the lock of the windows first and that of GTK second, a
\* callback of GTK the other way round.
Inverted ==
  LET chat == IF gtkAt \in {"open", "close"} THEN gtkChat ELSE msg[gtkMsg].chat
  IN  /\ recvAt = "show"
      /\ lock[Kind(chat)] = "recv"

\* A callback of GTK returns, and with it the user interface works on, unless
\* the receiver waits for the lock of GTK with the lock that it needs.
CallbackReturns ==
  gtkAt # "idle" ~> (gtkAt = "idle" \/ (gtkAt # "idle" /\ Inverted) \/ undefined)
=============================================================================
