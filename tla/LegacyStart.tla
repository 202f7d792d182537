----------------------------- MODULE LegacyStart -----------------------------
(***************************************************************************)
(* The two threads of the legacy program from the first to the last line   *)
(* of main: src/src/ifreechat.c, src/src/udp_socket.c, init_window and     *)
(* show_window of src/src/window.c and the rows of src/src/treeview.c.     *)
(*                                                                         *)
(* The receiver starts before the windows are made and ends after they are *)
(* gone, and main looks at the result of none of its steps but read_cfg.   *)
(* What malloc left in the structure of the program is used as pointers    *)
(* until they are assigned.  The chat windows are those of LegacyChat.     *)
(***************************************************************************)
EXTENDS Naturals

CONSTANTS
  Users,       \* who announce themselves
  Categories,
  Nobody,      \* no user
  MaxMessages  \* bound: datagrams received

ASSUME NobodyAssumption == Nobody \notin Users

VARIABLES
  memory,    \* what init_ifreechat found in the memory: "zero" or "other"
  main,      \* the next step of the main thread
  receiver,  \* the next step of the receiver
  gdk,       \* who holds the lock of GTK
  usock,     \* ifc->usock: "unset", "open" or "freed"
  shutdown,  \* usock->shutdown
  tree,      \* contact_treeview: "unset", "bare" (has no model), "ready" or "destroyed"
  icon,      \* whether the tray icon is made
  category,  \* the category that each user announces
  users,     \* ulist
  clist,     \* the categories of clist
  titled,    \* those that have a row of their own
  row,       \* the user that the row made for a user shows, Nobody before it is made
  slot,      \* the row that user_iter named last
  current,   \* the sender of the entry message in work
  unread,    \* the length of mlist
  blinking,  \* of the tray icon
  failed,    \* the steps of main that failed
  got,       \* what the receiver found for a user: "none", "null" (no view), "bare", "store"
  missed,    \* an alert fell between test and end of blinking, or before the icon was made
  received,  \* the number of datagrams
  fault      \* the thread that used a bad pointer, or "none"

windows == <<tree, icon>>
socket == <<usock, shutdown>>
contacts == <<users, clist, titled, row, slot, current, got>>
alerts == <<unread, blinking, missed>>
fixed == <<memory, category>>
vars == <<fixed, main, receiver, gdk, socket, windows, contacts, alerts, failed, received, fault>>

Init ==
  /\ memory \in {"zero", "other"}
  /\ category \in [Users -> Categories]
  /\ main = "cfg" /\ receiver = "none" /\ gdk = "none"
  /\ usock = "unset" /\ shutdown = FALSE
  /\ tree = "unset" /\ icon = FALSE
  /\ users = {} /\ clist = {} /\ titled = {}
  /\ row = [u \in Users |-> Nobody] /\ slot = Nobody /\ current = Nobody
  /\ got = [u \in Users |-> "none"]
  /\ unread = 0 /\ blinking = FALSE /\ missed = FALSE
  /\ failed = {} /\ received = 0 /\ fault = "none"

Main(from, to) == fault = "none" /\ main = from /\ main' = to
Receiver(from, to) == fault = "none" /\ receiver = from /\ receiver' = to
Faults(thread) == fault' = thread

-----------------------------------------------------------------------------
(* main, until gtk_main.                                                    *)

ReadCfg ==
  /\ \/ Main("cfg", "socket") /\ UNCHANGED failed
     \/ Main("cfg", "stop") /\ failed' = failed \cup {"cfg"}
  /\ UNCHANGED <<fixed, receiver, gdk, socket, windows, contacts, alerts, received, fault>>

\* Mutant: the socket is not stored.
init_udp_socketUnstored ==
  /\ Main("socket", "listen")
  /\ UNCHANGED <<fixed, receiver, gdk, socket, windows, contacts, alerts, failed, received, fault>>

\* The socket is stored last, after all options are set. enable_socket_reuse
\* returns no value, so that this may fail where each call succeeded.
init_udp_socket ==
  /\ Main("socket", "listen")
  /\ \/ usock' = "open" /\ UNCHANGED failed
     \/ failed' = failed \cup {"socket"} /\ UNCHANGED usock
  /\ UNCHANGED <<fixed, receiver, gdk, shutdown, windows, contacts, alerts, received, fault>>

udp_start_listen ==
  /\ Main("listen", "glade")
  /\ IF usock = "unset"
       THEN Faults("main") /\ UNCHANGED <<receiver, failed>>
       ELSE /\ \/ receiver' = "begin" /\ UNCHANGED failed
               \/ failed' = failed \cup {"thread"} /\ UNCHANGED receiver
            /\ UNCHANGED fault
  /\ UNCHANGED <<fixed, gdk, socket, windows, contacts, alerts, received>>

\* init_window returns at once when there is no description of the windows.
LoadGlade ==
  /\ \/ Main("glade", "icon") /\ tree' = "bare" /\ UNCHANGED failed
     \/ Main("glade", "show") /\ failed' = failed \cup {"glade"} /\ UNCHANGED tree
  /\ UNCHANGED <<fixed, receiver, gdk, socket, icon, contacts, alerts, received, fault>>

MakeIcon ==
  /\ Main("icon", "model")
  /\ icon' = TRUE
  /\ UNCHANGED <<fixed, receiver, gdk, socket, tree, contacts, alerts, failed, received, fault>>

\* The model of the contact tree, then the lists of groups and of the history.
SetModel ==
  /\ Main("model", "show")
  /\ tree' = "ready"
  /\ UNCHANGED <<fixed, receiver, gdk, socket, icon, contacts, alerts, failed, received, fault>>

\* GTK refuses a NULL widget and takes any other pointer for one.
show_window ==
  /\ Main("show", "enter")
  /\ IF tree = "unset" /\ memory = "other" THEN Faults("main") ELSE UNCHANGED fault
  /\ UNCHANGED <<fixed, receiver, gdk, socket, windows, contacts, alerts, failed, received>>

-----------------------------------------------------------------------------
(* main, in gtk_main and behind it.                                         *)

\* gdk_threads_enter, and gtk_main each time that there is something to do.
EnterGdk ==
  /\ \E from \in {"enter", "loop"} : Main(from, "callback")
  /\ gdk = "none"
  /\ gdk' = "main"
  /\ UNCHANGED <<fixed, receiver, socket, windows, contacts, alerts, failed, received, fault>>

\* gtk_main waits without the lock.
LeaveGdk ==
  /\ Main("callback", "loop")
  /\ gdk' = "none"
  /\ UNCHANGED <<fixed, receiver, socket, windows, contacts, alerts, failed, received, fault>>

\* tray_icon_activated: a message is taken off the list, if there is one, ...
TrayTakes ==
  /\ \/ Main("callback", "calm") /\ unread = 0 /\ UNCHANGED unread
     \/ Main("callback", "test") /\ unread > 0 /\ unread' = unread - 1
  /\ icon
  /\ UNCHANGED <<fixed, receiver, gdk, socket, windows, contacts, blinking, missed,
                 failed, received, fault>>

\* Mutant: the icon ends to blink whether or not the list is empty.
TrayTestsNothing ==
  /\ Main("test", "calm")
  /\ UNCHANGED <<fixed, receiver, gdk, socket, windows, contacts, alerts, failed, received, fault>>

\* ... its chat shown, and the list tested, ...
TrayTests ==
  /\ Main("test", IF unread = 0 THEN "calm" ELSE "callback")
  /\ UNCHANGED <<fixed, receiver, gdk, socket, windows, contacts, alerts, failed, received, fault>>

\* ... and then the blinking ended.
TrayCalms ==
  /\ Main("calm", "callback")
  /\ blinking' = FALSE
  /\ UNCHANGED <<fixed, receiver, gdk, socket, windows, contacts, unread, missed,
                 failed, received, fault>>

\* The user closes the window: gtk_main returns, and main gives up the lock.
Close ==
  /\ Main("callback", "quit")
  /\ tree = "ready"
  /\ tree' = "destroyed"
  /\ UNCHANGED <<fixed, receiver, gdk, socket, icon, contacts, alerts, failed, received, fault>>

Leave ==
  /\ Main("quit", "stop")
  /\ gdk' = "none"
  /\ UNCHANGED <<fixed, receiver, socket, windows, contacts, alerts, failed, received, fault>>

\* Mutant: the receiver is not told to end.
udp_stop_listenUntold ==
  /\ Main("stop", "join")
  /\ IF usock = "unset" \/ receiver = "none" THEN Faults("main") ELSE UNCHANGED fault
  /\ UNCHANGED <<fixed, receiver, gdk, socket, windows, contacts, alerts, failed, received>>

\* udp_stop_listen, also when there is no socket or no thread to join.
udp_stop_listen ==
  /\ Main("stop", "join")
  /\ IF usock = "unset" \/ receiver = "none"
       THEN Faults("main") /\ UNCHANGED shutdown
       ELSE shutdown' = TRUE /\ UNCHANGED fault
  /\ UNCHANGED <<fixed, receiver, gdk, usock, windows, contacts, alerts, failed, received>>

Join ==
  /\ Main("join", "ended")
  /\ receiver = "ended"
  /\ usock' = "freed"
  /\ UNCHANGED <<fixed, receiver, gdk, shutdown, windows, contacts, alerts, failed, received, fault>>

-----------------------------------------------------------------------------
(* The receiver: udp_listen_routine, on_buddy_entry, on_buddy_sendmsg.      *)

\* Without an epoll descriptor the thread returns.
Begin ==
  /\ \/ Receiver("begin", "test")
     \/ Receiver("begin", "ended")
  /\ UNCHANGED <<fixed, main, gdk, socket, windows, contacts, alerts, failed, received, fault>>

TestShutdown ==
  /\ Receiver("test", IF shutdown THEN "ended" ELSE "wait")
  /\ UNCHANGED <<fixed, main, gdk, socket, windows, contacts, alerts, failed, received, fault>>

\* epoll_wait waits for 10 ms, or fails.
TimeOut ==
  /\ Receiver("wait", "test")
  /\ UNCHANGED <<fixed, main, gdk, socket, windows, contacts, alerts, failed, received, fault>>

\* An announcement of a user who is known changes the entry of ulist only.
ReceiveKnown(u) ==
  /\ Receiver("wait", "test")
  /\ u \in users
  /\ received < MaxMessages
  /\ received' = received + 1
  /\ UNCHANGED <<fixed, main, gdk, socket, windows, contacts, alerts, failed, fault>>

ReceiveNew(u) ==
  /\ Receiver("wait", "lock")
  /\ u \notin users
  /\ received < MaxMessages
  /\ received' = received + 1
  /\ users' = users \cup {u}
  /\ current' = u
  /\ UNCHANGED <<fixed, main, gdk, socket, windows, clist, titled, row, slot, got,
                 alerts, failed, fault>>

\* Mutant: the lock of GTK is not taken.
LockNot ==
  /\ Receiver("lock", "row")
  /\ UNCHANGED <<fixed, main, gdk, socket, windows, contacts, alerts, failed, received, fault>>

Lock ==
  /\ Receiver("lock", "row")
  /\ gdk = "none"
  /\ gdk' = "receiver"
  /\ UNCHANGED <<fixed, main, socket, windows, contacts, alerts, failed, received, fault>>

\* add_user_to_treeview returns when it has no view, and asks it for its model
\* otherwise.
GetModel ==
  /\ \/ /\ Receiver("row", "unlock")
        /\ tree = "unset" /\ memory = "zero"
        /\ got' = [got EXCEPT ![current] = "null"] /\ UNCHANGED fault
     \/ /\ Receiver("row", "append")
        /\ tree \in {"bare", "ready"}
        /\ got' = [got EXCEPT ![current] = IF tree = "ready" THEN "store" ELSE "bare"]
        /\ UNCHANGED fault
     \/ /\ Receiver("row", "row")
        /\ tree = "destroyed" \/ (tree = "unset" /\ memory = "other")
        /\ Faults("receiver") /\ UNCHANGED got
  /\ UNCHANGED <<fixed, main, gdk, socket, windows, users, clist, titled, row, slot, current,
                 alerts, failed, received>>

\* Mutant: a category gets its row only with its second user.
TitledLate(c) == IF c \in clist /\ got[current] = "store" THEN titled \cup {c} ELSE titled

\* A category that is not in clist gets a row, if there is a model for it.
Titled(c) == IF c \notin clist /\ got[current] = "store" THEN titled \cup {c} ELSE titled

Listed(c) == clist \cup {c}

\* GTK makes no row under a category that has none. user_iter is then what was
\* on the stack: nothing of use, or the row that it named before.
AppendRow ==
  /\ Receiver("append", "unlock")
  /\ LET c == category[current] IN
       /\ titled' = Titled(c)
       /\ clist' = Listed(c)
       /\ \/ /\ got[current] = "store" /\ c \in titled'
             /\ row' = [row EXCEPT ![current] = current]
             /\ slot' = current
          \/ /\ got[current] # "store" \/ c \notin titled'
             /\ UNCHANGED <<row, slot>>
          \/ /\ got[current] = "store" /\ c \notin titled' /\ slot # Nobody
             /\ row' = [row EXCEPT ![slot] = current]
             /\ UNCHANGED slot
  /\ UNCHANGED <<fixed, main, gdk, socket, windows, users, current, got, alerts,
                 failed, received, fault>>

\* The answer to a new user changes nothing here.
Unlock ==
  /\ Receiver("unlock", "test")
  /\ gdk' = "none"
  /\ current' = Nobody
  /\ UNCHANGED <<fixed, main, socket, windows, users, clist, titled, row, slot, got, alerts,
                 failed, received, fault>>

ReceiveText ==
  /\ Receiver("wait", "blink")
  /\ received < MaxMessages
  /\ received' = received + 1
  /\ unread' = unread + 1
  /\ UNCHANGED <<fixed, main, gdk, socket, windows, contacts, blinking, missed, failed, fault>>

\* gtk_status_icon_set_blinking, for which no lock is taken.
Blink ==
  /\ Receiver("blink", "test")
  /\ IF ~icon /\ memory = "other" THEN Faults("receiver") ELSE UNCHANGED fault
  /\ blinking' = icon
  /\ missed' = (missed \/ ~icon \/ main = "calm")
  /\ UNCHANGED <<fixed, main, gdk, socket, windows, contacts, unread, failed, received>>

-----------------------------------------------------------------------------
MainProgress ==
  \/ ReadCfg \/ init_udp_socket \/ udp_start_listen
  \/ LoadGlade \/ MakeIcon \/ SetModel \/ show_window
  \/ EnterGdk \/ LeaveGdk \/ TrayTests \/ TrayCalms
  \/ Leave \/ udp_stop_listen \/ Join

UserActs == TrayTakes \/ Close

ReceiverProgress ==
  \/ Begin \/ TestShutdown \/ TimeOut
  \/ Lock \/ GetModel \/ AppendRow \/ Unlock \/ Blink

Arrival == ReceiveText \/ \E u \in Users : ReceiveKnown(u) \/ ReceiveNew(u)

Halted ==
  /\ main = "ended" \/ fault # "none"
  /\ UNCHANGED vars

Next == MainProgress \/ UserActs \/ ReceiverProgress \/ Arrival \/ Halted

\* Both threads run; nothing is assumed of the user and the network.
Spec == Init /\ [][Next]_vars /\ WF_vars(MainProgress) /\ WF_vars(ReceiverProgress)

-----------------------------------------------------------------------------
(* The receiver uses a bad pointer only while main still makes the windows, or
   after the user has closed them; main only after a step of its own failed,
   whose result it ignored.                                                  *)
FaultExplained ==
  /\ fault = "receiver" =>
       \/ main \in {"glade", "icon", "model", "show"}
       \/ tree = "destroyed"
  /\ fault = "main" => failed # {}

\* A user for whom the receiver found no view, or whose category was new
\* when the view had no model.
Rowless(u) ==
  \/ got[u] = "null"
  \/ \E v \in Users : got[v] = "bare" /\ category[v] = category[u]

(* Whoever is in ulist and not in work has a row that shows him, unless he is
   one of those who come too early, or of a category that came too early, or
   his row was written over for such a user.                                 *)
RowsExplained ==
  \A u \in users \ {current} :
    row[u] # u => Rowless(u) \/ (row[u] # Nobody /\ Rowless(row[u]))

(* The two threads are not in a callback and in the contact tree at once.
   Before gtk_main the main thread holds no lock, and the icon is made to blink
   without one.                                                              *)
GtkExclusive ==
  receiver \in {"row", "append"} => main \notin {"callback", "test", "calm", "quit"}

(* While there are unread messages the icon blinks, but for a message between
   the list and its alert, and but for the alerts that were missed.          *)
BlinksWhileUnread ==
  unread > 0 /\ receiver # "blink" => blinking \/ missed

(* The socket is freed, and the structure of the program with it, when the
   receiver is gone.                                                         *)
JoinedBeforeFree == usock = "freed" => receiver = "ended"

(* The threads keep apart: in the contact tree, and at the end.              *)
ThreadsApart == GtkExclusive /\ JoinedBeforeFree

(* Once the window is closed the program comes to its end, however many
   datagrams arrive, unless the receiver used the window.                    *)
CloseEnds == tree = "destroyed" ~> (main = "ended" \/ fault # "none")
==============================================================================
