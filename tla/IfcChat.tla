------------------------------- MODULE IfcChat -------------------------------
(***************************************************************************)
(* How a private message gets to a window in the ifc program.  The message *)
(* loop and the GTK thread share the list of unread messages, the windows  *)
(* and the blinking of the tray icon with no lock: that of mlist is        *)
(* commented out, and gdk_threads_enter locks nothing, as gdk_threads_init *)
(* is not called.  Every access of one thread to what the other changes is *)
(* a step; a call of GTK is one.  A behaviour ends at the first use of     *)
(* memory that was freed or not set up (undefined).                        *)
(***************************************************************************)
EXTENDS Dlist, SequencesExt

CONSTANTS Users, None,
  MaxMsgs,    \* bound: private messages that arrive
  MaxWindows  \* bound: windows that are opened

Msgs == 1 .. MaxMsgs
MList == 0                 \* the head of mlist
Nodes == Msgs \cup {MList}
Windows == 1 .. MaxWindows

ASSUME NoneAssumption == None \notin Msgs \cup Windows
ASSUME BoundAssumption == MaxMsgs \in Nat /\ MaxWindows \in Nat

VARIABLES
  from,       \* the sender of each message
  links,      \* of mlist and the messages
  chatbox,    \* user_entry_t.chatbox, or None
  ready,      \* the windows that init_chatbox has set up
  closed,     \* the windows given back to the pool
  blinking,   \* of the tray icon
  loop,       \* the message loop: what it does next, for which message,
              \* with what it read
  gtk,        \* the same for the GTK thread
  freed,      \* messages given back to the pool
  undefined,  \* what was misused
  shown,      \* for each window, the messages in it
  unread,     \* the messages that were queued and not taken, in order
  dropped,    \* the messages that were taken and not shown
  opened,     \* for each window that was opened: its user, the message that
              \* a click opened it for, and the last message that had come
  overlapped, \* the last message was taken while another was appended
  late        \* an alert came between the test of mlist and the end of blinking

shared == <<links, chatbox, ready, closed, blinking, freed, shown, unread>>
ghosts == <<dropped, opened, overlapped, late>>
vars == <<from, shared, loop, gtk, undefined, ghosts>>

LoopIdle == [at |-> "idle", msg |-> 0, tail |-> MList, box |-> None]
GtkIdle == [at |-> "idle", msg |-> None, prev |-> MList, next |-> MList, user |-> None]

Init ==
  /\ from \in [Msgs -> Users]
  /\ links = Alone(Nodes)
  /\ chatbox = [u \in Users |-> None]
  /\ ready = {} /\ closed = {}
  /\ blinking = FALSE
  /\ loop = LoopIdle
  /\ gtk = GtkIdle
  /\ freed = {}
  /\ undefined = "no"
  /\ shown = [w \in Windows |-> << >>]
  /\ unread = << >>
  /\ dropped = {}
  /\ opened = << >>
  /\ overlapped = FALSE /\ late = FALSE

Running == undefined = "no"

-----------------------------------------------------------------------------
(* insert_chat_msg, in the message loop                                     *)

LoopAt(p) == Running /\ loop.at = p

LoopThen(p) == loop' = [loop EXCEPT !.at = p]

LoopReturns == loop' = [LoopIdle EXCEPT !.msg = loop.msg]

Sender == from[loop.msg]

\* on_pchat_callback finds the user, whose chatbox is read.
Receive ==
  /\ LoopAt("idle")
  /\ loop.msg < MaxMsgs
  /\ loop' = [LoopIdle EXCEPT !.msg = loop.msg + 1,
                              !.box = chatbox[from[loop.msg + 1]],
                              !.at = IF chatbox[from[loop.msg + 1]] = None
                                     THEN "append" ELSE "show"]
  /\ UNCHANGED <<from, shared, gtk, undefined, ghosts>>

\* The GTK thread takes the only message on the list.
TakesLast == gtk.at \in {"join", "unlink"} /\ gtk.next = MList

\* dlist_add_tail reads mlist.prev,
AppendRead ==
  /\ LoopAt("append")
  /\ loop' = [loop EXCEPT !.tail = links.prev[MList], !.at = "link"]
  /\ overlapped' = (overlapped \/ TakesLast)
  /\ UNCHANGED <<from, shared, gtk, undefined, dropped, opened, late>>

\* sets the links backwards,
AppendBack ==
  /\ LoopAt("link")
  /\ links' = [next |-> [links.next EXCEPT ![loop.msg] = MList],
               prev |-> [links.prev EXCEPT ![MList] = loop.msg, ![loop.msg] = loop.tail]]
  /\ LoopThen("finish")
  /\ UNCHANGED <<from, chatbox, ready, closed, blinking, freed, shown, unread,
                 gtk, undefined, ghosts>>

\* and the link forwards, in the node it took for the last.
AppendForward ==
  /\ LoopAt("finish")
  /\ links' = [links EXCEPT !.next[loop.tail] = loop.msg]
  /\ unread' = Append(unread, loop.msg)
  /\ undefined' = IF loop.tail \in freed THEN "freed_node" ELSE undefined
  /\ LoopThen("alert")
  /\ UNCHANGED <<from, chatbox, ready, closed, blinking, freed, shown, gtk, ghosts>>

\* Mutant: the alert is left to the next message.
AlertForgotten ==
  /\ LoopAt("alert")
  /\ LoopReturns
  /\ UNCHANGED <<from, shared, gtk, undefined, ghosts>>

\* set_message_alert
Alert ==
  /\ LoopAt("alert")
  /\ blinking' = TRUE
  /\ late' = (late \/ gtk.at = "calm")
  /\ LoopReturns
  /\ UNCHANGED <<from, links, chatbox, ready, closed, freed, shown, unread,
                 gtk, undefined, dropped, opened, overlapped>>

\* chatbox_insert_msg, with the chatbox that was read before
Show ==
  /\ LoopAt("show")
  /\ IF loop.box \in closed \/ loop.box \notin ready
     THEN /\ undefined' = IF loop.box \in closed THEN "closed_window" ELSE "unready_window"
          /\ UNCHANGED <<shown, freed>>
     ELSE /\ shown' = [shown EXCEPT ![loop.box] = Append(@, loop.msg)]
          /\ freed' = freed \cup {loop.msg}
          /\ UNCHANGED undefined
  /\ LoopReturns
  /\ UNCHANGED <<from, links, chatbox, ready, closed, blinking, unread, gtk, ghosts>>

-----------------------------------------------------------------------------
(* tray_icon_activated, in the GTK thread                                   *)

GtkAt(p) == Running /\ gtk.at = p

GtkThen(p) == gtk' = IF p = "idle" THEN GtkIdle ELSE [gtk EXCEPT !.at = p]

\* There is no message: the main window is shown.
TrayNothing ==
  /\ GtkAt("idle")
  /\ links.next[MList] = MList
  /\ GtkThen("calm")
  /\ UNCHANGED <<from, shared, loop, undefined, ghosts>>

\* dlist_del reads the neighbours of the first message,
TrayTake ==
  /\ GtkAt("idle")
  /\ links.next[MList] # MList
  /\ LET m == links.next[MList] IN
       /\ gtk' = [GtkIdle EXCEPT !.at = "join", !.msg = m,
                                 !.prev = links.prev[m], !.next = links.next[m]]
       /\ undefined' = IF m \in freed THEN "freed_message" ELSE undefined
       /\ overlapped' = (overlapped \/ (loop.at \in {"link", "finish"} /\ links.next[m] = MList))
  /\ UNCHANGED <<from, shared, loop, dropped, opened, late>>

\* Mutant: only the forward link is closed.
TrayJoinBackSkipped ==
  /\ GtkAt("join")
  /\ GtkThen("unlink")
  /\ UNCHANGED <<from, shared, loop, undefined, ghosts>>

\* closes the ring backwards,
TrayJoinBack ==
  /\ GtkAt("join")
  /\ links' = [links EXCEPT !.prev[gtk.next] = gtk.prev]
  /\ GtkThen("unlink")
  /\ UNCHANGED <<from, chatbox, ready, closed, blinking, freed, shown, unread,
                 loop, undefined, ghosts>>

\* Mutant: the ring is closed in one direction only.
TrayUnlinkBackOnly ==
  /\ GtkAt("unlink")
  /\ links' = [next |-> [links.next EXCEPT ![MList] = gtk.next],
               prev |-> [links.prev EXCEPT ![gtk.next] = gtk.msg]]
  /\ unread' = RemoveFirst(unread, gtk.msg)
  /\ gtk' = [GtkIdle EXCEPT !.at = "present", !.msg = gtk.msg]
  /\ UNCHANGED <<from, chatbox, ready, closed, blinking, freed, shown,
                 loop, undefined, ghosts>>

\* and forwards.
TrayUnlink ==
  /\ GtkAt("unlink")
  /\ links' = [next |-> [links.next EXCEPT ![gtk.prev] = gtk.next, ![gtk.msg] = gtk.msg],
               prev |-> [links.prev EXCEPT ![gtk.msg] = gtk.msg]]
  /\ unread' = RemoveFirst(unread, gtk.msg)
  /\ gtk' = [GtkIdle EXCEPT !.at = "present", !.msg = gtk.msg]
  /\ UNCHANGED <<from, chatbox, ready, closed, blinking, freed, shown,
                 loop, undefined, ghosts>>

\* Mutant: the message is shown in the open window too.
TrayPresentShows ==
  /\ GtkAt("present")
  /\ chatbox[from[gtk.msg]] # None
  /\ shown' = [shown EXCEPT ![chatbox[from[gtk.msg]]] = Append(@, gtk.msg)]
  /\ GtkThen("test")
  /\ UNCHANGED <<from, links, chatbox, ready, closed, blinking, freed, unread,
                 loop, undefined, ghosts>>

\* A window of the sender is open: it is presented, the message is not shown.
TrayPresent ==
  /\ GtkAt("present")
  /\ chatbox[from[gtk.msg]] # None
  /\ dropped' = dropped \cup {gtk.msg}
  /\ GtkThen("test")
  /\ UNCHANGED <<from, shared, loop, undefined, opened, overlapped, late>>

\* new_pchatbox enters the window for the user before init_chatbox sets it up.
Enter(u, m) ==
  /\ Len(opened) < MaxWindows
  /\ opened' = Append(opened, [user |-> u, click |-> m, seen |-> loop.msg])
  /\ chatbox' = [chatbox EXCEPT ![u] = Len(opened) + 1]
  /\ gtk' = [GtkIdle EXCEPT !.at = "init", !.msg = m, !.user = u]
  /\ UNCHANGED <<from, links, ready, closed, blinking, freed, shown, unread,
                 loop, undefined, dropped, overlapped, late>>

TrayNew ==
  /\ GtkAt("present")
  /\ chatbox[from[gtk.msg]] = None
  /\ Enter(from[gtk.msg], gtk.msg)

\* init_chatbox
InitChatbox ==
  /\ GtkAt("init")
  /\ ready' = ready \cup {chatbox[gtk.user]}
  /\ GtkThen(IF gtk.msg = None THEN "idle" ELSE "insert")
  /\ UNCHANGED <<from, links, chatbox, closed, blinking, freed, shown, unread,
                 loop, undefined, ghosts>>

TrayInsert ==
  /\ GtkAt("insert")
  /\ shown' = [shown EXCEPT ![chatbox[gtk.user]] = Append(@, gtk.msg)]
  /\ GtkThen("test")
  /\ UNCHANGED <<from, links, chatbox, ready, closed, blinking, freed, unread,
                 loop, undefined, ghosts>>

\* The list is tested, and then the blinking ended.
TrayTest ==
  /\ GtkAt("test")
  /\ GtkThen(IF links.next[MList] = MList THEN "calm" ELSE "free")
  /\ UNCHANGED <<from, shared, loop, undefined, ghosts>>

TrayCalm ==
  /\ GtkAt("calm")
  /\ blinking' = FALSE
  /\ GtkThen(IF gtk.msg = None THEN "idle" ELSE "free")
  /\ UNCHANGED <<from, links, chatbox, ready, closed, freed, shown, unread,
                 loop, undefined, ghosts>>

TrayFree ==
  /\ GtkAt("free")
  /\ freed' = freed \cup {gtk.msg}
  /\ gtk' = GtkIdle
  /\ UNCHANGED <<from, links, chatbox, ready, closed, blinking, shown, unread,
                 loop, undefined, ghosts>>

-----------------------------------------------------------------------------
\* contact_treeview_ondoubleclicked, for a user without a window; for another
\* one the window is presented.
DoubleClick(u) ==
  /\ GtkAt("idle")
  /\ chatbox[u] = None
  /\ Enter(u, None)

\* on_close_button and close_chatbox
Close(u) ==
  /\ GtkAt("idle")
  /\ chatbox[u] # None
  /\ closed' = closed \cup {chatbox[u]}
  /\ chatbox' = [chatbox EXCEPT ![u] = None]
  /\ UNCHANGED <<from, links, ready, blinking, freed, shown, unread,
                 loop, gtk, undefined, ghosts>>

Next ==
  \/ Receive \/ AppendRead \/ AppendBack \/ AppendForward \/ Alert \/ Show
  \/ TrayNothing \/ TrayTake \/ TrayJoinBack \/ TrayUnlink
  \/ TrayPresent \/ TrayNew \/ InitChatbox \/ TrayInsert
  \/ TrayTest \/ TrayCalm \/ TrayFree
  \/ \E u \in Users : DoubleClick(u) \/ Close(u)

Spec == Init /\ [][Next]_vars

-----------------------------------------------------------------------------
BetweenAppends == loop.at \notin {"link", "finish"}
BetweenTakes == gtk.at \notin {"join", "unlink"}

(* Appending to the list in one thread while the other takes from it does no
   harm without a lock, unless the message taken is the only one: then both
   write the links of the head, and messages are lost, all later ones too.  *)
ListIntact ==
  BetweenAppends /\ BetweenTakes /\ ~overlapped =>
    /\ Ends(links.next, MList) /\ Walk(links.next, MList) = unread
    /\ Ends(links.prev, MList) /\ Walk(links.prev, MList) = Reverse(unread)

(* Messages that were given back are touched by either thread only after such
   an overlap; the GTK thread never touches one, for it is the only one to
   take and give back those of the list.                                    *)
FreedOnlyByOverlap ==
  /\ undefined = "freed_node" => overlapped
  /\ undefined # "freed_message"

(* While the threads are idle and a message can be found on the list, the
   icon blinks, unless the alert came between test and end of blinking.     *)
BlinksWhileUnread ==
  loop.at = "idle" /\ gtk.at = "idle" /\ links.next[MList] # MList =>
    blinking \/ late

(* A window shows the messages of its user as they came, but for the one
   whose click opened it, which the message loop may overtake.              *)
WindowInOrder ==
  \A w \in DOMAIN opened : \A i, j \in DOMAIN shown[w] :
    i < j /\ opened[w].click \notin {shown[w][i], shown[w][j]} => shown[w][i] < shown[w][j]

(* Every message that the loop is done with is in one window, unread on the
   list, or dropped, in exactly one of these, or the run has ended or the
   list was damaged: a click may cost a message, never double it.           *)
Windowed(m) == {w \in Windows : m \in ToSet(shown[w])}

Done(m) == m < loop.msg \/ (m = loop.msg /\ loop.at = "idle")

Taken == IF gtk.at \in {"present", "init", "insert"} THEN {gtk.msg} ELSE {}

OneFate ==
  Running =>
    \A m \in Msgs :
      Done(m) =>
        Cardinality(Windowed(m)) + (IF m \in ToSet(unread) THEN 1 ELSE 0)
          + (IF m \in dropped THEN 1 ELSE 0) + (IF m \in Taken THEN 1 ELSE 0) = 1

(* A message is dropped only behind a window of its sender that was opened
   while the message waited: one that was open before would have shown it.
   Whoever opens a chat because the icon blinks loses what has come.        *)
DroppedBehindNewWindow ==
  \A m \in dropped : \E w \in DOMAIN opened : opened[w].user = from[m] /\ m <= opened[w].seen

(* What becomes of a message: it is shown in its place, or lost in the one way
   in which a click can lose it.                                            *)
Delivered == WindowInOrder /\ OneFate /\ DroppedBehindNewWindow
=============================================================================
