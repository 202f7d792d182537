--------------------------- MODULE LegacyStartProofs -------------------------
(***************************************************************************)
(* For every number of users, categories and datagrams: the lock of GTK    *)
(* keeps the receiver out of the callbacks, the socket is freed when the   *)
(* receiver is gone, bad pointers are used in the named cases only, only   *)
(* the named users have no row, and unread messages blink.  Then, for      *)
(* whatever the user may have written, the settings file that main reads   *)
(* first: it keeps its elements and agrees with the running program.       *)
(***************************************************************************)
EXTENDS LegacyStart, Settings, FiniteSetTheorems, WellFoundedInduction, TLAPS

USE DEF Main, Receiver, Faults, fixed, windows, socket, contacts, alerts

-----------------------------------------------------------------------------
\* Whoever has the lock is in the steps between taking it and giving it up.
LockHeld ==
  /\ gdk = "main" <=> main \in {"callback", "test", "calm", "quit"}
  /\ gdk = "receiver" <=> receiver \in {"row", "append", "unlock"}

SocketFreed == usock = "freed" => main = "ended" /\ receiver = "ended"

\* What main has done, or failed to do, by the time it is where it is.
Behind(places) == main \notin places

Done ==
  /\ main \in {"cfg", "socket", "listen"} => receiver = "none"
  /\ main \in {"cfg", "socket", "listen", "glade"} => tree = "unset"
  /\ main \in {"icon", "model"} => tree # "unset"
  /\ main = "model" => icon
  /\ main = "show" /\ ~icon => tree = "unset"
  /\ usock = "unset" /\ Behind({"cfg", "socket"}) => failed # {}
  /\ receiver = "none" /\ Behind({"cfg", "socket", "listen"}) => failed # {}
  /\ tree = "unset" /\ main = "show" => failed # {}

\* While the receiver can meet an unset pointer main is not yet behind
\* show_window.
Early ==
  fault = "none" /\ memory = "other" /\ receiver # "none" =>
    /\ tree = "unset" => main \in {"glade", "show"}
    /\ ~icon => main \in {"glade", "icon", "show"}

ControlInv == LockHeld /\ SocketFreed /\ Done /\ Early /\ FaultExplained

LEMMA ControlInvariance == Spec => []ControlInv
<1>1. Init => ControlInv
  BY DEF Init, ControlInv, LockHeld, SocketFreed, Done, Behind, Early, FaultExplained
<1>2. ControlInv /\ [Next]_vars => ControlInv'
  <2> SUFFICES ASSUME ControlInv, [Next]_vars PROVE ControlInv'
    OBVIOUS
  <2>1. CASE ReadCfg
    BY <2>1 DEF ReadCfg, ControlInv, LockHeld, SocketFreed, Done, Behind, Early, FaultExplained
  <2>2. CASE init_udp_socket
    BY <2>2 DEF init_udp_socket, ControlInv, LockHeld, SocketFreed, Done, Behind, Early, FaultExplained
  <2>3. CASE udp_start_listen
    BY <2>3 DEF udp_start_listen, ControlInv, LockHeld, SocketFreed, Done, Behind, Early, FaultExplained
  <2>4. CASE LoadGlade
    BY <2>4 DEF LoadGlade, ControlInv, LockHeld, SocketFreed, Done, Behind, Early, FaultExplained
  <2>5. CASE MakeIcon
    BY <2>5 DEF MakeIcon, ControlInv, LockHeld, SocketFreed, Done, Behind, Early, FaultExplained
  <2>6. CASE SetModel
    BY <2>6 DEF SetModel, ControlInv, LockHeld, SocketFreed, Done, Behind, Early, FaultExplained
  <2>7. CASE show_window
    BY <2>7 DEF show_window, ControlInv, LockHeld, SocketFreed, Done, Behind, Early, FaultExplained
  <2>8. CASE EnterGdk
    BY <2>8 DEF EnterGdk, ControlInv, LockHeld, SocketFreed, Done, Behind, Early, FaultExplained
  <2>9. CASE LeaveGdk
    BY <2>9 DEF LeaveGdk, ControlInv, LockHeld, SocketFreed, Done, Behind, Early, FaultExplained
  <2>10. CASE TrayTests
    BY <2>10 DEF TrayTests, ControlInv, LockHeld, SocketFreed, Done, Behind, Early, FaultExplained
  <2>11. CASE TrayCalms
    BY <2>11 DEF TrayCalms, ControlInv, LockHeld, SocketFreed, Done, Behind, Early, FaultExplained
  <2>12. CASE Leave
    BY <2>12 DEF Leave, ControlInv, LockHeld, SocketFreed, Done, Behind, Early, FaultExplained
  <2>13. CASE udp_stop_listen
    BY <2>13 DEF udp_stop_listen, ControlInv, LockHeld, SocketFreed, Done, Behind, Early, FaultExplained
  <2>14. CASE Join
    BY <2>14 DEF Join, ControlInv, LockHeld, SocketFreed, Done, Behind, Early, FaultExplained
  <2>15. CASE TrayTakes
    BY <2>15 DEF TrayTakes, ControlInv, LockHeld, SocketFreed, Done, Behind, Early, FaultExplained
  <2>16. CASE Close
    BY <2>16 DEF Close, ControlInv, LockHeld, SocketFreed, Done, Behind, Early, FaultExplained
  <2>17. CASE Begin
    BY <2>17 DEF Begin, ControlInv, LockHeld, SocketFreed, Done, Behind, Early, FaultExplained
  <2>18. CASE TestShutdown
    BY <2>18 DEF TestShutdown, ControlInv, LockHeld, SocketFreed, Done, Behind, Early, FaultExplained
  <2>19. CASE TimeOut
    BY <2>19 DEF TimeOut, ControlInv, LockHeld, SocketFreed, Done, Behind, Early, FaultExplained
  <2>20. CASE Lock
    BY <2>20 DEF Lock, ControlInv, LockHeld, SocketFreed, Done, Behind, Early, FaultExplained
  <2>21. CASE GetModel
    BY <2>21 DEF GetModel, ControlInv, LockHeld, SocketFreed, Done, Behind, Early, FaultExplained
  <2>22. CASE AppendRow
    BY <2>22 DEF AppendRow, ControlInv, LockHeld, SocketFreed, Done, Behind, Early, FaultExplained
  <2>23. CASE Unlock
    BY <2>23 DEF Unlock, ControlInv, LockHeld, SocketFreed, Done, Behind, Early, FaultExplained
  <2>24. CASE Blink
    BY <2>24 DEF Blink, ControlInv, LockHeld, SocketFreed, Done, Behind, Early, FaultExplained
  <2>25. CASE ReceiveText
    BY <2>25 DEF ReceiveText, ControlInv, LockHeld, SocketFreed, Done, Behind, Early, FaultExplained
  <2>26. ASSUME NEW u \in Users, ReceiveKnown(u) PROVE ControlInv'
    BY <2>26 DEF ReceiveKnown, ControlInv, LockHeld, SocketFreed, Done, Behind, Early, FaultExplained
  <2>27. ASSUME NEW u \in Users, ReceiveNew(u) PROVE ControlInv'
    BY <2>27 DEF ReceiveNew, ControlInv, LockHeld, SocketFreed, Done, Behind, Early, FaultExplained
  <2>28. CASE UNCHANGED vars
    BY <2>28 DEF vars, ControlInv, LockHeld, SocketFreed, Done, Behind, Early, FaultExplained
  <2> QED  BY <2>1, <2>2, <2>3, <2>4, <2>5, <2>6, <2>7, <2>8, <2>9, <2>10, <2>11, <2>12, <2>13, <2>14,
           <2>15, <2>16, <2>17, <2>18, <2>19, <2>20, <2>21, <2>22, <2>23, <2>24, <2>25, <2>26, <2>27, <2>28
           DEF Next, MainProgress, UserActs, ReceiverProgress, Arrival, Halted
<1> QED  BY <1>1, <1>2, PTL DEF Spec

(* The lock of GTK keeps the receiver out of the contact tree while main is in
   a callback, and the socket is freed after the receiver has ended.         *)
THEOREM ThreadsKeepApart == Spec => []ThreadsApart
<1>1. ControlInv => ThreadsApart
  BY DEF ControlInv, LockHeld, SocketFreed, ThreadsApart, GtkExclusive, JoinedBeforeFree
<1> QED  BY <1>1, ControlInvariance, PTL

(* A bad pointer is used by the receiver only before show_window or after the
   window is closed, and by main only after one of its steps failed.         *)
THEOREM FaultsExplained == Spec => []FaultExplained
<1>1. ControlInv => FaultExplained
  BY DEF ControlInv
<1> QED  BY <1>1, ControlInvariance, PTL

-----------------------------------------------------------------------------
Places ==
  /\ users \subseteq Users
  /\ current \in users \cup {Nobody} /\ slot \in users \cup {Nobody}
  /\ row \in [Users -> Users \cup {Nobody}]
  /\ got \in [Users -> {"none", "null", "bare", "store"}]
  /\ receiver \in {"lock", "row", "append", "unlock"} <=> current # Nobody

\* The receiver looks at the tree once for each user.
Asked ==
  /\ \A u \in Users \ users : got[u] = "none"
  /\ receiver \in {"lock", "row"} => got[current] = "none"
  /\ receiver = "append" => got[current] \in {"bare", "store"}

\* A category with no row of its own came when there was no model.
Orphans ==
  \A c \in clist \ titled : \E v \in Users : got[v] = "bare" /\ category[v] = c

Appended == receiver = "unlock" /\ row[current] # current => Rowless(current)

RowsInv == Places /\ Asked /\ Orphans /\ Appended /\ RowsExplained

\* A step that leaves the contacts alone and keeps the receiver out of, or in,
\* the work on an entry.
LEMMA RowsKept ==
  ASSUME RowsInv, UNCHANGED <<contacts, category>>,
         \/ receiver' = receiver
         \/ {receiver, receiver'} \cap {"lock", "row", "append", "unlock"} = {}
         \/ receiver = "lock" /\ receiver' = "row"
  PROVE  RowsInv'
<1>1. Places'
  BY DEF RowsInv, Places
<1>2. Asked' /\ Orphans'
  BY DEF RowsInv, Asked, Orphans
<1>3. Appended' /\ RowsExplained'
  BY DEF RowsInv, Appended, RowsExplained, Rowless
<1> QED  BY <1>1, <1>2, <1>3 DEF RowsInv

LEMMA RowsOfGetModel ==
  ASSUME RowsInv, GetModel PROVE RowsInv'
<1>1. /\ receiver = "row" /\ current \in Users /\ got[current] = "none"
      /\ UNCHANGED <<users, clist, titled, row, slot, current, category>>
  BY NobodyAssumption DEF GetModel, RowsInv, Places, Asked
<1>2. CASE receiver' = "row" /\ UNCHANGED got
  BY <1>1, <1>2, RowsKept DEF GetModel
<1>3. ASSUME NEW m \in {"null", "bare", "store"}, got' = [got EXCEPT ![current] = m],
             receiver' = IF m = "null" THEN "unlock" ELSE "append"
      PROVE  RowsInv'
  <2>1. Places'
    BY <1>1, <1>3 DEF RowsInv, Places
  <2>2. Asked'
    BY <1>1, <1>3 DEF RowsInv, Places, Asked
  <2>3. \A u \in Users : Rowless(u) => Rowless(u)'
    BY <1>1, <1>3 DEF RowsInv, Places, Rowless
  <2>4. Orphans'
    BY <1>1, <1>3 DEF RowsInv, Places, Orphans
  <2>5. Appended'
    BY <1>1, <1>3 DEF RowsInv, Places, Appended, Rowless
  <2>6. RowsExplained'
    BY <1>1, <2>3 DEF RowsInv, Places, RowsExplained
  <2> QED  BY <2>1, <2>2, <2>4, <2>5, <2>6 DEF RowsInv
<1> QED  BY <1>2, <1>3 DEF GetModel

LEMMA RowsOfAppendRow ==
  ASSUME RowsInv, AppendRow PROVE RowsInv'
<1> DEFINE c == category[current]
           refused == ~ (got[current] = "store" /\ c \in titled')
<1>1. /\ receiver = "append" /\ receiver' = "unlock"
      /\ current \in Users /\ current \in users /\ got[current] \in {"bare", "store"}
      /\ titled' = Titled(c) /\ clist' = Listed(c)
      /\ UNCHANGED <<users, current, category, got>>
  BY NobodyAssumption DEF AppendRow, RowsInv, Places, Asked
<1>2. \/ ~refused /\ row' = [row EXCEPT ![current] = current] /\ slot' = current
      \/ refused /\ UNCHANGED <<row, slot>>
      \/ refused /\ slot # Nobody /\ row' = [row EXCEPT ![slot] = current] /\ UNCHANGED slot
  BY DEF AppendRow
<1>3. refused => Rowless(current)
  BY <1>1 DEF RowsInv, Orphans, Rowless, Titled
<1>4. Places'
  BY <1>1, <1>2 DEF RowsInv, Places
<1>5. Asked'
  BY <1>1 DEF RowsInv, Asked
<1>6. Orphans'
  BY <1>1 DEF RowsInv, Orphans, Titled, Listed
<1>7. \A u \in Users : Rowless(u)' <=> Rowless(u)
  BY <1>1 DEF Rowless
<1>8. Appended'
  BY <1>1, <1>2, <1>3, <1>7 DEF RowsInv, Places, Appended
<1>9. RowsExplained'
  <2> SUFFICES ASSUME NEW u \in users \ {current}, row'[u] # u
               PROVE  Rowless(u) \/ (row'[u] # Nobody /\ Rowless(row'[u]))
    BY <1>1, <1>4, <1>7 DEF RowsExplained, Places
  <2>1. CASE row'[u] = row[u]
    BY <2>1 DEF RowsInv, RowsExplained
  <2>2. CASE row'[u] # row[u]
    BY <2>2, <1>1, <1>2, <1>3, NobodyAssumption DEF RowsInv, Places
  <2> QED  BY <2>1, <2>2
<1> QED  BY <1>4, <1>5, <1>6, <1>8, <1>9 DEF RowsInv

LEMMA RowsOfReceiveNew ==
  ASSUME RowsInv, NEW u \in Users, ReceiveNew(u) PROVE RowsInv'
<1>1. /\ receiver = "wait" /\ receiver' = "lock" /\ u \notin users
      /\ users' = users \cup {u} /\ current = Nobody /\ current' = u
      /\ UNCHANGED <<clist, titled, row, slot, got, category>>
  BY DEF ReceiveNew, RowsInv, Places
<1>2. Places'
  BY <1>1, NobodyAssumption DEF RowsInv, Places
<1>3. Asked' /\ Orphans' /\ Appended'
  BY <1>1 DEF RowsInv, Asked, Orphans, Appended
<1>4. RowsExplained'
  BY <1>1, NobodyAssumption DEF RowsInv, Places, RowsExplained, Rowless
<1> QED  BY <1>2, <1>3, <1>4 DEF RowsInv

LEMMA RowsOfUnlock ==
  ASSUME RowsInv, Unlock PROVE RowsInv'
<1>1. /\ receiver = "unlock" /\ receiver' = "test" /\ current' = Nobody
      /\ UNCHANGED <<users, clist, titled, row, slot, got, category>>
  BY DEF Unlock
<1>2. Places' /\ Asked' /\ Orphans' /\ Appended'
  BY <1>1 DEF RowsInv, Places, Asked, Orphans, Appended
<1>3. RowsExplained'
  BY <1>1 DEF RowsInv, Appended, RowsExplained, Rowless
<1> QED  BY <1>2, <1>3 DEF RowsInv

LEMMA RowsInvariance == Spec => []RowsInv
<1>1. Init => RowsInv
  BY NobodyAssumption DEF Init, RowsInv, Places, Asked, Orphans, Appended, RowsExplained
<1>2. ControlInv /\ RowsInv /\ [Next]_vars => RowsInv'
  <2> SUFFICES ASSUME ControlInv, RowsInv, [Next]_vars PROVE RowsInv'
    OBVIOUS
  <2>1. CASE ReadCfg
    BY <2>1, RowsKept DEF ReadCfg
  <2>2. CASE init_udp_socket
    BY <2>2, RowsKept DEF init_udp_socket
  <2>3. CASE udp_start_listen
    BY <2>3, RowsKept DEF udp_start_listen, ControlInv, Done
  <2>4. CASE LoadGlade
    BY <2>4, RowsKept DEF LoadGlade
  <2>5. CASE MakeIcon
    BY <2>5, RowsKept DEF MakeIcon
  <2>6. CASE SetModel
    BY <2>6, RowsKept DEF SetModel
  <2>7. CASE show_window
    BY <2>7, RowsKept DEF show_window
  <2>8. CASE EnterGdk
    BY <2>8, RowsKept DEF EnterGdk
  <2>9. CASE LeaveGdk
    BY <2>9, RowsKept DEF LeaveGdk
  <2>10. CASE TrayTests
    BY <2>10, RowsKept DEF TrayTests
  <2>11. CASE TrayCalms
    BY <2>11, RowsKept DEF TrayCalms
  <2>12. CASE Leave
    BY <2>12, RowsKept DEF Leave
  <2>13. CASE udp_stop_listen
    BY <2>13, RowsKept DEF udp_stop_listen
  <2>14. CASE Join
    BY <2>14, RowsKept DEF Join
  <2>15. CASE TrayTakes
    BY <2>15, RowsKept DEF TrayTakes
  <2>16. CASE Close
    BY <2>16, RowsKept DEF Close
  <2>17. CASE Begin
    BY <2>17, RowsKept DEF Begin
  <2>18. CASE TestShutdown
    BY <2>18, RowsKept DEF TestShutdown
  <2>19. CASE TimeOut
    BY <2>19, RowsKept DEF TimeOut
  <2>20. CASE Lock
    BY <2>20, RowsKept DEF Lock
  <2>21. CASE Blink
    BY <2>21, RowsKept DEF Blink
  <2>22. CASE ReceiveText
    BY <2>22, RowsKept DEF ReceiveText
  <2>23. CASE GetModel
    BY <2>23, RowsOfGetModel
  <2>24. CASE AppendRow
    BY <2>24, RowsOfAppendRow
  <2>25. CASE Unlock
    BY <2>25, RowsOfUnlock
  <2>26. ASSUME NEW u \in Users, ReceiveKnown(u) PROVE RowsInv'
    BY <2>26, RowsKept DEF ReceiveKnown
  <2>27. ASSUME NEW u \in Users, ReceiveNew(u) PROVE RowsInv'
    BY <2>27, RowsOfReceiveNew
  <2>28. CASE UNCHANGED vars
    BY <2>28, RowsKept DEF vars
  <2> QED  BY <2>1, <2>2, <2>3, <2>4, <2>5, <2>6, <2>7, <2>8, <2>9, <2>10, <2>11, <2>12, <2>13, <2>14,
           <2>15, <2>16, <2>17, <2>18, <2>19, <2>20, <2>21, <2>22, <2>23, <2>24, <2>25, <2>26, <2>27, <2>28
           DEF Next, MainProgress, UserActs, ReceiverProgress, Arrival, Halted
<1> QED  BY <1>1, <1>2, ControlInvariance, PTL DEF Spec

(* Every user who is known and not in work has a row that shows him, but for
   those who came too early and those whose row was written over for one who
   did.                                                                      *)
THEOREM RowsAreExplained == Spec => []RowsExplained
<1>1. RowsInv => RowsExplained
  BY DEF RowsInv
<1> QED  BY <1>1, RowsInvariance, PTL
-----------------------------------------------------------------------------
\* Between the test of the list and the end of the blinking a message can come:
\* it is then in the hands of the receiver, or its alert was missed.
Calming == main = "calm" /\ unread > 0 => receiver = "blink" \/ missed

AlertInv ==
  /\ unread \in Nat
  /\ Calming
  /\ BlinksWhileUnread

\* A step that leaves the alerts alone and does not test the list.
LEMMA AlertKept ==
  ASSUME AlertInv, UNCHANGED alerts, main' = "calm" => main = "calm",
         receiver = "blink" => receiver' = "blink"
  PROVE  AlertInv'
  BY DEF AlertInv, Calming, BlinksWhileUnread

LEMMA AlertInvariance == Spec => []AlertInv
<1>1. Init => AlertInv
  BY DEF Init, AlertInv, Calming, BlinksWhileUnread
<1>2. ControlInv /\ AlertInv /\ [Next]_vars => AlertInv'
  <2> SUFFICES ASSUME ControlInv, AlertInv, [Next]_vars PROVE AlertInv'
    OBVIOUS
  <2>1. CASE ReadCfg
    BY <2>1, AlertKept DEF ReadCfg
  <2>2. CASE init_udp_socket
    BY <2>2, AlertKept DEF init_udp_socket
  <2>3. CASE udp_start_listen
    BY <2>3, AlertKept DEF udp_start_listen, ControlInv, Done
  <2>4. CASE LoadGlade
    BY <2>4, AlertKept DEF LoadGlade
  <2>5. CASE MakeIcon
    BY <2>5, AlertKept DEF MakeIcon
  <2>6. CASE SetModel
    BY <2>6, AlertKept DEF SetModel
  <2>7. CASE show_window
    BY <2>7, AlertKept DEF show_window
  <2>8. CASE EnterGdk
    BY <2>8, AlertKept DEF EnterGdk
  <2>9. CASE LeaveGdk
    BY <2>9, AlertKept DEF LeaveGdk
  <2>10. CASE TrayTakes
    BY <2>10 DEF TrayTakes, AlertInv, Calming, BlinksWhileUnread
  <2>11. CASE TrayTests
    BY <2>11 DEF TrayTests, AlertInv, Calming, BlinksWhileUnread
  <2>12. CASE TrayCalms
    BY <2>12 DEF TrayCalms, AlertInv, Calming, BlinksWhileUnread
  <2>13. CASE Close
    BY <2>13, AlertKept DEF Close
  <2>14. CASE Leave
    BY <2>14, AlertKept DEF Leave
  <2>15. CASE udp_stop_listen
    BY <2>15, AlertKept DEF udp_stop_listen
  <2>16. CASE Join
    BY <2>16, AlertKept DEF Join
  <2>17. CASE Begin
    BY <2>17, AlertKept DEF Begin
  <2>18. CASE TestShutdown
    BY <2>18, AlertKept DEF TestShutdown
  <2>19. CASE TimeOut
    BY <2>19, AlertKept DEF TimeOut
  <2>20. CASE Lock
    BY <2>20, AlertKept DEF Lock
  <2>21. CASE GetModel
    BY <2>21, AlertKept DEF GetModel
  <2>22. CASE AppendRow
    BY <2>22, AlertKept DEF AppendRow
  <2>23. CASE Unlock
    BY <2>23, AlertKept DEF Unlock
  <2>24. CASE Blink
    BY <2>24 DEF Blink, AlertInv, Calming, BlinksWhileUnread
  <2>25. CASE ReceiveText
    BY <2>25 DEF ReceiveText, AlertInv, Calming, BlinksWhileUnread
  <2>26. ASSUME NEW u \in Users, ReceiveKnown(u) PROVE AlertInv'
    BY <2>26, AlertKept DEF ReceiveKnown
  <2>27. ASSUME NEW u \in Users, ReceiveNew(u) PROVE AlertInv'
    BY <2>27, AlertKept DEF ReceiveNew
  <2>28. CASE UNCHANGED vars
    BY <2>28, AlertKept DEF vars
  <2> QED  BY <2>1, <2>2, <2>3, <2>4, <2>5, <2>6, <2>7, <2>8, <2>9, <2>10, <2>11, <2>12, <2>13, <2>14,
           <2>15, <2>16, <2>17, <2>18, <2>19, <2>20, <2>21, <2>22, <2>23, <2>24, <2>25, <2>26, <2>27, <2>28
           DEF Next, MainProgress, UserActs, ReceiverProgress, Arrival, Halted
<1> QED  BY <1>1, <1>2, ControlInvariance, PTL DEF Spec

(* While messages are unread the tray icon blinks, but for the alert on its way
   and those that were missed: main ended the blinking when it was behind its
   test of the list, or there was no icon yet.                               *)
THEOREM UnreadBlink == Spec => []BlinksWhileUnread
<1>1. AlertInv => BlinksWhileUnread
  BY DEF AlertInv
<1> QED  BY <1>1, AlertInvariance, PTL

-----------------------------------------------------------------------------
(* The settings that the program starts with.                               *)
HIDE DEF Main, Receiver, Faults, fixed, windows, socket, contacts, alerts

(* Of a set of numbers up to a limit there is a least and a greatest one.   *)
LEMMA LeastOf ==
  ASSUME NEW S \in SUBSET Nat, S # {}
  PROVE  \E n \in S : \A k \in S : n <= k
<1>1. PICK n \in S : \A k \in S : <<k, n>> \notin OpToRel(<, Nat)
  BY WFMin, NatLessThanWellFounded
<1>2. \A k \in S : ~(k < n)
  BY <1>1, Zenon DEF OpToRel
<1> QED
  BY <1>2

LEMMA GreatestOf ==
  ASSUME NEW n \in Nat, NEW S \in SUBSET (1 .. n), S # {}
  PROVE  \E k \in S : \A j \in S : k >= j
<1> DEFINE above == {n - k : k \in S}
<1>1. \A k \in S : k \in Nat /\ n - k \in Nat
  OBVIOUS
<1>2. above \in SUBSET Nat /\ above # {}
  BY <1>1
<1>3. PICK d \in above : \A k \in above : d <= k
  BY <1>2, LeastOf
<1>4. PICK k \in S : d = n - k
  BY DEF above
<1>5. \A j \in S : n - k <= n - j
  BY <1>3, <1>4
<1>6. \A j \in S : k >= j
  BY <1>1, <1>5
<1> QED
  BY <1>6

-----------------------------------------------------------------------------
(* What the community modules find is first, or last.                      *)
LEMMA MinOf ==
  ASSUME NEW S \in SUBSET Nat, S # {}
  PROVE  Min(S) \in S /\ \A k \in S : Min(S) <= k
BY LeastOf DEF Min

LEMMA MaxOf ==
  ASSUME NEW n \in Nat, NEW S \in SUBSET (1 .. n), S # {}
  PROVE  Max(S) \in S /\ \A k \in S : Max(S) >= k
BY GreatestOf DEF Max

(* In the terms of what was typed, t, and of whether a write ended early, d. *)
Put(f, i, v) == [f[i] EXCEPT !.value = v]

TurnedAt(f, doc, t, d, i) ==
  \/ doc[i] = Put(f, i, IF t # Unset /\ FirstNickname(f, i) THEN ReadBack[t] ELSE f[i].value)
  \/ d /\ i = Len(doc) /\ doc[i] = Put(f, i, Part)

Turned(f, doc, t, d) ==
  /\ doc \in Seq(Elements) /\ Len(doc) <= Len(f) /\ (~d => Len(doc) = Len(f))
  /\ \A i \in 1 .. Len(doc) : TurnedAt(f, doc, t, d, i)

(* A document, or the beginning of one, with other values.                  *)
Shaped(f, doc) ==
  /\ doc \in Seq(Elements) /\ Len(doc) \in Nat /\ Len(doc) <= Len(f) /\ DOMAIN doc = 1 .. Len(doc)
  /\ \A i \in 1 .. Len(doc) :
       doc[i].section = f[i].section /\ doc[i].kind = f[i].kind /\ doc[i].name = f[i].name

LEMMA DocumentIs ==
  ASSUME NEW f, Document(f)
  PROVE  /\ f \in Seq(Elements) /\ Len(f) \in Nat /\ DOMAIN f = 1 .. Len(f)
         /\ \A i \in 1 .. Len(f) :
              /\ f[i] \in Elements /\ f[i].name \in Looked[f[i].kind]
              /\ f[i].kind \in {"user", "network", "group"} /\ f[i].section \in 1 .. i
<1>1. f \in Seq(Elements) /\ Len(f) \in Nat /\ DOMAIN f = 1 .. Len(f)
  BY DEF Document
<1>2. ASSUME NEW i \in 1 .. Len(f)
      PROVE  /\ f[i] \in Elements /\ f[i].name \in Looked[f[i].kind]
             /\ f[i].kind \in {"user", "network", "group"} /\ f[i].section \in 1 .. i
  <2>1. f[i] \in Elements
    BY <1>1
  <2>2. f[i].kind \in DOMAIN Looked
    BY <2>1 DEF Elements
  <2>3. DOMAIN Looked = {"user", "network", "group"}
    BY DEF Looked
  <2>4. f[i].name \in Looked[f[i].kind] /\ f[i].section \in 1 .. i
    BY <1>1 DEF Document
  <2> QED
    BY <2>1, <2>2, <2>3, <2>4
<1> QED
  BY <1>1, <1>2

LEMMA NicknameIsUsers ==
  ASSUME NEW f, Document(f), NEW i \in 1 .. Len(f), f[i].name = "nickname"
  PROVE  f[i].kind = "user"
<1>1. f[i].name \in Looked[f[i].kind] /\ f[i].kind \in {"user", "network", "group"}
  BY DocumentIs
<1> QED
  BY <1>1 DEF Looked

(* Another value makes another element of it, or the same one.              *)
LEMMA PutIs ==
  ASSUME NEW f, Document(f), NEW i \in 1 .. Len(f), NEW v \in Values
  PROVE  /\ Put(f, i, v) \in Elements /\ Put(f, i, v).value = v
         /\ Put(f, i, v).section = f[i].section /\ Put(f, i, v).kind = f[i].kind
         /\ Put(f, i, v).name = f[i].name
         /\ v = f[i].value => Put(f, i, v) = f[i]
<1>1. f[i] \in Elements
  BY DocumentIs
<1> QED
  BY <1>1 DEF Put, Elements

LEMMA ShapedIsDocument ==
  ASSUME NEW f, Document(f), NEW doc, Shaped(f, doc)
  PROVE  Document(doc)
<1>1. /\ DOMAIN f = 1 .. Len(f) /\ Len(f) \in Nat
      /\ \A i \in 1 .. Len(f) : f[i].name \in Looked[f[i].kind] /\ f[i].section \in 1 .. i
  BY DocumentIs
<1>2. /\ doc \in Seq(Elements) /\ DOMAIN doc = 1 .. Len(doc) /\ Len(doc) \in Nat
      /\ \A i \in 1 .. Len(doc) : i \in 1 .. Len(f)
      /\ \A i \in 1 .. Len(doc) :
           doc[i].section = f[i].section /\ doc[i].kind = f[i].kind /\ doc[i].name = f[i].name
  BY <1>1 DEF Shaped
<1>3. \A i \in DOMAIN doc : doc[i].name \in Looked[doc[i].kind] /\ doc[i].section \in 1 .. i
  BY <1>1, <1>2
<1>4. \A i, j \in DOMAIN doc : i <= j => doc[i].section <= doc[j].section
  <2>1. \A i, j \in DOMAIN f : i <= j => f[i].section <= f[j].section
    BY DEF Document
  <2> QED
    BY <1>1, <1>2, <2>1
<1>5. \A i, j \in DOMAIN doc :
        doc[i].kind = "group" /\ doc[j].kind = "group" /\ doc[i].section = doc[j].section
          /\ doc[i].name = doc[j].name => i = j
  <2>1. \A i, j \in DOMAIN f :
          f[i].kind = "group" /\ f[j].kind = "group" /\ f[i].section = f[j].section /\ f[i].name = f[j].name
            => i = j
    BY DEF Document
  <2> QED
    BY <1>1, <1>2, <2>1
<1> QED
  BY <1>2, <1>3, <1>4, <1>5 DEF Document

Typed == Nicknames \cup {Unset}

LEMMA ReadBackIsValue ==
  /\ \A n \in Nicknames : n \in Values /\ ReadBack[n] \in Values
  /\ Part \in Values
BY DEF Values

(* What became of the user's file is a document like it.                    *)
LEMMA TurnedShape ==
  ASSUME NEW f, Document(f), NEW doc, NEW t \in Typed, NEW d, Turned(f, doc, t, d)
  PROVE  Shaped(f, doc) /\ Document(doc)
<1>1. doc \in Seq(Elements) /\ Len(doc) \in Nat /\ DOMAIN doc = 1 .. Len(doc) /\ Len(f) \in Nat
  BY DocumentIs DEF Turned
<1>2. ASSUME NEW i \in 1 .. Len(doc)
      PROVE  doc[i].section = f[i].section /\ doc[i].kind = f[i].kind /\ doc[i].name = f[i].name
  <2>1. i \in 1 .. Len(f) /\ TurnedAt(f, doc, t, d, i)
    BY <1>1 DEF Turned
  <2>2. PICK v \in Values : doc[i] = Put(f, i, v)
    <3>1. f[i].value \in Values
      BY <2>1, DocumentIs DEF Elements
    <3>2. t # Unset => t \in Nicknames
      BY DEF Typed
    <3> QED
      BY <2>1, <3>1, <3>2, ReadBackIsValue DEF TurnedAt
  <2> QED
    BY <2>1, <2>2, PutIs
<1>3. Shaped(f, doc)
  BY <1>1, <1>2 DEF Shaped, Turned
<1> QED
  BY <1>3, ShapedIsDocument

LEMMA FirstIsShared ==
  ASSUME NEW f, NEW doc, Shaped(f, doc), NEW i \in 1 .. Len(doc)
  PROVE  FirstNickname(doc, i) <=> FirstNickname(f, i)
<1>1. Len(doc) \in Nat /\ \A j \in 1 .. i - 1 : j \in 1 .. Len(doc)
  BY DEF Shaped
<1> QED
  BY <1>1 DEF Shaped, FirstNickname

(* update_cfg writes over the first nickname, if there is one, and leaves   *)
(* the rest as it was.                                                      *)
UpdatesFirst(doc, u, nickname) ==
  /\ u \in Seq(Elements) /\ Len(u) = Len(doc)
  /\ \A i \in 1 .. Len(doc) :
       u[i] = IF FirstNickname(doc, i) THEN Put(doc, i, ReadBack[nickname]) ELSE doc[i]

LEMMA UpdatedIs ==
  ASSUME NEW doc, Document(doc), NEW nickname \in Nicknames
  PROVE  UpdatesFirst(doc, Updated(doc, "user", "nickname", nickname), nickname)
<1> DEFINE I == {i \in 1 .. Len(doc) : doc[i].kind = "user" /\ doc[i].name = "nickname"}
           u == Updated(doc, "user", "nickname", nickname)
<1>1. doc \in Seq(Elements) /\ Len(doc) \in Nat /\ DOMAIN doc = 1 .. Len(doc)
  BY DocumentIs
<1>2. \A i \in 1 .. Len(doc) : i \in I <=> doc[i].name = "nickname"
  BY NicknameIsUsers
<1>3. u = LET at == IF I # {} THEN Min(I) ELSE 0
          IN  IF at = 0 THEN doc ELSE [doc EXCEPT ![at].value = ReadBack[nickname]]
  BY DEF Updated, SelectInSeq
<1>4. I \in SUBSET Nat
  OBVIOUS
<1>5. I \subseteq 1 .. Len(doc)
  OBVIOUS
<1> HIDE DEF I, u
<1>6. CASE I = {}
  <2>1. u = doc
    BY <1>3, <1>6
  <2>2. \A i \in 1 .. Len(doc) : ~FirstNickname(doc, i)
    BY <1>2, <1>6 DEF FirstNickname
  <2> QED
    BY <1>1, <2>1, <2>2 DEF UpdatesFirst, u
<1>7. CASE I # {}
  <2> DEFINE k == Min(I)
  <2>1. k \in I /\ \A i \in I : k <= i
    BY <1>4, <1>7, MinOf
  <2>2. k \in 1 .. Len(doc)
    BY <1>5, <2>1
  <2> DEFINE new == Put(doc, k, ReadBack[nickname])
  <2>3. u = [doc EXCEPT ![k].value = ReadBack[nickname]]
    BY <1>3, <1>7, <2>2
  <2> HIDE DEF k
  <2>4. u = [doc EXCEPT ![k] = new]
    BY <2>3 DEF Put
  <2>5. new \in Elements
    BY <2>2, PutIs, ReadBackIsValue
  <2>6. u \in Seq(Elements) /\ Len(u) = Len(doc) /\ \A i \in 1 .. Len(doc) : u[i] = IF i = k THEN new ELSE doc[i]
    <3> HIDE DEF new
    <3> QED
      BY <1>1, <2>2, <2>4, <2>5
  <2>7. \A i \in 1 .. Len(doc) : FirstNickname(doc, i) <=> i = k
    <3>1. FirstNickname(doc, k)
      <4>1. \A j \in 1 .. k - 1 : j \in 1 .. Len(doc) /\ ~(k <= j)
        BY <1>1, <2>2
      <4> QED
        BY <1>2, <2>1, <2>2, <4>1 DEF FirstNickname
    <3>2. ASSUME NEW i \in 1 .. Len(doc), FirstNickname(doc, i) PROVE i = k
      <4>1. i \in I
        BY <1>2, <3>2 DEF FirstNickname
      <4>2. k <= i
        BY <2>1, <4>1
      <4>3. ~(k \in 1 .. i - 1)
        BY <1>2, <2>1, <2>2, <3>2 DEF FirstNickname
      <4> QED
        BY <2>2, <4>2, <4>3
    <3> QED
      BY <3>1, <3>2
  <2> QED
    BY <2>6, <2>7 DEF UpdatesFirst, u
<1> QED
  BY <1>6, <1>7 DEF u

(* So it is what became of the user's file with the new nickname.           *)
LEMMA UpdatedTurns ==
  ASSUME NEW f, Document(f), NEW doc, NEW t \in Typed, NEW d, Turned(f, doc, t, d),
         NEW nickname \in Nicknames, NEW u, UpdatesFirst(doc, u, nickname)
  PROVE  Turned(f, u, nickname, d)
<1>1. Shaped(f, doc) /\ Document(doc)
  BY TurnedShape
<1>2. Len(doc) \in Nat /\ \A i \in 1 .. Len(doc) : i \in 1 .. Len(f)
  BY <1>1, DocumentIs DEF Shaped
<1>3. nickname # Unset
  BY FilesAssumption, ReadBackIsValue
<1>4. Len(u) = Len(doc) /\ u \in Seq(Elements)
  BY DEF UpdatesFirst
<1>5. ASSUME NEW i \in 1 .. Len(doc) PROVE TurnedAt(f, u, nickname, d, i)
  <2>1. FirstNickname(doc, i) <=> FirstNickname(f, i)
    BY <1>1, FirstIsShared
  <2>2. u[i] = IF FirstNickname(f, i) THEN Put(doc, i, ReadBack[nickname]) ELSE doc[i]
    BY <2>1 DEF UpdatesFirst
  <2>3. TurnedAt(f, doc, t, d, i)
    BY DEF Turned
  <2>4. CASE FirstNickname(f, i)
    <3>1. doc[i] \in Elements /\ f[i] \in Elements
      BY <1>1, <1>2, DocumentIs
    <3>2. Put(doc, i, ReadBack[nickname]) = Put(f, i, ReadBack[nickname])
      BY <1>1, <3>1 DEF Put, Shaped, Elements
    <3> QED
      BY <1>3, <2>2, <2>4, <3>2 DEF TurnedAt
  <2>5. CASE ~FirstNickname(f, i)
    BY <1>4, <2>2, <2>3, <2>5 DEF TurnedAt
  <2> QED
    BY <2>4, <2>5
<1> QED
  BY <1>4, <1>5 DEF Turned

(* A write that breaks off leaves nothing, or its beginning, the last value *)
(* of which may be cut.                                                     *)
Begins(doc, e) ==
  /\ e \in Seq(Elements) /\ Len(e) \in Nat /\ Len(e) <= Len(doc)
  /\ \A i \in 1 .. Len(e) : e[i] = doc[i] \/ (i = Len(e) /\ e[i] = Put(doc, i, Part))

LEMMA BrokenBegins ==
  ASSUME NEW doc, Document(doc), NEW e \in BrokenOff(doc), e # NoDocument
  PROVE  Begins(doc, e)
<1>1. doc \in Seq(Elements) /\ Len(doc) \in Nat
  BY DocumentIs
<1>2. \A n \in 0 .. Len(doc) :
        /\ SubSeq(doc, 1, n) \in Seq(Elements) /\ Len(SubSeq(doc, 1, n)) = n
        /\ \A i \in 1 .. n : SubSeq(doc, 1, n)[i] = doc[i]
  BY <1>1
<1>3. ASSUME NEW n \in 0 .. Len(doc), e = SubSeq(doc, 1, n) PROVE Begins(doc, e)
  BY <1>1, <1>2, <1>3 DEF Begins
<1>4. ASSUME NEW n \in 1 .. Len(doc), e = [SubSeq(doc, 1, n) EXCEPT ![n].value = Part]
      PROVE  Begins(doc, e)
  <2> DEFINE s == SubSeq(doc, 1, n)
             new == Put(doc, n, Part)
  <2>1. s \in Seq(Elements) /\ Len(s) = n /\ \A i \in 1 .. n : s[i] = doc[i]
    BY <1>1, <1>2
  <2>2. new \in Elements
    BY PutIs, ReadBackIsValue
  <2>3. e = [s EXCEPT ![n] = new]
    <3>1. e = [s EXCEPT ![n].value = Part] /\ n \in 1 .. n
      BY <1>1, <1>4
    <3>2. s[n] = doc[n]
      BY <2>1, <3>1
    <3> HIDE DEF s
    <3> QED
      BY <3>1, <3>2 DEF Put
  <2> HIDE DEF s, new
  <2>4. n \in Nat /\ n \in 1 .. n
    BY <1>1
  <2>5. e \in Seq(Elements) /\ Len(e) = n /\ \A i \in 1 .. n : e[i] = IF i = n THEN new ELSE s[i]
    BY <2>1, <2>2, <2>3, <2>4
  <2> QED
    BY <1>1, <2>1, <2>5 DEF Begins, new
<1> QED
  BY <1>3, <1>4 DEF BrokenOff

LEMMA BrokenTurns ==
  ASSUME NEW f, Document(f), NEW doc, NEW t \in Typed, NEW d, Turned(f, doc, t, d),
         NEW e, Begins(doc, e)
  PROVE  Turned(f, e, t, TRUE) /\ Document(e) /\ Shaped(doc, e)
<1>1. Shaped(f, doc) /\ Document(doc)
  BY TurnedShape
<1>2. Len(doc) \in Nat /\ Len(f) \in Nat /\ Len(e) \in Nat /\ Len(e) <= Len(doc) /\ Len(doc) <= Len(f)
  BY <1>1, DocumentIs DEF Begins, Shaped
<1>3. ASSUME NEW i \in 1 .. Len(e) PROVE TurnedAt(f, e, t, TRUE, i)
  <2>1. i \in 1 .. Len(doc) /\ i \in 1 .. Len(f) /\ TurnedAt(f, doc, t, d, i)
    BY <1>2 DEF Turned
  <2>2. doc[i] \in Elements /\ f[i] \in Elements
    BY <1>1, <2>1, DocumentIs
  <2>3. Put(doc, i, Part) = Put(f, i, Part)
    BY <1>1, <2>1, <2>2 DEF Put, Shaped, Elements
  <2>4. CASE i = Len(e) /\ e[i] = Put(doc, i, Part)
    BY <2>3, <2>4 DEF TurnedAt
  <2>5. CASE e[i] = doc[i]
    <3>1. i = Len(doc) => i = Len(e)
      BY <1>2
    <3> QED
      BY <2>1, <2>5, <3>1 DEF TurnedAt
  <2> QED
    BY <2>4, <2>5 DEF Begins
<1>4. Turned(f, e, t, TRUE)
  <2>1. e \in Seq(Elements)
    BY DEF Begins
  <2>2. Len(e) <= Len(f)
    BY <1>2
  <2> QED
    BY <1>3, <2>1, <2>2 DEF Turned
<1>5. Document(e) /\ Shaped(f, e)
  BY <1>4, TurnedShape
<1>6. Shaped(doc, e)
  <2>1. \A i \in 1 .. Len(e) : i \in 1 .. Len(doc)
    BY <1>2
  <2>2. e \in Seq(Elements) /\ DOMAIN e = 1 .. Len(e)
    BY <1>5 DEF Shaped
  <2>3. \A i \in 1 .. Len(e) :
          e[i].section = f[i].section /\ e[i].kind = f[i].kind /\ e[i].name = f[i].name
    BY <1>5 DEF Shaped
  <2>4. \A i \in 1 .. Len(doc) :
          doc[i].section = f[i].section /\ doc[i].kind = f[i].kind /\ doc[i].name = f[i].name
    BY <1>1 DEF Shaped
  <2> QED
    BY <1>2, <2>1, <2>2, <2>3, <2>4 DEF Shaped
<1> QED
  BY <1>4, <1>5, <1>6

-----------------------------------------------------------------------------
(* read_cfg keeps the value of the last element of a name.                  *)
IsLast(f, kinds, name, section, k) ==
  /\ k \in 1 .. Len(f) /\ f[k].kind \in kinds /\ f[k].name = name /\ f[k].section <= section
  /\ \A i \in 1 .. Len(f) :
       f[i].kind \in kinds /\ f[i].name = name /\ f[i].section <= section => i <= k

LEMMA LastOfIs ==
  ASSUME NEW f, Document(f), NEW kinds, NEW name, NEW section, NEW k,
         IsLast(f, kinds, name, section, k)
  PROVE  LastOf(f, kinds, name, section) = f[k].value
<1> DEFINE I == {i \in 1 .. Len(f) : f[i].kind \in kinds /\ f[i].name = name /\ f[i].section <= section}
<1>1. Len(f) \in Nat
  BY DEF Document
<1>2. Max(I) \in I /\ \A i \in I : Max(I) >= i
  <2>1. I \in SUBSET (1 .. Len(f)) /\ I # {}
    BY DEF IsLast
  <2> QED
    BY <1>1, <2>1, MaxOf
<1>3. Max(I) = k
  BY <1>1, <1>2 DEF IsLast
<1>4. LastOf(f, kinds, name, section) = LET at == IF I # {} THEN Max(I) ELSE 0
                                         IN  IF at = 0 THEN Unset ELSE f[at].value
  BY DEF LastOf, SelectLastInSeq
<1>5. I # {} /\ k # 0
  BY <1>2 DEF IsLast
<1> HIDE DEF I
<1> QED
  BY <1>3, <1>4, <1>5

(* It is a value, but for a name that is missing.                           *)
LEMMA LastOfType ==
  ASSUME NEW f, Document(f), NEW kinds, NEW name, NEW section
  PROVE  /\ LastOf(f, kinds, name, section) \in Values \cup {Unset}
         /\ LastOf(f, kinds, name, section) = Unset => Missing(f, kinds, name, section)
<1> DEFINE I == {i \in 1 .. Len(f) : f[i].kind \in kinds /\ f[i].name = name /\ f[i].section <= section}
<1>1. Len(f) \in Nat /\ DOMAIN f = 1 .. Len(f) /\ \A i \in 1 .. Len(f) : f[i] \in Elements
  BY DEF Document
<1>2. I # {} => Max(I) \in 1 .. Len(f)
  <2>1. I \in SUBSET (1 .. Len(f))
    OBVIOUS
  <2> QED
    BY <1>1, <2>1, MaxOf
<1>3. LastOf(f, kinds, name, section) = LET at == IF I # {} THEN Max(I) ELSE 0
                                         IN  IF at = 0 THEN Unset ELSE f[at].value
  BY DEF LastOf, SelectLastInSeq
<1>4. \A e \in Elements : e.value \in Values
  BY DEF Elements
<1>5. I = {} => Missing(f, kinds, name, section)
  BY <1>1 DEF Missing
<1> HIDE DEF I
<1>6. I # {} => LastOf(f, kinds, name, section) \in Values
  BY <1>1, <1>2, <1>3, <1>4
<1>7. I = {} => LastOf(f, kinds, name, section) = Unset
  BY <1>3
<1> QED
  BY <1>5, <1>6, <1>7, FilesAssumption

(* The nickname of a file that has one.                                     *)
LEMMA NicknameRead ==
  ASSUME NEW f, Document(f), NEW k \in 1 .. Len(f), \A i \in 1 .. Len(f) : f[i].name = "nickname" <=> i = k
  PROVE  SettingsIn(f).nickname = f[k].value
<1>1. Len(f) \in Nat /\ f[k].section \in 1 .. k /\ f[k].kind = "user" /\ f[k].name = "nickname"
  BY DocumentIs, NicknameIsUsers
<1> DEFINE kinds == {"user", "network"}
           name == "nickname"
           s == Len(f)
<1>2. IsLast(f, kinds, name, s, k)
  BY <1>1 DEF IsLast
<1>3. LastOf(f, kinds, name, s) = f[k].value
  BY <1>2, LastOfIs
<1> QED
  BY <1>3 DEF SettingsIn, Fields

(* A group has its own fields.                                              *)
LEMMA GroupRead ==
  ASSUME NEW f, Document(f), NEW s, NEW i \in 1 .. Len(f),
         f[i].kind = "group", f[i].section = s, f[i].name \in GroupFields
  PROVE  GroupIn(f, s).of[f[i].name] = f[i].value
<1>1. /\ DOMAIN f = 1 .. Len(f) /\ Len(f) \in Nat /\ s \in Nat
      /\ \A j \in 1 .. Len(f) : f[j].section \in Nat
  BY DocumentIs
<1>2. ASSUME NEW j \in 1 .. Len(f), f[j].kind = "group", f[j].name = f[i].name, f[j].section <= s
      PROVE  j <= i
  <2>1. SUFFICES ASSUME i < j PROVE FALSE
    BY <1>1, <1>2
  <2>2. f[i].section <= f[j].section
    BY <1>1, <2>1 DEF Document
  <2>3. f[j].section = f[i].section
    BY <1>1, <1>2, <2>2
  <2> QED
    BY <1>1, <1>2, <2>1, <2>3 DEF Document
<1> DEFINE kinds == {"group"}
           name == f[i].name
<1>3. IsLast(f, kinds, name, s, i)
  BY <1>1, <1>2 DEF IsLast
<1> HIDE DEF kinds, name
<1>4. LastOf(f, kinds, name, s) = f[i].value
  BY <1>3, LastOfIs
<1> QED
  BY <1>4 DEF GroupIn, kinds, name

(* What is read without having been written is lacking in the file, and if  *)
(* that is whole, in the user's.                                            *)
LEMMA UnsetIsLacking ==
  ASSUME NEW f, Document(f), ReadsUnset(f)
  PROVE  Lacks(f)
<1>1. CASE \E x \in Fields : SettingsIn(f)[x] = Unset
  <2>1. PICK x \in Fields : LastOf(f, {"user", "network"}, x, Len(f)) = Unset
    BY <1>1 DEF SettingsIn
  <2> DEFINE kinds == {"user", "network"}
             s == Len(f)
  <2>2. LastOf(f, kinds, x, s) = Unset
    BY <2>1
  <2> HIDE DEF kinds, s
  <2>3. Missing(f, kinds, x, s)
    BY <2>2, LastOfType
  <2> QED
    BY <2>3 DEF Lacks, kinds, s
<1>2. ASSUME NEW g \in GroupsIn(f), NEW x \in {"name", "info"}, g.of[x] = Unset
      PROVE  Lacks(f)
  <2>1. PICK s \in Sections(f, "group") : g = GroupIn(f, s)
    BY DEF GroupsIn
  <2>2. PICK i \in DOMAIN f : f[i].kind = "group" /\ f[i].section = s
    BY <2>1 DEF Sections, ToSet
  <2> DEFINE kinds == {"group"}
  <2>3. LastOf(f, kinds, x, s) = Unset
    BY <1>2, <2>1 DEF GroupIn, GroupFields
  <2> HIDE DEF kinds
  <2>4. Missing(f, kinds, x, s)
    BY <2>3, LastOfType
  <2> QED
    BY <2>2, <2>4 DEF Lacks, kinds
<1> QED
  BY <1>1, <1>2 DEF ReadsUnset

LEMMA LackingIsShared ==
  ASSUME NEW f, Document(f), NEW doc, Shaped(f, doc), Len(doc) = Len(f), Lacks(doc)
  PROVE  Lacks(f)
<1>1. DOMAIN f = 1 .. Len(f) /\ DOMAIN doc = 1 .. Len(f)
  BY DocumentIs DEF Shaped
<1>2. \A i \in 1 .. Len(f) :
        doc[i].section = f[i].section /\ doc[i].kind = f[i].kind /\ doc[i].name = f[i].name
  BY DEF Shaped
<1>3. \A kinds, name, s : Missing(doc, kinds, name, s) <=> Missing(f, kinds, name, s)
  BY <1>1, <1>2 DEF Missing
<1>4. CASE \E x \in Fields : Missing(doc, {"user", "network"}, x, Len(doc))
  BY <1>3, <1>4 DEF Lacks
<1>5. CASE \E i \in DOMAIN doc : \E x \in {"name", "info"} :
             doc[i].kind = "group" /\ Missing(doc, {"group"}, x, doc[i].section)
  BY <1>1, <1>2, <1>3, <1>5 DEF Lacks
<1> QED
  BY <1>4, <1>5 DEF Lacks

(* A too long value that is read was the user's, or typed.                  *)
LEMMA OverrunIsLong ==
  ASSUME NEW f \in Files, NEW doc, typed \in Typed, Turned(f, doc, typed, damaged), Overruns(doc)
  PROVE  LongValue(doc)
<1>1. Document(f)
  BY FilesAssumption
<1>2. Shaped(f, doc)
  BY <1>1, TurnedShape
<1>3. PICK i \in 1 .. Len(doc) : <<doc[i].name, doc[i].value>> \in TooLong
  BY <1>2 DEF Overruns, ToSet, Shaped
<1>4. i \in DOMAIN f /\ i \in 1 .. Len(f) /\ i \in DOMAIN doc
  BY <1>1, <1>2, DocumentIs DEF Shaped
<1>5. doc[i].name = f[i].name /\ f[i].name \in Looked[f[i].kind] /\ f[i].kind \in DOMAIN Looked
  BY <1>1, <1>2, <1>4, DocumentIs DEF Shaped, Looked
<1>6. f[i].value \in Values
  BY <1>1, <1>4, DocumentIs DEF Elements
<1>7. doc[i] # Put(f, i, Part)
  <2>1. Put(f, i, Part).value = Part /\ <<f[i].name, Part>> \notin TooLong
    BY <1>1, <1>4, <1>5, PutIs, ReadBackIsValue, FilesAssumption
  <2> QED
    BY <1>3, <1>5, <2>1
<1>8. TurnedAt(f, doc, typed, damaged, i)
  BY DEF Turned
<1>9. CASE typed # Unset /\ FirstNickname(f, i)
  <2>1. doc[i] = Put(f, i, ReadBack[typed]) /\ typed \in Nicknames
    BY <1>7, <1>8, <1>9 DEF TurnedAt, Typed
  <2>2. doc[i].value = ReadBack[typed]
    BY <1>1, <1>4, <2>1, PutIs, ReadBackIsValue
  <2>3. doc[i].name = "nickname"
    BY <1>5, <1>9 DEF FirstNickname
  <2> QED
    BY <1>3, <1>4, <1>9, <2>2, <2>3 DEF LongValue
<1>10. CASE ~(typed # Unset /\ FirstNickname(f, i))
  <2>1. doc[i] = f[i]
    BY <1>1, <1>4, <1>6, <1>7, <1>8, <1>10, PutIs DEF TurnedAt
  <2> QED
    BY <1>3, <1>4, <2>1 DEF LongValue
<1> QED
  BY <1>9, <1>10

-----------------------------------------------------------------------------
(* The file that will be there when the handler is done.                    *)
Current == IF state = "saving" THEN pending ELSE file

Running == state \in {"idle", "saving", "freeing"}

(* The file, written or in writing, is what became of one of the user's.    *)
IsFrom(doc) == \E f \in Files : Turned(f, doc, typed, damaged)

FileInv ==
  /\ typed \in Typed
  /\ Current = NoDocument => damaged /\ state # "saving"
  /\ Current # NoDocument => IsFrom(Current)

(* How often the handler was called, and what it was given.                 *)
CallsInv ==
  /\ renames \in Nat /\ pair \in {"live", "freed"} /\ overrun \in BOOLEAN
  /\ state \in {"saving", "freeing"} => renames >= 1 /\ typed \in Nicknames
  /\ pair = "freed" =>
       /\ state # "off" => renames >= 1
       /\ state \in {"saving", "freeing"} => renames >= 2
  /\ UndefinedExplained

(* What the running program has of the file: all that was read, then the    *)
(* last nickname and the fields of the groups.                              *)
HasGroups(doc) ==
  \A g \in groups : \A i \in DOMAIN doc :
    doc[i].kind = "group" /\ doc[i].section = g.section /\ doc[i].name \in GroupFields
      => g.of[doc[i].name] = doc[i].value \/ (renames > 0 /\ damaged /\ doc[i].value = Part)

AgreesInv ==
  Running =>
    /\ DOMAIN settings = Fields
    /\ renames = 0 => state = "idle" /\ file # NoDocument /\ settings = SettingsIn(file)
    /\ renames > 0 /\ state = "idle" => settings.nickname = typed /\ typed \in Nicknames
    /\ Current # NoDocument => HasGroups(Current)

SettingsInv == CallsInv /\ FileInv /\ AgreesInv

LEMMA FilesAreFrom ==
  ASSUME NEW doc, FileInv, IsFrom(doc)
  PROVE  /\ Document(doc) /\ doc # NoDocument
         /\ \E f \in Files : Document(f) /\ Turned(f, doc, typed, damaged) /\ Shaped(f, doc)
<1>1. PICK f \in Files : Turned(f, doc, typed, damaged)
  BY DEF IsFrom
<1>2. Document(f) /\ typed \in Typed
  BY FilesAssumption DEF FileInv
<1>3. Shaped(f, doc) /\ Document(doc)
  BY <1>1, <1>2, TurnedShape
<1> QED
  BY <1>1, <1>2, <1>3, FilesAssumption DEF Document

LEMMA SettingsInvInit ==
  ASSUME SettingsInit
  PROVE  SettingsInv
<1>1. CallsInv /\ AgreesInv
  BY DEF SettingsInit, CallsInv, UndefinedExplained, AgreesInv, Running
<1>2. Current = file /\ Document(file) /\ file \in Files
  BY FilesAssumption DEF SettingsInit, Current
<1>3. Turned(file, file, typed, damaged)
  <2>1. typed = Unset /\ damaged = FALSE
    BY DEF SettingsInit
  <2>2. ASSUME NEW i \in 1 .. Len(file) PROVE TurnedAt(file, file, typed, damaged, i)
    <3>1. file[i].value \in Values
      BY <1>2, DocumentIs DEF Elements
    <3>2. file[i] = Put(file, i, file[i].value)
      BY <1>2, <3>1, PutIs
    <3> QED
      BY <2>1, <3>2 DEF TurnedAt
  <2>3. file \in Seq(Elements) /\ Len(file) \in Nat
    BY <1>2, DocumentIs
  <2> QED
    BY <2>2, <2>3 DEF Turned
<1>4. file # NoDocument
  BY <1>2, FilesAssumption DEF Document
<1>5. FileInv
  BY <1>2, <1>3, <1>4 DEF FileInv, IsFrom, SettingsInit, Typed
<1> QED
  BY <1>1, <1>5 DEF SettingsInv

(* A start: what the program is then undefined for.                         *)
LEMMA StartExplained ==
  ASSUME FileInv, Start
  PROVE  UndefinedExplained'
<1>1. renames' = 0 /\ file' = file /\ typed' = typed /\ damaged' = damaged /\ program' = program /\ Current = file
  BY DEF Start, Current
<1>2. CASE file = NoDocument
  BY <1>1, <1>2 DEF Start, FileInv, UndefinedExplained
<1>3. CASE file # NoDocument /\ state' = "undefined"
  <2>1. ReadsUnset(file) \/ Overruns(file)
    BY <1>3 DEF Start
  <2>2. IsFrom(file)
    BY <1>1, <1>3 DEF FileInv
  <2>3. PICK f \in Files : Document(f) /\ Turned(f, file, typed, damaged) /\ Shaped(f, file)
    BY <2>2, FilesAreFrom
  <2>4. CASE ReadsUnset(file)
    <3>1. Lacks(file)
      BY <2>2, <2>4, FilesAreFrom, UnsetIsLacking
    <3>2. damaged \/ Lacks(f)
      BY <2>3, <3>1, LackingIsShared DEF Turned
    <3>3. Lacks(file)' <=> Lacks(file)
      BY <1>1 DEF Lacks, Missing
    <3> QED
      BY <1>1, <1>3, <3>1, <3>2, <3>3 DEF UndefinedExplained
  <2>5. CASE Overruns(file)
    <3>1. LongValue(file)
      BY <2>3, <2>5, OverrunIsLong DEF FileInv
    <3>2. LongValue(file)' <=> LongValue(file)
      BY <1>1 DEF LongValue
    <3> QED
      BY <1>1, <1>3, <3>1, <3>2 DEF UndefinedExplained
  <2> QED
    BY <2>1, <2>4, <2>5
<1>4. CASE state' # "undefined"
  BY <1>4 DEF UndefinedExplained
<1> QED
  BY <1>2, <1>3, <1>4

LEMMA CallsStep ==
  ASSUME CallsInv, FileInv, [SettingsNext]_settingsVars
  PROVE  CallsInv'
<1>1. CASE Start
  <2>1. UndefinedExplained'
    BY <1>1, StartExplained
  <2>2. overrun' \in BOOLEAN /\ renames' = 0 /\ pair' = "live" /\ state' \notin {"saving", "freeing"}
    BY <1>1 DEF Start, Overruns
  <2> QED
    BY <2>1, <2>2 DEF CallsInv
<1>2. CASE Stop
  BY <1>2 DEF Stop, CallsInv, UndefinedExplained
<1>3. CASE Saved
  BY <1>3 DEF Saved, CallsInv, UndefinedExplained
<1>4. CASE SavedPartly
  BY <1>4 DEF SavedPartly, CallsInv, UndefinedExplained
<1>5. CASE Freed
  <2>1. state = "freeing" /\ renames' = renames /\ typed' = typed /\ pair' = "freed" /\ overrun' \in BOOLEAN
    BY <1>5 DEF Freed, CallsInv
  <2>2. state' \in {"idle", "undefined"}
    BY <1>5 DEF Freed
  <2>3. UndefinedExplained'
    BY <1>5, <2>1 DEF Freed, CallsInv, UndefinedExplained
  <2> QED
    BY <2>1, <2>2, <2>3 DEF CallsInv
<1>6. CASE Crash
  BY <1>6 DEF Crash, CallsInv, UndefinedExplained
<1>7. ASSUME NEW nickname \in Nicknames, Rename(nickname) PROVE CallsInv'
  BY <1>7 DEF Rename, CallsInv, UndefinedExplained
<1>8. CASE UNCHANGED settingsVars
  <2>1. UndefinedExplained' <=> UndefinedExplained
    BY <1>8 DEF settingsVars, UndefinedExplained, Lacks, Missing, LongValue
  <2> QED
    BY <1>8, <2>1 DEF settingsVars, CallsInv
<1> QED
  BY <1>1, <1>2, <1>3, <1>4, <1>5, <1>6, <1>7, <1>8 DEF SettingsNext

(* Where the file is not written, it is what it was.                        *)
LEMMA FileStays ==
  ASSUME FileInv, Current' = Current, typed' = typed, damaged' = damaged, state # "saving" => state' # "saving"
  PROVE  FileInv'
<1>1. IsFrom(Current)' <=> IsFrom(Current)
  BY DEF IsFrom
<1> QED
  BY <1>1 DEF FileInv

(* A write that breaks off.                                                 *)
LEMMA FileBreaks ==
  ASSUME FileInv, state = "saving", state' # "saving", file' \in BrokenOff(pending), damaged' = TRUE, typed' = typed
  PROVE  FileInv' /\ (Current' # NoDocument => Begins(Current, Current'))
<1>1. Current = pending /\ Current' = file' /\ Current # NoDocument /\ IsFrom(Current) /\ typed \in Typed
  BY DEF FileInv, Current
<1>2. PICK f \in Files : Document(f) /\ Turned(f, Current, typed, damaged)
  BY <1>1, FilesAreFrom
<1>3. Document(Current)
  BY <1>1, FilesAreFrom
<1>4. ASSUME file' # NoDocument PROVE Begins(Current, file') /\ IsFrom(Current)'
  <2> DEFINE doc == Current
             e == file'
  <2>1. Document(doc) /\ e \in BrokenOff(doc) /\ e # NoDocument /\ Turned(f, doc, typed, damaged)
    BY <1>1, <1>2, <1>3, <1>4
  <2>2. e = Current'
    BY <1>1
  <2> HIDE DEF doc, e
  <2>3. Begins(doc, e)
    BY <2>1, BrokenBegins
  <2>4. Turned(f, e, typed, TRUE)
    BY <1>1, <1>2, <2>1, <2>3, BrokenTurns
  <2>5. IsFrom(Current)'
    BY <2>2, <2>4 DEF IsFrom
  <2> QED
    BY <2>3, <2>5 DEF doc, e
<1> QED
  BY <1>1, <1>4 DEF FileInv

LEMMA FileStep ==
  ASSUME FileInv, [SettingsNext]_settingsVars
  PROVE  FileInv'
<1>1. ASSUME Start \/ Stop \/ Saved \/ Freed \/ UNCHANGED settingsVars
      PROVE  FileInv'
  <2>1. Current' = Current /\ damaged' = damaged /\ typed' = typed /\ (state # "saving" => state' # "saving")
    BY <1>1 DEF Start, Stop, Saved, Freed, settingsVars, Current
  <2> QED
    BY <2>1, FileStays
<1>2. CASE SavedPartly
  BY <1>2, FileBreaks DEF SavedPartly
<1>3. CASE Crash
  <2>1. CASE state = "saving"
    BY <1>3, <2>1, FileBreaks DEF Crash
  <2>2. CASE state # "saving"
    <3>1. Current' = Current /\ damaged' = damaged /\ typed' = typed /\ state' # "saving"
      BY <1>3, <2>2 DEF Crash, Current
    <3> QED
      BY <3>1, FileStays
  <2> QED
    BY <2>1, <2>2
<1>4. ASSUME NEW nickname \in Nicknames, Rename(nickname) PROVE FileInv'
  <2>1. Current = file /\ damaged' = damaged /\ nickname \in Typed
    BY <1>4 DEF Rename, Current, Typed
  <2>2. CASE file # NoDocument /\ typed' = nickname /\ state' = "saving"
             /\ pending' = Updated(file, "user", "nickname", nickname)
    <3>1. PICK f \in Files : Document(f) /\ Turned(f, file, typed, damaged)
      BY <2>1, <2>2, FilesAreFrom DEF FileInv
    <3>2. Document(file)
      BY <2>1, <2>2, FilesAreFrom DEF FileInv
    <3> DEFINE u == Updated(file, "user", "nickname", nickname)
    <3>3. UpdatesFirst(file, u, nickname)
      BY <3>2, UpdatedIs
    <3>4. Current' = u
      BY <2>2 DEF Current
    <3> HIDE DEF u
    <3>5. Turned(f, u, nickname, damaged)
      BY <3>1, <3>3, UpdatedTurns DEF FileInv
    <3>6. IsFrom(Current)'
      BY <2>1, <2>2, <3>4, <3>5 DEF IsFrom
    <3>7. Current' # NoDocument
      BY <3>4, <3>3, FilesAssumption DEF UpdatesFirst
    <3> QED
      BY <2>1, <2>2, <3>6, <3>7 DEF FileInv
  <2>3. CASE file = NoDocument /\ file' = file /\ typed' = nickname /\ state' = "freeing"
    <3>1. Current' = NoDocument
      BY <2>3 DEF Current
    <3> QED
      BY <2>1, <2>3, <3>1 DEF FileInv
  <2>4. CASE UNCHANGED <<file, typed>> /\ state' = "undefined"
    <3>1. Current' = Current
      BY <2>1, <2>4 DEF Current
    <3> QED
      BY <2>1, <2>4, <3>1, FileStays
  <2> QED
    BY <1>4, <2>2, <2>3, <2>4 DEF Rename
<1> QED
  BY <1>1, <1>2, <1>3, <1>4 DEF SettingsNext

(* What the groups have stays, and so does what the file has of them.       *)
LEMMA StartAgrees ==
  ASSUME FileInv, Start
  PROVE  AgreesInv'
<1>1. CASE file = NoDocument
  BY <1>1 DEF Start, AgreesInv, Running
<1>2. CASE file # NoDocument
  <2>1. /\ Current' = file /\ Current = file /\ settings' = SettingsIn(file) /\ groups' = GroupsIn(file)
        /\ file' = file /\ renames' = 0 /\ state' \in {"idle", "undefined"}
    BY <1>2 DEF Start, Current
  <2>2. Document(file)
    BY <1>2, <2>1, FilesAreFrom DEF FileInv
  <2>3. ASSUME NEW g \in groups', NEW i \in DOMAIN file,
               file[i].kind = "group", file[i].section = g.section, file[i].name \in GroupFields
        PROVE  g.of[file[i].name] = file[i].value
    <3>1. PICK s : g = GroupIn(file, s)
      BY <2>1 DEF GroupsIn
    <3>2. g.section = s
      BY <3>1 DEF GroupIn
    <3>3. i \in 1 .. Len(file)
      BY <2>2, <2>3, DocumentIs
    <3> QED
      BY <2>2, <2>3, <3>1, <3>2, <3>3, GroupRead
  <2>4. HasGroups(Current)'
    BY <2>1, <2>3 DEF HasGroups
  <2>5. DOMAIN settings' = Fields
    BY <2>1 DEF SettingsIn
  <2> QED
    BY <1>2, <2>1, <2>4, <2>5 DEF AgreesInv, Running
<1> QED
  BY <1>1, <1>2

LEMMA SavedPartlyAgrees ==
  ASSUME CallsInv, FileInv, AgreesInv, SavedPartly
  PROVE  AgreesInv'
<1>1. /\ state = "saving" /\ state' = "freeing" /\ file' \in BrokenOff(pending) /\ damaged' = TRUE
      /\ UNCHANGED <<settings, groups, renames, typed>> /\ renames >= 1 /\ renames \in Nat
  BY DEF SavedPartly, CallsInv
<1>2. Current' # NoDocument => Begins(Current, Current')
  BY <1>1, FileBreaks
<1>3. Current # NoDocument /\ Document(Current)
  BY <1>1, FilesAreFrom DEF FileInv
<1>4. HasGroups(Current) /\ DOMAIN settings = Fields
  BY <1>1, <1>3 DEF AgreesInv, Running
<1>5. ASSUME Current' # NoDocument PROVE HasGroups(Current)'
  <2> DEFINE doc == Current
             e == Current'
  <2>1. Begins(doc, e) /\ Document(doc)
    BY <1>2, <1>3, <1>5
  <2>2. HasGroups(doc)
    BY <1>4
  <2> HIDE DEF doc, e
  <2>3. DOMAIN e = 1 .. Len(e) /\ DOMAIN doc = 1 .. Len(doc) /\ Len(doc) \in Nat
    BY <2>1, DocumentIs DEF Begins
  <2>4. ASSUME NEW g \in groups, NEW i \in DOMAIN e,
               e[i].kind = "group", e[i].section = g.section, e[i].name \in GroupFields
        PROVE  g.of[e[i].name] = e[i].value \/ e[i].value = Part
    <3>1. i \in 1 .. Len(doc) /\ i \in DOMAIN doc
      <4>1. Len(e) \in Nat /\ Len(e) <= Len(doc)
        BY <2>1 DEF Begins
      <4>2. i \in 1 .. Len(e)
        BY <2>3
      <4> QED
        BY <2>3, <4>1, <4>2
    <3>2. CASE e[i] = doc[i]
      BY <2>2, <2>4, <3>1, <3>2 DEF HasGroups
    <3>3. CASE e[i] = Put(doc, i, Part)
      BY <2>1, <3>1, <3>3, PutIs, ReadBackIsValue
    <3> QED
      BY <2>1, <2>3, <3>2, <3>3 DEF Begins
  <2> QED
    BY <1>1, <2>4 DEF HasGroups, e
<1> QED
  BY <1>1, <1>4, <1>5 DEF AgreesInv, Running

LEMMA RenameAgrees ==
  ASSUME CallsInv, FileInv, AgreesInv, NEW nickname \in Nicknames, Rename(nickname)
  PROVE  AgreesInv'
<1>1. /\ state = "idle" /\ renames' = renames + 1 /\ renames \in Nat /\ state' # "idle"
      /\ UNCHANGED <<settings, groups, damaged>> /\ Current = file /\ DOMAIN settings = Fields
  BY DEF Rename, CallsInv, Current, AgreesInv, Running
<1>2. CASE state' # "saving"
  <2>1. state' = "undefined" \/ (state' = "freeing" /\ file' = NoDocument)
    BY <1>2 DEF Rename
  <2>2. state' = "freeing" => Current' = NoDocument
    BY <2>1 DEF Current
  <2> QED
    BY <1>1, <2>1, <2>2 DEF AgreesInv, Running
<1>3. CASE state' = "saving"
  <2> DEFINE u == Updated(file, "user", "nickname", nickname)
  <2>1. file # NoDocument /\ Current' = u
    BY <1>3 DEF Rename, Current
  <2>2. Document(file) /\ HasGroups(file)
    BY <1>1, <2>1, FilesAreFrom DEF FileInv, AgreesInv, Running
  <2>3. UpdatesFirst(file, u, nickname)
    BY <2>2, UpdatedIs
  <2> HIDE DEF u
  <2>4. /\ DOMAIN u = 1 .. Len(file) /\ DOMAIN file = 1 .. Len(file)
        /\ \A i \in 1 .. Len(file) :
             u[i] = IF FirstNickname(file, i) THEN Put(file, i, ReadBack[nickname]) ELSE file[i]
    BY <2>2, <2>3, DocumentIs DEF UpdatesFirst
  <2>5. ASSUME NEW i \in 1 .. Len(file), u[i].kind = "group" PROVE u[i] = file[i]
    <3>1. CASE FirstNickname(file, i)
      <4>1. u[i].kind = file[i].kind
        BY <2>2, <2>4, <3>1, PutIs, ReadBackIsValue
      <4>2. file[i].kind = "user"
        BY <2>2, <3>1, NicknameIsUsers DEF FirstNickname
      <4> QED
        BY <2>5, <4>1, <4>2
    <3>2. CASE ~FirstNickname(file, i)
      BY <2>4, <3>2
    <3> QED
      BY <3>1, <3>2
  <2>6. HasGroups(Current)'
    BY <1>1, <2>1, <2>2, <2>4, <2>5 DEF HasGroups
  <2> QED
    BY <1>1, <1>3, <2>6 DEF AgreesInv, Running
<1> QED
  BY <1>2, <1>3

LEMMA AgreesStep ==
  ASSUME CallsInv, FileInv, AgreesInv, [SettingsNext]_settingsVars
  PROVE  AgreesInv'
<1>1. CASE Start
  BY <1>1, StartAgrees
<1>2. CASE Saved
  <2>1. /\ Current' = Current /\ UNCHANGED <<settings, groups, damaged, renames>>
        /\ state = "saving" /\ state' = "freeing" /\ renames >= 1 /\ renames \in Nat
    BY <1>2 DEF Saved, Current, CallsInv
  <2>2. HasGroups(Current)' <=> HasGroups(Current)
    BY <2>1 DEF HasGroups
  <2> QED
    BY <2>1, <2>2 DEF AgreesInv, Running
<1>3. CASE Freed
  <2>1. /\ Current' = Current /\ UNCHANGED <<groups, damaged, renames, typed, file>>
        /\ state = "freeing" /\ state' \in {"idle", "undefined"}
        /\ settings' = [settings EXCEPT !.nickname = typed]
        /\ renames >= 1 /\ renames \in Nat /\ typed \in Nicknames /\ DOMAIN settings = Fields
    BY <1>3 DEF Freed, Current, CallsInv, AgreesInv, Running
  <2>2. HasGroups(Current)' <=> HasGroups(Current)
    BY <2>1 DEF HasGroups
  <2>3. DOMAIN settings' = Fields /\ settings'.nickname = typed
    BY <2>1 DEF Fields
  <2> QED
    BY <2>1, <2>2, <2>3 DEF AgreesInv, Running
<1>4. CASE UNCHANGED settingsVars
  <2>1. /\ Current' = Current /\ UNCHANGED <<settings, groups, damaged, renames, typed, file, state>>
    BY <1>4 DEF settingsVars, Current
  <2>2. HasGroups(Current)' <=> HasGroups(Current)
    BY <2>1 DEF HasGroups
  <2> QED
    BY <2>1, <2>2 DEF AgreesInv, Running
<1>5. CASE Stop \/ Crash
  BY <1>5 DEF Stop, Crash, AgreesInv, Running
<1>6. CASE SavedPartly
  BY <1>6, SavedPartlyAgrees
<1>7. ASSUME NEW nickname \in Nicknames, Rename(nickname) PROVE AgreesInv'
  BY <1>7, RenameAgrees
<1> QED
  BY <1>1, <1>2, <1>3, <1>4, <1>5, <1>6, <1>7 DEF SettingsNext

(* The inductive invariant: where the calls on the file are; that the file, *)
(* written or in writing, is what became of a file of the user after the    *)
(* nickname typed last, and its beginning after a write that ended early;   *)
(* and what the program has of it.                                          *)
THEOREM SettingsInvariance == SettingsSpec => []SettingsInv
<1>1. SettingsInv /\ [SettingsNext]_settingsVars => SettingsInv'
  BY CallsStep, FileStep, AgreesStep DEF SettingsInv
<1> QED
  BY SettingsInvInit, <1>1, PTL DEF SettingsSpec

(* However often update_cfg rewrites the file, the program is restarted and *)
(* killed: the file has the elements that the user wrote, in their order,   *)
(* with the nickname typed last, as XML reads it back, in the first place   *)
(* for one; once a write ended early it is a beginning of that.             *)
THEOREM ElementsKept == SettingsSpec => []KeepsElements
<1>1. ASSUME SettingsInv PROVE KeepsElements
  <2>1. SUFFICES ASSUME state # "saving", ~(damaged /\ file = NoDocument)
        PROVE  \E f \in Files : Became(f, file)
    BY DEF KeepsElements
  <2>2. IsFrom(file)
    BY <1>1, <2>1 DEF SettingsInv, FileInv, Current
  <2>3. PICK f \in Files : Turned(f, file, typed, damaged)
    BY <2>2 DEF IsFrom
  <2>4. Became(f, file)
    BY <2>3 DEF Turned, TurnedAt, Put, Became, Said
  <2> QED
    BY <2>4
<1> QED
  BY <1>1, SettingsInvariance, PTL

(* The nickname of the running program is what its next start reads, but    *)
(* for a change to one with an '&', in a file without a nickname or with    *)
(* two of them, or with a write that broke off; and what its groups have is *)
(* what stands in their sections.                                           *)
THEOREM SettingsAgree == SettingsSpec => []AgreesWithFile
<1>1. ASSUME SettingsInv PROVE AgreesWithFile
  <2>1. SUFFICES ASSUME state = "idle", file # NoDocument
        PROVE  NicknameAgrees /\ GroupsOwnFields
    BY DEF AgreesWithFile, NicknameAgrees, GroupsOwnFields
  <2>2. Current = file /\ FileInv /\ renames \in Nat /\ typed \in Typed
    BY <1>1, <2>1 DEF SettingsInv, FileInv, CallsInv, Current
  <2>3. PICK f \in Files : Document(f) /\ Turned(f, file, typed, damaged) /\ Shaped(f, file)
    BY <2>1, <2>2, FilesAreFrom DEF FileInv
  <2>4. Document(file)
    BY <2>1, <2>2, FilesAreFrom DEF FileInv
  <2>5. GroupsOwnFields
    <3>1. HasGroups(file)
      BY <1>1, <2>1, <2>2 DEF SettingsInv, AgreesInv, Running
    <3> QED
      BY <3>1 DEF GroupsOwnFields, HasGroups, ToSet
  <2>6. ASSUME renames = 0 PROVE NicknameAgrees
    BY <1>1, <2>1, <2>6 DEF SettingsInv, AgreesInv, Running, NicknameAgrees
  <2>7. ASSUME renames > 0, ~OneNickname(file) PROVE NicknameAgrees
    BY <2>7 DEF NicknameAgrees
  <2>8. ASSUME renames > 0, OneNickname(file) PROVE NicknameAgrees
    <3>1. settings.nickname = typed /\ typed \in Nicknames
      BY <1>1, <2>1, <2>8 DEF SettingsInv, AgreesInv, Running
    <3>2. PICK k \in 1 .. Len(file) : \A i \in 1 .. Len(file) : file[i].name = "nickname" <=> i = k
      <4>1. DOMAIN file = 1 .. Len(file)
        BY <2>4, DocumentIs
      <4>2. PICK i \in DOMAIN file : \A j \in DOMAIN file : file[j].name = "nickname" <=> j = i
        BY <2>8, Zenon DEF OneNickname
      <4>3. i \in 1 .. Len(file)
        BY <4>1, <4>2
      <4>4. ASSUME NEW j \in 1 .. Len(file) PROVE file[j].name = "nickname" <=> j = i
        <5>1. j \in DOMAIN file
          BY <4>1
        <5> QED
          BY <4>2, <5>1
      <4> QED
        BY <4>3, <4>4
    <3>3. SettingsIn(file).nickname = file[k].value
      BY <2>4, <3>2, NicknameRead
    <3>4. FirstNickname(f, k)
      <4>1. Len(file) \in Nat /\ \A j \in 1 .. k - 1 : j \in 1 .. Len(file) /\ j # k
        BY <2>4, DocumentIs
      <4>2. FirstNickname(file, k)
        BY <3>2, <4>1 DEF FirstNickname
      <4> QED
        BY <2>3, <4>2, FirstIsShared
    <3>5. typed # Unset
      BY <3>1, FilesAssumption, ReadBackIsValue
    <3>6. k \in 1 .. Len(f)
      BY <2>3, DocumentIs DEF Shaped
    <3>7. TurnedAt(f, file, typed, damaged, k)
      BY <2>3 DEF Turned
    <3>8. file[k].value = ReadBack[typed] \/ (damaged /\ file[k].value = Part)
      BY <2>3, <3>1, <3>4, <3>5, <3>6, <3>7, PutIs, ReadBackIsValue DEF TurnedAt
    <3> QED
      BY <2>8, <3>1, <3>3, <3>8 DEF NicknameAgrees
  <2> QED
    BY <2>2, <2>5, <2>6, <2>7, <2>8
<1> QED
  BY <1>1, SettingsInvariance, PTL

(* A fault is one of these: a start of the legacy program without a         *)
(* document, which a write that ended early has left; a start with a file   *)
(* that lacks strings or has one too long, which is the user's own or the   *)
(* nickname typed last, unless a write ended early; a nickname longer than  *)
(* its array; and what on_nickname_entry_activate does with an argument     *)
(* that it freed in a change before.                                        *)
THEOREM UndefinedIsExplained == SettingsSpec => []UndefinedExplained
<1>1. SettingsInv => UndefinedExplained
  BY DEF SettingsInv, CallsInv
<1> QED
  BY <1>1, SettingsInvariance, PTL
==============================================================================
