------------------------------- MODULE Emotions ------------------------------
(***************************************************************************)
(* How a message becomes texts and pictures in a chat window:              *)
(* replace_emotion of src/src/emotion_box.c and the loop of                *)
(* insert_msg_with_emotion_to_textview of src/src/chatbox.c, which are the *)
(* same in ifc.                                                            *)
(*                                                                         *)
(* A code such as "/:)" is one piece of a message.  '/' begins every code  *)
(* and is nowhere else in one, no code begins another one, and none has a  *)
(* '#'; so it does not matter that the program replaces one code after the *)
(* other, and Replace goes over the message from left to right.            *)
(***************************************************************************)
EXTENDS Integers, Sequences

CONSTANTS
  Messages  \* what is shown

(* Characters: the digits 0 to 9, and three that stand for their like.      *)
Letter == 10
Minus == 11
Hash == 12
Char == 0 .. 12
NoPicture == -1
NumEmotions == 96
emotion_list == [id \in 0 .. NumEmotions - 1 |-> 100 + id]
Piece == Char \cup 100 .. 99 + NumEmotions

ASSUME MessagesAssumption == Messages \subseteq Seq(Piece)

VARIABLES
  msg,    \* the message
  str,    \* what has become of it in replace_emotion
  i,      \* where the loop stands in str
  j,      \* where the text begins that is not shown yet
  shown,  \* the parts of str in the window: [from |-> f, to |-> t, id |-> picture]
  pc, k   \* the loop that runs; the piece that is next in replace_emotion

vars == <<msg, str, i, j, shown, pc, k>>

Init ==
  /\ msg \in Messages
  /\ str = <<>> /\ i = 1 /\ j = 1 /\ shown = <<>>
  /\ pc = "replace" /\ k = 1

-----------------------------------------------------------------------------
(* replace_emotion                                                          *)

Decimal(id) == IF id < 10 THEN <<id>> ELSE <<id \div 10, id % 10>>

Replaced(piece) ==
  IF piece \in Char THEN <<piece>>
  ELSE <<Hash>> \o Decimal(CHOOSE id \in DOMAIN emotion_list : emotion_list[id] = piece) \o <<Hash>>

Replace ==
  /\ pc = "replace"
  /\ k <= Len(msg)
  /\ str' = str \o Replaced(msg[k])
  /\ k' = k + 1
  /\ UNCHANGED <<msg, i, j, shown, pc>>

ReplaceEnds ==
  /\ pc = "replace"
  /\ k > Len(msg)
  /\ pc' = "scan"
  /\ UNCHANGED <<msg, str, i, j, shown, k>>

-----------------------------------------------------------------------------
(* insert_msg_with_emotion_to_textview                                      *)

\* atoi of one or two characters.
atoi(a) == IF a < 10 THEN a ELSE 0
atoi2(a, b) ==
  IF a = Minus THEN - atoi(b)
  ELSE IF a < 10 /\ b < 10 THEN 10 * a + b
  ELSE atoi(a)

\* Mutant: two digits are not looked for.
ClosesNear(q) == q = i + 2 /\ str[q] = Hash /\ str[i + 1] # Hash

\* The next '#', if it is one or two characters on.
Closes(q) ==
  /\ q \in {i + 2, i + 3} /\ q <= Len(str)
  /\ str[q] = Hash
  /\ \A p \in i + 1 .. q - 1 : str[p] # Hash

IdUpTo(q) == IF q = i + 2 THEN atoi(str[i + 1]) ELSE atoi2(str[i + 1], str[i + 2])

IsPicture(q) == str[i] = Hash /\ Closes(q) /\ IdUpTo(q) \in DOMAIN emotion_list

Text(from, to) == IF from = to THEN <<>> ELSE <<[from |-> from, to |-> to, id |-> NoPicture]>>

\* Mutant: the '#' that ends a picture is shown as well.
BehindShort(q) == q

Behind(q) == q + 1

Picture ==
  /\ pc = "scan" /\ i <= Len(str)
  /\ \E q \in 1 .. Len(str) :
       /\ IsPicture(q)
       /\ shown' = shown \o Text(j, i) \o <<[from |-> i, to |-> q + 1, id |-> IdUpTo(q)]>>
       /\ j' = Behind(q)
       /\ i' = q + 1
  /\ UNCHANGED <<msg, str, pc, k>>

Plain ==
  /\ pc = "scan" /\ i <= Len(str)
  /\ \A q \in 1 .. Len(str) : ~IsPicture(q)
  /\ i' = i + 1
  /\ UNCHANGED <<msg, str, j, shown, pc, k>>

ScanEnds ==
  /\ pc = "scan"
  /\ i > Len(str)
  /\ shown' = shown \o Text(j, Len(str) + 1)
  /\ pc' = "done"
  /\ UNCHANGED <<msg, str, i, j, k>>

Next == Replace \/ ReplaceEnds \/ Picture \/ Plain \/ ScanEnds

Spec == Init /\ [][Next]_vars

-----------------------------------------------------------------------------
Part == [from : 1 .. Len(str), to : 2 .. Len(str) + 1, id : {NoPicture} \cup DOMAIN emotion_list]

TypeOK ==
  /\ msg \in Messages
  /\ str \in Seq(Char)
  /\ i \in 1 .. Len(str) + 1
  /\ j \in 1 .. i
  /\ shown \in Seq(Part)
  /\ pc \in {"replace", "scan", "done"}
  /\ k \in 1 .. Len(msg) + 1

\* Where the parts in the window end.
End == IF shown = <<>> THEN 1 ELSE shown[Len(shown)].to

(* The parts in the window follow on each other in the message, none is empty,
   and in the end they are the whole of it: the pointers of the loop lose
   nothing and show nothing twice.                                           *)
NothingLost ==
  /\ shown # <<>> => shown[1].from = 1
  /\ \A n \in 1 .. Len(shown) : shown[n].from < shown[n].to
  /\ \A n \in 1 .. Len(shown) - 1 : shown[n].to = shown[n + 1].from
  /\ End = IF pc = "done" THEN Len(str) + 1 ELSE j

==============================================================================
