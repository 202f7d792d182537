--------------------------- MODULE GroupTextProofs --------------------------
(***************************************************************************)
(* The theorems about the way of a group text: the loop that shows it in   *)
(* the window as it was written, for every message; the chaining and the padding, for every  *)
(* text, every size of a block and every block cipher that undoes itself;  *)
(* and the block cipher, for every function bf_F, every P array and every  *)
(* even number of rounds.                                                  *)
(***************************************************************************)
EXTENDS GroupText, SequenceTheorems, WellFoundedInduction, TLAPS

CONSTANTS Word, WordXor(_, _), NPASS

VARIABLES parray, F, phase, pass, xl, xr, trace

BF == INSTANCE BlowFish WITH Xor <- WordXor

-----------------------------------------------------------------------------
(* The window.  The loop stays in the string, shows only pictures that      *)
(* there are, and shows every part of the message exactly once.             *)

\* Before the scan nothing is shown, and what is shown fits together.
Fresh == pc = "replace" => i = 1 /\ j = 1 /\ shown = <<>>

IInv == TypeOK /\ Fresh /\ NothingLost

-----------------------------------------------------------------------------
\* What replace_emotion makes of a piece are characters.
LEMMA ReplacedIsText ==
  ASSUME NEW piece \in Piece PROVE Replaced(piece) \in Seq(Char)
<1>1. CASE piece \in Char
  BY <1>1 DEF Replaced
<1>2. CASE piece \notin Char
  <2> DEFINE id == CHOOSE n \in DOMAIN emotion_list : emotion_list[n] = piece
  <2>1. \E n \in DOMAIN emotion_list : emotion_list[n] = piece
    <3>1. piece - 100 \in 0 .. NumEmotions - 1 /\ 100 + (piece - 100) = piece
      BY <1>2 DEF Piece, Char, NumEmotions
    <3> QED  BY <3>1 DEF emotion_list
  <2>2. id \in DOMAIN emotion_list
    BY <2>1
  <2> HIDE DEF id
  <2>3. id \in 0 .. 95
    BY <2>2 DEF emotion_list, NumEmotions
  <2>4. Decimal(id) \in Seq(Char)
    <3>1. CASE id < 10
      <4>1. id \in Char
        BY <2>3, <3>1 DEF Char
      <4> QED  BY <3>1, <4>1 DEF Decimal
    <3>2. CASE id >= 10
      <4>1. id \div 10 \in Char /\ id % 10 \in Char
        BY <2>3, <3>2 DEF Char
      <4> QED  BY <2>3, <3>2, <4>1 DEF Decimal
    <3> QED  BY <2>3, <3>1, <3>2
  <2>5. <<Hash>> \in Seq(Char)
    BY DEF Hash, Char
  <2>6. Replaced(piece) = <<Hash>> \o Decimal(id) \o <<Hash>>
    BY <1>2 DEF Replaced, id
  <2> QED  BY <2>4, <2>5, <2>6
<1> QED  BY <1>1, <1>2

\* How the list of parts grows.
LEMMA Grown ==
  ASSUME NEW S, NEW s \in Seq(S), NEW x \in S
  PROVE  /\ s \o <<x>> \in Seq(S)
         /\ Len(s \o <<x>>) = Len(s) + 1
         /\ \A n \in 1 .. Len(s) : (s \o <<x>>)[n] = s[n]
         /\ (s \o <<x>>)[Len(s) + 1] = x
  OBVIOUS

Chain(s, end) ==
  /\ s # <<>> => s[1].from = 1
  /\ \A n \in 1 .. Len(s) : s[n].from < s[n].to
  /\ \A n \in 1 .. Len(s) - 1 : s[n].to = s[n + 1].from
  /\ end = IF s = <<>> THEN 1 ELSE s[Len(s)].to

\* One more part that begins where the others end.
LEMMA ChainGrows ==
  ASSUME NEW S, S = Part, NEW s \in Seq(S), NEW x \in S, Chain(s, x.from), x.from < x.to
  PROVE  Chain(s \o <<x>>, x.to) /\ s \o <<x>> \in Seq(S)
<1> DEFINE t == s \o <<x>>
<1>1. /\ t \in Seq(S) /\ Len(t) = Len(s) + 1 /\ t # <<>>
      /\ \A n \in 1 .. Len(s) : t[n] = s[n]
      /\ t[Len(s) + 1] = x
  BY Grown
<1> HIDE DEF t
<1>2. CASE s = <<>>
  BY <1>1, <1>2 DEF Chain
<1>3. CASE s # <<>>
  <2>1. Len(s) \in Nat \ {0}
    BY <1>3
  <2>2. t[1].from = 1
    BY <1>1, <1>3, <2>1 DEF Chain
  <2>3. \A n \in 1 .. Len(t) : t[n].from < t[n].to
    BY <1>1, <2>1 DEF Chain
  <2>4. \A n \in 1 .. Len(t) - 1 : t[n].to = t[n + 1].from
    BY <1>1, <1>3, <2>1 DEF Chain
  <2> QED  BY <1>1, <2>1, <2>2, <2>3, <2>4 DEF Chain
<1> QED  BY <1>1, <1>2, <1>3 DEF t

\* The text between two places of the string, which may be none.
LEMMA TextGrows ==
  ASSUME NEW from \in 1 .. Len(str) + 1, NEW to \in from .. Len(str) + 1,
         str \in Seq(Char), NEW s \in Seq(Part), Chain(s, from)
  PROVE  Chain(s \o Text(from, to), to) /\ s \o Text(from, to) \in Seq(Part)
<1> DEFINE x == [from |-> from, to |-> to, id |-> NoPicture]
<1>1. CASE from = to
  BY <1>1 DEF Text
<1>2. CASE from # to
  <2>1. x \in Part /\ x.from = from /\ x.to = to /\ from < to
    BY <1>2 DEF Part
  <2> HIDE DEF x
  <2>2. Chain(s \o <<x>>, to) /\ s \o <<x>> \in Seq(Part)
    BY <2>1, ChainGrows
  <2> QED  BY <1>2, <2>2 DEF Text, x
<1> QED  BY <1>1, <1>2

LEMMA PictureKeeps ==
  ASSUME IInv, Picture PROVE IInv'
<1>1. PICK q \in 1 .. Len(str) :
        /\ IsPicture(q)
        /\ shown' = shown \o Text(j, i) \o <<[from |-> i, to |-> q + 1, id |-> IdUpTo(q)]>>
        /\ j' = Behind(q) /\ i' = q + 1
  BY DEF Picture
<1>2. pc = "scan" /\ i <= Len(str) /\ UNCHANGED <<msg, str, pc, k>>
  BY DEF Picture
<1>3. str \in Seq(Char) /\ i \in 1 .. Len(str) + 1 /\ j \in 1 .. i /\ shown \in Seq(Part)
  BY DEF IInv, TypeOK
<1>4. i < q
  BY <1>1, <1>3 DEF IsPicture, Closes
<1> DEFINE x == [from |-> i, to |-> q + 1, id |-> IdUpTo(q)]
           s == shown \o Text(j, i)
<1>5. x \in Part /\ x.from = i /\ x.to = q + 1
  BY <1>1, <1>2, <1>3, <1>4 DEF Part, IsPicture
<1>6. Chain(shown, j)
  BY <1>2 DEF IInv, NothingLost, End, Chain
<1>7. Chain(s, i) /\ s \in Seq(Part)
  BY <1>3, <1>6, TextGrows
<1> HIDE DEF x, s
<1>8. Chain(s \o <<x>>, q + 1) /\ s \o <<x>> \in Seq(Part)
  <2>1. Chain(s, x.from) /\ x.from < x.to
    BY <1>3, <1>4, <1>5, <1>7
  <2>2. Chain(s \o <<x>>, x.to) /\ s \o <<x>> \in Seq(Part)
    BY <1>5, <1>7, <2>1, ChainGrows
  <2> QED  BY <1>5, <2>2
<1>9. shown' = s \o <<x>> /\ Part' = Part
  BY <1>1, <1>2 DEF s, x, Part
<1>10. NothingLost'
  BY <1>1, <1>2, <1>8, <1>9 DEF NothingLost, Chain, End, Behind
<1>11. TypeOK'
  <2>1. i' \in 1 .. Len(str') + 1 /\ j' \in 1 .. i'
    BY <1>1, <1>2, <1>3 DEF Behind
  <2>2. shown' \in Seq(Part')
    BY <1>8, <1>9
  <2> QED  BY <1>2, <1>3, <2>1, <2>2 DEF IInv, TypeOK
<1> QED  BY <1>2, <1>10, <1>11 DEF IInv, Fresh

LEMMA ScanEndsKeeps ==
  ASSUME IInv, ScanEnds PROVE IInv'
<1>1. /\ pc = "scan" /\ i > Len(str) /\ pc' = "done"
      /\ shown' = shown \o Text(j, Len(str) + 1)
      /\ UNCHANGED <<msg, str, i, j, k>>
  BY DEF ScanEnds
<1>2. /\ str \in Seq(Char) /\ i \in 1 .. Len(str) + 1 /\ j \in 1 .. i /\ shown \in Seq(Part)
      /\ Chain(shown, j)
  BY <1>1 DEF IInv, TypeOK, NothingLost, End, Chain
<1>3. Chain(shown', Len(str) + 1) /\ shown' \in Seq(Part)
  BY <1>1, <1>2, TextGrows
<1>4. NothingLost'
  BY <1>1, <1>3 DEF NothingLost, End, Chain
<1>5. Part' = Part
  BY <1>1 DEF Part
<1>6. TypeOK'
  BY <1>1, <1>3, <1>5 DEF IInv, TypeOK
<1> QED  BY <1>1, <1>4, <1>6 DEF IInv, Fresh

LEMMA ReplaceKeeps ==
  ASSUME IInv, Replace PROVE IInv'
<1>1. /\ pc = "replace" /\ k <= Len(msg) /\ str' = str \o Replaced(msg[k]) /\ k' = k + 1
      /\ UNCHANGED <<msg, i, j, shown, pc>>
  BY DEF Replace
<1>2. /\ msg \in Seq(Piece) /\ k \in 1 .. Len(msg) /\ str \in Seq(Char)
      /\ i = 1 /\ j = 1 /\ shown = <<>>
  BY <1>1, MessagesAssumption DEF IInv, TypeOK, Fresh
<1>3. msg[k] \in Piece
  BY <1>2
<1>4. Replaced(msg[k]) \in Seq(Char)
  BY <1>3, ReplacedIsText
<1>5. str' \in Seq(Char) /\ Len(str') \in Nat
  BY <1>1, <1>2, <1>4
<1>6. shown' \in Seq(Part')
  BY <1>1, <1>2
<1>7. TypeOK'
  BY <1>1, <1>2, <1>5, <1>6 DEF IInv, TypeOK
<1>8. NothingLost'
  BY <1>1, <1>2 DEF NothingLost, End
<1> QED  BY <1>1, <1>2, <1>7, <1>8 DEF IInv, Fresh

\* What the inductive invariant needs of the first state and of a step.
LEMMA StartKeeps ==
  ASSUME Init PROVE IInv
<1>1. /\ msg \in Messages /\ msg \in Seq(Piece) /\ str = <<>> /\ shown = <<>>
      /\ i = 1 /\ j = 1 /\ k = 1 /\ pc = "replace" /\ Len(str) = 0
  BY MessagesAssumption DEF Init
<1>2. str \in Seq(Char) /\ shown \in Seq(Part) /\ k \in 1 .. Len(msg) + 1
  BY <1>1
<1> QED  BY <1>1, <1>2 DEF IInv, TypeOK, Fresh, NothingLost, End

\* Every step keeps it.
LEMMA StepKeeps ==
  ASSUME IInv, [Next]_vars PROVE IInv'
<1>1. CASE Replace
  BY <1>1, ReplaceKeeps
<1>2. CASE ReplaceEnds
  BY <1>2 DEF ReplaceEnds, IInv, TypeOK, Fresh, NothingLost, End, Part
<1>3. CASE Picture
  BY <1>3, PictureKeeps
<1>4. CASE Plain
  <2>1. i \in 1 .. Len(str) /\ i' = i + 1 /\ UNCHANGED <<msg, str, j, shown, pc, k>> /\ pc = "scan"
    BY <1>4 DEF Plain, IInv, TypeOK
  <2>2. Part' = Part
    BY <2>1 DEF Part
  <2> QED  BY <2>1, <2>2 DEF IInv, TypeOK, Fresh, NothingLost, End
<1>5. CASE ScanEnds
  BY <1>5, ScanEndsKeeps
<1>6. CASE UNCHANGED vars
  BY <1>6 DEF vars, IInv, TypeOK, Fresh, NothingLost, End, Part
<1> QED  BY <1>1, <1>2, <1>3, <1>4, <1>5, <1>6 DEF Next

(* The inductive invariant of the scan: nothing is shown before it begins,  *)
(* and what is shown is in the message, in its order.                       *)
THEOREM Invariance == Spec => []IInv
<1>1. Init => IInv
  BY StartKeeps
<1>2. IInv /\ [Next]_vars => IInv'
  BY StepKeeps
<1> QED  BY <1>1, <1>2, PTL DEF Spec

(* Every part of the message is shown, once and in its place.               *)
THEOREM ShownOnce == Spec => []NothingLost
<1>1. IInv => NothingLost
  BY DEF IInv
<1> QED  BY <1>1, Invariance, PTL

(* The loop does not leave the string, and there is a picture for every id. *)
THEOREM StaysInString == Spec => []TypeOK
<1>1. IInv => TypeOK
  BY DEF IInv
<1> QED  BY <1>1, Invariance, PTL

-----------------------------------------------------------------------------
(* What the window says.  FlattenSeq is a recursive function, and what it   *)
(* gives for a longer sequence follows from what it gives for the shorter.  *)

(* A set of numbers that is not empty has a least element.                  *)
LEMMA LeastOf ==
  ASSUME NEW S \in SUBSET Nat, S # {}
  PROVE  \E n \in S : \A m \in S : n <= m
<1>1. PICK n \in S : \A m \in S : <<m, n>> \notin OpToRel(<, Nat)
  BY WFMin, NatLessThanWellFounded
<1>2. \A m \in S : ~(m < n)
  BY <1>1, Zenon DEF OpToRel
<1> QED
  BY <1>2

\* g[a] is what the first a sequences of s are together.
Flattens(s, n, g) == g = [a \in 1 .. n |-> IF a = 1 THEN s[a] ELSE g[a - 1] \o s[a]]

\* The same of each a, which can be used without end.
Joins(s, n, g) == \A a \in 1 .. n : g[a] = IF a = 1 THEN s[a] ELSE g[a - 1] \o s[a]

Agree(f, g, n) == \A a \in 1 .. n : f[a] = g[a]

(* Two functions that take the same sequences together agree.               *)
LEMMA FlattensOnce ==
  ASSUME NEW s, NEW n \in Nat, NEW f, NEW g, Joins(s, n, f), Joins(s, n, g)
  PROVE  Agree(f, g, n)
<1> DEFINE S == {a \in 1 .. n : f[a] # g[a]}
<1>1. SUFFICES ASSUME S # {} PROVE FALSE
  BY DEF Agree
<1>2. S \in SUBSET Nat
  OBVIOUS
<1>3. PICK m \in S : \A a \in S : m <= a
  BY <1>1, <1>2, LeastOf
<1>4. m \in 1 .. n /\ f[m] # g[m]
  BY <1>3
<1>5. m # 1
  BY <1>4 DEF Joins
<1>6. m - 1 \in 1 .. n /\ ~(m <= m - 1)
  BY <1>4, <1>5
<1>7. f[m - 1] = g[m - 1]
  BY <1>3, <1>6
<1> QED
  BY <1>4, <1>5, <1>7 DEF Joins

(* There is such a function for every sequence.                             *)
LEMMA FlattensExists ==
  ASSUME NEW S, NEW s \in Seq(Seq(S)), NEW n \in 0 .. Len(s)
  PROVE  \E g \in [1 .. n -> Seq(S)] : Flattens(s, n, g)
<1> DEFINE Has(m) == \E g \in [1 .. m -> Seq(S)] : Flattens(s, m, g)
           B == {m \in 0 .. Len(s) : ~Has(m)}
<1>1. SUFFICES ASSUME B # {} PROVE FALSE
  OBVIOUS
<1>2. B \in SUBSET Nat
  OBVIOUS
<1>3. PICK m \in B : \A a \in B : m <= a
  BY <1>1, <1>2, LeastOf
<1>4. m \in 0 .. Len(s) /\ ~Has(m) /\ Len(s) \in Nat
  BY <1>3
<1>5. m # 0
  <2>1. ASSUME m = 0 PROVE FALSE
    <3> DEFINE g == [a \in 1 .. 0 |-> << >>]
    <3>1. g \in [1 .. 0 -> Seq(S)] /\ Flattens(s, 0, g)
      BY DEF Flattens
    <3> QED
      BY <1>4, <2>1, <3>1
  <2> QED
    BY <2>1
<1>6. m - 1 \in 0 .. Len(s) /\ ~(m <= m - 1) /\ m \in 1 .. Len(s)
  BY <1>4, <1>5
<1>7. Has(m - 1)
  BY <1>3, <1>6
<1>8. PICK g \in [1 .. m - 1 -> Seq(S)] : Flattens(s, m - 1, g)
  BY <1>7
<1> DEFINE h == [a \in 1 .. m |-> IF a = m THEN IF m = 1 THEN s[m] ELSE g[m - 1] \o s[m] ELSE g[a]]
<1>9. Joins(s, m - 1, g)
  BY <1>8 DEF Flattens, Joins
<1>10. h \in [1 .. m -> Seq(S)]
  <2>1. s[m] \in Seq(S)
    BY <1>6
  <2>2. m # 1 => g[m - 1] \in Seq(S)
    BY <1>6, <1>8
  <2>3. \A a \in 1 .. m : a # m => g[a] \in Seq(S)
    BY <1>6, <1>8
  <2> QED
    BY <2>1, <2>2, <2>3
<1>11. \A a \in 1 .. m : h[a] = IF a = 1 THEN s[a] ELSE h[a - 1] \o s[a]
  <2>1. SUFFICES ASSUME NEW a \in 1 .. m PROVE h[a] = IF a = 1 THEN s[a] ELSE h[a - 1] \o s[a]
    OBVIOUS
  <2>2. CASE a = m
    <3>1. m # 1 => m - 1 \in 1 .. m /\ m - 1 # m
      BY <1>6
    <3>2. m # 1 => h[m - 1] = g[m - 1]
      BY <3>1
    <3> QED
      BY <2>2, <3>2
  <2>3. CASE a # m
    <3>1. a \in 1 .. m - 1 /\ (a # 1 => a - 1 \in 1 .. m /\ a - 1 # m)
      BY <1>6, <2>3
    <3>2. h[a] = g[a] /\ (a # 1 => h[a - 1] = g[a - 1])
      BY <2>3, <3>1
    <3> QED
      BY <1>9, <3>1, <3>2 DEF Joins
  <2> QED
    BY <2>2, <2>3
<1>12. Flattens(s, m, h)
  <2> HIDE DEF h
  <2>1. h = [a \in 1 .. m |-> h[a]]
    BY <1>10
  <2>2. [a \in 1 .. m |-> h[a]] = [a \in 1 .. m |-> IF a = 1 THEN s[a] ELSE h[a - 1] \o s[a]]
    BY <1>11
  <2> QED
    BY <2>1, <2>2 DEF Flattens
<1> QED
  BY <1>4, <1>10, <1>12

(* FlattenSeq is what such a function gives for the whole sequence.         *)
LEMMA FlattenIs ==
  ASSUME NEW s, Len(s) \in Nat \ {0}, NEW g, Flattens(s, Len(s), g)
  PROVE  FlattenSeq(s) = g[Len(s)]
<1> DEFINE flatten == CHOOSE f : Flattens(s, Len(s), f)
<1>1. FlattenSeq(s) = flatten[Len(s)]
  BY DEF FlattenSeq, Flattens
<1>2. Flattens(s, Len(s), flatten)
  OBVIOUS
<1> HIDE DEF flatten
<1>3. Joins(s, Len(s), flatten) /\ Joins(s, Len(s), g)
  BY <1>2 DEF Flattens, Joins
<1>4. Len(s) \in Nat /\ Len(s) \in 1 .. Len(s)
  OBVIOUS
<1> QED
  BY <1>1, <1>3, <1>4, FlattensOnce DEF Agree

(* One more sequence is put behind the others.                              *)
LEMMA FlattenGrows ==
  ASSUME NEW S, NEW s \in Seq(Seq(S)), NEW e \in Seq(S)
  PROVE  FlattenSeq(s) \in Seq(S) /\ FlattenSeq(Append(s, e)) = FlattenSeq(s) \o e
<1> DEFINE n == Len(s)
           t == Append(s, e)
<1>1. /\ t \in Seq(Seq(S)) /\ n \in Nat /\ Len(t) = n + 1 /\ t[n + 1] = e
      /\ \A a \in 1 .. n : t[a] = s[a]
      /\ Len(s) = n
  OBVIOUS
<1> HIDE DEF t, n
<1>2. PICK g \in [1 .. n + 1 -> Seq(S)] : Flattens(t, n + 1, g)
  <2>1. n + 1 \in 0 .. Len(t)
    BY <1>1
  <2> QED
    BY <1>1, <2>1, FlattensExists
<1>3. FlattenSeq(t) = g[n + 1]
  <2>1. Len(t) \in Nat \ {0} /\ Flattens(t, Len(t), g)
    BY <1>1, <1>2
  <2> QED
    BY <1>1, <2>1, FlattenIs
<1>4. Joins(t, n + 1, g)
  BY <1>2 DEF Flattens, Joins
<1>5. CASE n = 0
  <2>1. s = << >> /\ FlattenSeq(s) = << >>
    BY <1>1, <1>5 DEF FlattenSeq
  <2>2. g[n + 1] = e
    BY <1>1, <1>4, <1>5 DEF Joins
  <2>3. << >> \o e = e /\ << >> \in Seq(S)
    OBVIOUS
  <2> QED
    BY <1>3, <2>1, <2>2, <2>3 DEF t
<1>6. CASE n # 0
  <2>1. PICK f \in [1 .. n -> Seq(S)] : Flattens(s, n, f)
    <3>1. n \in 0 .. Len(s)
      BY <1>1
    <3> QED
      BY <3>1, FlattensExists
  <2>2. FlattenSeq(s) = f[n] /\ f[n] \in Seq(S)
    <3>1. Len(s) \in Nat \ {0} /\ Flattens(s, Len(s), f) /\ n \in 1 .. n
      BY <1>1, <1>6, <2>1
    <3> QED
      BY <1>1, <2>1, <3>1, FlattenIs
  <2>3. Joins(s, n, f) /\ Joins(s, n, g)
    <3>1. Joins(s, n, f)
      BY <2>1 DEF Flattens, Joins
    <3>2. \A a \in 1 .. n : a \in 1 .. n + 1
      BY <1>1
    <3> QED
      BY <1>1, <1>4, <3>1, <3>2 DEF Joins
  <2>4. f[n] = g[n]
    <3>1. n \in 1 .. n
      BY <1>1, <1>6
    <3>2. Agree(f, g, n)
      BY <1>1, <2>3, FlattensOnce
    <3> QED
      BY <3>1, <3>2 DEF Agree
  <2>5. g[n + 1] = g[n] \o e
    <3>1. PICK b \in Nat : b = n + 1
      BY <1>1
    <3>2. b \in 1 .. n + 1 /\ b # 1 /\ b - 1 = n
      BY <1>1, <1>6, <3>1
    <3>3. g[b] = g[b - 1] \o t[b]
      BY <1>4, <3>2 DEF Joins
    <3> QED
      BY <1>1, <3>1, <3>2, <3>3
  <2> QED
    BY <1>3, <2>2, <2>4, <2>5 DEF t
<1> QED
  BY <1>5, <1>6

-----------------------------------------------------------------------------
(* A message without a '#'.  The loop stands where a piece of it begins.    *)

\* p says where in s the first n pieces of the message begin, and where the
\* last of them ends.
Stand(s, p, n) ==
  /\ p \in [0 .. n -> Nat \ {0}] /\ p[0] = 1
  /\ \A m \in 1 .. n :
       /\ p[m] = p[m - 1] + Len(Replaced(msg[m]))
       /\ \A b \in 1 .. Len(Replaced(msg[m])) : s[p[m - 1] + b - 1] = Replaced(msg[m])[b]
  /\ \A m \in 0 .. n - 1 : p[m] < p[n]
  /\ Len(s) = p[n] - 1

\* What the window shows of a part.
Says(x) ==
  IF x.id = NoPicture THEN SubSeq(str, x.from, x.to - 1) ELSE <<emotion_list[x.id]>>

\* What the window shows of the parts s.
ReadOf(s) == FlattenSeq([n \in DOMAIN s |-> Says(s[n])])

\* What the window shows, and what of str is scanned and not shown yet.
Seen == Read \o SubSeq(str, j, i - 1)

WindowInv ==
  ~Contains(msg, Hash) =>
    /\ pc = "replace" => \E p : Stand(str, p, k - 1)
    /\ pc = "scan" => \E p : /\ Stand(str, p, Len(msg))
                             /\ \E n \in 0 .. Len(msg) : i = p[n] /\ Seen = SubSeq(msg, 1, n)
    /\ pc = "done" => Read = msg

\* One sequence behind the other.
LEMMA BehindIs ==
  ASSUME NEW S, NEW s \in Seq(S), NEW t \in Seq(S)
  PROVE  /\ s \o t \in Seq(S)
         /\ Len(s) \in Nat /\ Len(t) \in Nat /\ Len(s \o t) = Len(s) + Len(t)
         /\ \A n \in 1 .. Len(s) : (s \o t)[n] = s[n]
         /\ \A n \in 1 .. Len(t) : (s \o t)[Len(s) + n] = t[n]
  OBVIOUS

\* What stands between two '#'.
LEMMA HashedIs ==
  ASSUME NEW d \in Seq(Char)
  PROVE  LET r == <<Hash>> \o d \o <<Hash>>
         IN  /\ Len(r) = Len(d) + 2 /\ r[1] = Hash /\ r[Len(r)] = Hash
             /\ \A n \in 1 .. Len(d) : r[n + 1] = d[n]
<1> DEFINE h == <<Hash>>
           u == h \o d
           r == u \o h
<1>1. h \in Seq(Char) /\ Len(h) = 1 /\ h[1] = Hash
  BY DEF Hash, Char
<1> HIDE DEF h
<1>2. /\ u \in Seq(Char) /\ Len(u) = Len(d) + 1 /\ Len(d) \in Nat /\ u[1] = Hash
      /\ \A n \in 1 .. Len(d) : u[n + 1] = d[n]
  <2>1. /\ u \in Seq(Char) /\ Len(d) \in Nat /\ Len(u) = 1 + Len(d)
        /\ \A n \in 1 .. 1 : u[n] = h[n]
        /\ \A n \in 1 .. Len(d) : u[1 + n] = d[n]
    <3> HIDE DEF u
    <3> QED  BY <1>1, BehindIs DEF u
  <2> HIDE DEF u
  <2>2. \A n \in Nat : 1 + n = n + 1
    OBVIOUS
  <2> QED  BY <1>1, <2>1, <2>2
<1> HIDE DEF u
<1>3. /\ Len(r) = Len(u) + 1
      /\ \A n \in 1 .. Len(u) : r[n] = u[n]
      /\ r[Len(u) + 1] = h[1]
  <2>1. /\ Len(r) = Len(u) + Len(h)
        /\ \A n \in 1 .. Len(u) : r[n] = u[n]
        /\ \A n \in 1 .. Len(h) : r[Len(u) + n] = h[n]
    <3> HIDE DEF r
    <3>1. u \in Seq(Char) /\ h \in Seq(Char)
      BY <1>1, <1>2
    <3>2. /\ Len(u \o h) = Len(u) + Len(h)
          /\ \A n \in 1 .. Len(u) : (u \o h)[n] = u[n]
          /\ \A n \in 1 .. Len(h) : (u \o h)[Len(u) + n] = h[n]
      BY <3>1, BehindIs
    <3> QED  BY <3>2 DEF r
  <2> HIDE DEF r
  <2> QED  BY <1>1, <1>2, <2>1
<1> HIDE DEF r
<1>4. Len(r) = Len(d) + 2 /\ r[1] = Hash /\ r[Len(r)] = Hash
  BY <1>1, <1>2, <1>3
<1>5. \A n \in 1 .. Len(d) : r[n + 1] = d[n]
  BY <1>2, <1>3
<1> QED
  BY <1>4, <1>5 DEF r, u, h

(* What replace_emotion makes of a piece, sign by sign.                     *)
LEMMA ReplacedIs ==
  ASSUME NEW piece \in Piece
  PROVE  /\ piece \in Char => Replaced(piece) = <<piece>> /\ Len(Replaced(piece)) = 1
         /\ piece \notin Char => \E id \in DOMAIN emotion_list :
              /\ emotion_list[id] = piece
              /\ Replaced(piece)[1] = Hash /\ Replaced(piece)[Len(Replaced(piece))] = Hash
              /\ id < 10 => Len(Replaced(piece)) = 3 /\ Replaced(piece)[2] = id
              /\ id >= 10 => /\ Len(Replaced(piece)) = 4
                             /\ Replaced(piece)[2] = id \div 10 /\ Replaced(piece)[3] = id % 10
<1>1. CASE piece \in Char
  BY <1>1 DEF Replaced
<1>2. CASE piece \notin Char
  <2> DEFINE id == CHOOSE a \in DOMAIN emotion_list : emotion_list[a] = piece
  <2>1. \E a \in DOMAIN emotion_list : emotion_list[a] = piece
    <3>1. piece - 100 \in DOMAIN emotion_list /\ emotion_list[piece - 100] = piece
      BY <1>2 DEF Piece, emotion_list, NumEmotions
    <3> QED
      BY <3>1
  <2>2. id \in DOMAIN emotion_list /\ emotion_list[id] = piece
    BY <2>1
  <2>3. Replaced(piece) = <<Hash>> \o Decimal(id) \o <<Hash>>
    BY <1>2 DEF Replaced
  <2> HIDE DEF id
  <2>4. id \in 0 .. 95
    BY <2>2 DEF emotion_list, NumEmotions
  <2>5. CASE id < 10
    <3>1. Decimal(id) = <<id>> /\ id \in Char
      BY <2>4, <2>5 DEF Decimal, Char
    <3>2. Decimal(id) \in Seq(Char) /\ Len(Decimal(id)) = 1 /\ Decimal(id)[1] = id
      BY <3>1
    <3>3. /\ Len(Replaced(piece)) = 3 /\ Replaced(piece)[1] = Hash /\ Replaced(piece)[3] = Hash
          /\ Replaced(piece)[2] = id
      <4>1. /\ Len(Replaced(piece)) = Len(Decimal(id)) + 2
            /\ Replaced(piece)[1] = Hash /\ Replaced(piece)[Len(Replaced(piece))] = Hash
            /\ \A n \in 1 .. Len(Decimal(id)) : Replaced(piece)[n + 1] = Decimal(id)[n]
        BY <2>3, <3>2, HashedIs
      <4> QED
        BY <3>2, <4>1
    <3> QED
      BY <1>2, <2>2, <2>4, <2>5, <3>3
  <2>6. CASE id >= 10
    <3>1. Decimal(id) = <<id \div 10, id % 10>> /\ id \div 10 \in Char /\ id % 10 \in Char
      BY <2>4, <2>6 DEF Decimal, Char
    <3>2. /\ Decimal(id) \in Seq(Char) /\ Len(Decimal(id)) = 2
          /\ Decimal(id)[1] = id \div 10 /\ Decimal(id)[2] = id % 10
      BY <3>1
    <3>3. /\ Len(Replaced(piece)) = 4 /\ Replaced(piece)[1] = Hash /\ Replaced(piece)[4] = Hash
          /\ Replaced(piece)[2] = id \div 10 /\ Replaced(piece)[3] = id % 10
      <4>1. /\ Len(Replaced(piece)) = Len(Decimal(id)) + 2
            /\ Replaced(piece)[1] = Hash /\ Replaced(piece)[Len(Replaced(piece))] = Hash
            /\ \A n \in 1 .. Len(Decimal(id)) : Replaced(piece)[n + 1] = Decimal(id)[n]
        BY <2>3, <3>2, HashedIs
      <4> QED
        BY <3>2, <4>1
    <3> QED
      BY <1>2, <2>2, <2>4, <2>6, <3>3
  <2> QED
    BY <2>4, <2>5, <2>6
<1> QED
  BY <1>1, <1>2

\* Some characters at least.
LEMMA ReplacedIsSome ==
  ASSUME NEW piece \in Piece
  PROVE  Replaced(piece) \in Seq(Char) /\ Len(Replaced(piece)) \in Nat \ {0}
<1>1. CASE piece \in Char
  <2>1. Len(Replaced(piece)) = 1
    BY <1>1, ReplacedIs
  <2>2. Replaced(piece) \in Seq(Char)
    BY ReplacedIsText
  <2> QED
    BY <2>1, <2>2
<1>2. CASE piece \notin Char
  <2>1. PICK id \in DOMAIN emotion_list :
          /\ id < 10 => Len(Replaced(piece)) = 3
          /\ id >= 10 => Len(Replaced(piece)) = 4
    BY <1>2, ReplacedIs
  <2>2. id \in 0 .. 95
    BY DEF emotion_list, NumEmotions
  <2>3. Len(Replaced(piece)) \in {3, 4}
    BY <2>1, <2>2
  <2>4. Replaced(piece) \in Seq(Char)
    BY ReplacedIsText
  <2>5. Len(Replaced(piece)) \in Nat \ {0}
    <3>1. \A b \in {3, 4} : b \in Nat \ {0}
      OBVIOUS
    <3> QED
      BY <2>3, <3>1
  <2> QED
    BY <2>4, <2>5
<1> QED
  BY <1>1, <1>2

\* What the window shows of a part are pieces of a message.
LEMMA SaysIs ==
  ASSUME str \in Seq(Char), NEW y \in Part PROVE Says(y) \in Seq(Piece)
  <1>1. CASE y.id = NoPicture
    <2>1. y.from \in 1 .. Len(str) /\ y.to \in 2 .. Len(str) + 1 /\ Len(str) \in Nat
      BY DEF Part
    <2>2. SubSeq(str, y.from, y.to - 1) \in Seq(Char)
      BY <2>1
    <2>3. Char \subseteq Piece
      BY DEF Piece
    <2> QED
      BY <1>1, <2>2, <2>3 DEF Says
  <1>2. CASE y.id # NoPicture
    <2>1. y.id \in DOMAIN emotion_list
      BY <1>2 DEF Part
    <2>2. emotion_list[y.id] \in Piece
      <3>1. y.id \in 0 .. 95
        BY <2>1 DEF emotion_list, NumEmotions
      <3>2. emotion_list[y.id] = 100 + y.id
        BY <2>1 DEF emotion_list
      <3>3. 100 + y.id \in 100 .. 195
        <4>1. \A n \in 0 .. 95 : 100 + n \in 100 .. 195
          OBVIOUS
        <4> QED
          BY <3>1, <4>1
      <3> QED
        BY <3>2, <3>3 DEF Piece, NumEmotions
    <2> QED
      BY <1>2, <2>2 DEF Says
  <1> QED
    BY <1>1, <1>2

\* What the window shows is a message.
LEMMA ReadIsMessage ==
  ASSUME str \in Seq(Char), NEW s \in Seq(Part) PROVE ReadOf(s) \in Seq(Piece)
<1> DEFINE a == [n \in DOMAIN s |-> Says(s[n])]
<1>1. a \in Seq(Seq(Piece))
  <2>1. /\ Len(s) \in Nat /\ DOMAIN s = 1 .. Len(s)
        /\ \A n \in 1 .. Len(s) : s[n] \in Part
    OBVIOUS
  <2>2. a \in [1 .. Len(s) -> Seq(Piece)]
    BY <2>1, SaysIs
  <2> HIDE DEF a
  <2> QED
    BY <2>1, <2>2
<1> HIDE DEF a
<1>2. <<>> \in Seq(Piece)
  OBVIOUS
<1>3. FlattenSeq(a) \in Seq(Piece)
  BY <1>1, <1>2, FlattenGrows
<1> QED
  BY <1>3 DEF a, ReadOf

(* What is read when one more part is shown.                                *)
LEMMA ReadGrows ==
  ASSUME str \in Seq(Char), NEW s \in Seq(Part), NEW x \in Part
  PROVE  /\ ReadOf(s) \in Seq(Piece) /\ Says(x) \in Seq(Piece)
         /\ ReadOf(s \o <<x>>) = ReadOf(s) \o Says(x)
<1> DEFINE t == s \o <<x>>
           a == [n \in DOMAIN s |-> Says(s[n])]
<1>1. \A y \in Part : Says(y) \in Seq(Piece)
  BY SaysIs
<1>2. a \in Seq(Seq(Piece)) /\ Len(a) = Len(s) /\ Len(s) \in Nat
  <2>1. /\ Len(s) \in Nat /\ DOMAIN s = 1 .. Len(s)
        /\ \A n \in 1 .. Len(s) : s[n] \in Part
    OBVIOUS
  <2>2. a \in [1 .. Len(s) -> Seq(Piece)]
    BY <1>1, <2>1
  <2> HIDE DEF a
  <2> QED
    BY <2>1, <2>2
<1>3. /\ t \in Seq(Part) /\ Len(t) = Len(s) + 1 /\ t[Len(s) + 1] = x
      /\ \A n \in 1 .. Len(s) : t[n] = s[n]
  BY Grown
<1> HIDE DEF t
<1>4. [n \in DOMAIN t |-> Says(t[n])] = Append(a, Says(x))
  <2>1. DOMAIN t = 1 .. Len(s) + 1 /\ DOMAIN s = 1 .. Len(s)
    BY <1>3
  <2>2. ASSUME NEW n \in 1 .. Len(s) + 1 PROVE Says(t[n]) = Append(a, Says(x))[n]
    <3>1. CASE n = Len(s) + 1
      BY <1>1, <1>2, <1>3, <3>1
    <3>2. CASE n # Len(s) + 1
      <4>1. n \in 1 .. Len(s)
        BY <1>2, <3>2
      <4> QED
        BY <1>1, <1>2, <1>3, <2>1, <4>1
    <3> QED
      BY <3>1, <3>2
  <2>3. Append(a, Says(x)) \in Seq(Seq(Piece)) /\ Len(Append(a, Says(x))) = Len(s) + 1
    BY <1>1, <1>2
  <2> HIDE DEF a
  <2> DEFINE c == Append(a, Says(x))
  <2>4. c = [n \in 1 .. Len(s) + 1 |-> c[n]]
    <3> HIDE DEF c
    <3>1. c \in Seq(Seq(Piece)) /\ Len(c) = Len(s) + 1
      BY <2>3 DEF c
    <3> QED
      BY <3>1
  <2>5. [n \in DOMAIN t |-> Says(t[n])] = [n \in 1 .. Len(s) + 1 |-> c[n]]
    BY <2>1, <2>2
  <2> QED
    BY <2>4, <2>5
<1>5. Says(x) \in Seq(Piece)
  BY <1>1
<1> HIDE DEF a
<1>6. FlattenSeq(a) \in Seq(Piece) /\ FlattenSeq(Append(a, Says(x))) = FlattenSeq(a) \o Says(x)
  BY <1>2, <1>5, FlattenGrows
<1> QED
  BY <1>4, <1>5, <1>6 DEF a, t, ReadOf

\* The text between two places, which may be none, is read as it stands.
LEMMA TextIsRead ==
  ASSUME str \in Seq(Char), NEW s \in Seq(Part),
         NEW from \in 1 .. Len(str) + 1, NEW to \in from .. Len(str) + 1
  PROVE  /\ s \o Text(from, to) \in Seq(Part)
         /\ ReadOf(s) \in Seq(Piece) /\ SubSeq(str, from, to - 1) \in Seq(Piece)
         /\ ReadOf(s \o Text(from, to)) = ReadOf(s) \o SubSeq(str, from, to - 1)
<1> DEFINE x == [from |-> 1, to |-> 2, id |-> 0]
           y == [from |-> from, to |-> to, id |-> NoPicture]
<1>1. Len(str) \in Nat
  OBVIOUS
<1>2. ReadOf(s) \in Seq(Piece)
  BY ReadIsMessage
<1>3. CASE from = to
  <2>1. SubSeq(str, from, to - 1) = <<>>
    BY <1>1, <1>3, SubSeqEmpty
  <2>2. s \o Text(from, to) = s
    BY <1>3, ConcatEmptySeq DEF Text
  <2>3. ReadOf(s) \o <<>> = ReadOf(s)
    BY <1>2, ConcatEmptySeq
  <2> QED
    <3>1. ReadOf(s \o Text(from, to)) = ReadOf(s) \o SubSeq(str, from, to - 1)
      BY <2>1, <2>2, <2>3
    <3>2. s \o Text(from, to) \in Seq(Part) /\ SubSeq(str, from, to - 1) \in Seq(Piece)
      BY <2>1, <2>2
    <3> QED
      BY <1>2, <3>1, <3>2
<1>4. CASE from # to
  <2>1. y \in Part /\ y.id = NoPicture /\ y.from = from /\ y.to = to /\ from < to
    BY <1>1, <1>4 DEF Part
  <2>2. Text(from, to) = <<y>>
    BY <1>4 DEF Text
  <2> HIDE DEF y
  <2>3. Says(y) = SubSeq(str, from, to - 1)
    BY <2>1 DEF Says
  <2>4. /\ ReadOf(s) \in Seq(Piece) /\ Says(y) \in Seq(Piece)
        /\ ReadOf(s \o <<y>>) = ReadOf(s) \o Says(y)
    BY <2>1, ReadGrows
  <2>5. s \o <<y>> \in Seq(Part)
    BY <2>1, Grown
  <2> QED
    BY <2>2, <2>3, <2>4, <2>5
<1> QED
  BY <1>3, <1>4

(* One more piece is replaced.                                              *)
LEMMA StandGrows ==
  ASSUME msg \in Seq(Piece), NEW n \in Nat, n < Len(msg),
         NEW t \in Seq(Char), NEW p, Stand(t, p, n)
  PROVE  \E p2 : Stand(t \o Replaced(msg[n + 1]), p2, n + 1)
<1> DEFINE r == Replaced(msg[n + 1])
           u == t \o r
           p2 == [a \in 0 .. n + 1 |-> IF a = n + 1 THEN p[n] + Len(r) ELSE p[a]]
<1>1. msg[n + 1] \in Piece
  OBVIOUS
<1>2. r \in Seq(Char) /\ Len(r) \in Nat \ {0}
  BY <1>1, ReplacedIsSome
<1> HIDE DEF r
<1>3. /\ u \in Seq(Char) /\ Len(t) \in Nat /\ Len(u) = Len(t) + Len(r)
      /\ \A b \in 1 .. Len(t) : u[b] = t[b]
      /\ \A b \in 1 .. Len(r) : u[Len(t) + b] = r[b]
  <2> HIDE DEF u
  <2>1. t \in Seq(Char) /\ r \in Seq(Char)
    BY <1>2
  <2>2. /\ t \o r \in Seq(Char) /\ Len(t) \in Nat /\ Len(t \o r) = Len(t) + Len(r)
        /\ \A b \in 1 .. Len(t) : (t \o r)[b] = t[b]
        /\ \A b \in 1 .. Len(r) : (t \o r)[Len(t) + b] = r[b]
    BY <2>1, BehindIs
  <2> QED
    BY <2>2 DEF u
<1> HIDE DEF u
<1>4. /\ p \in [0 .. n -> Nat \ {0}] /\ p[0] = 1 /\ p[n] \in Nat \ {0} /\ Len(t) = p[n] - 1
      /\ \A a \in 0 .. n - 1 : p[a] < p[n]
  BY DEF Stand
<1>5. /\ p2 \in [0 .. n + 1 -> Nat \ {0}] /\ p2[0] = 1
      /\ p2[n + 1] = p[n] + Len(r) /\ \A a \in 0 .. n : p2[a] = p[a]
  BY <1>2, <1>4
<1> HIDE DEF p2
<1>6. ASSUME NEW a \in 1 .. n + 1
      PROVE  /\ p2[a] = p2[a - 1] + Len(Replaced(msg[a]))
             /\ \A b \in 1 .. Len(Replaced(msg[a])) : u[p2[a - 1] + b - 1] = Replaced(msg[a])[b]
  <2>1. CASE a = n + 1
    <3>1. p2[a - 1] = p[n] /\ Replaced(msg[a]) = r /\ p2[a] = p[n] + Len(r)
      BY <1>5, <2>1 DEF r
    <3>2. ASSUME NEW b \in 1 .. Len(r) PROVE u[p[n] + b - 1] = r[b]
      <4>1. p[n] + b - 1 = Len(t) + b
        BY <1>2, <1>4
      <4> QED
        BY <1>3, <4>1
    <3> QED
      BY <3>1, <3>2
  <2>2. CASE a # n + 1
    <3> DEFINE v == Replaced(msg[a])
    <3>1. a \in 1 .. n /\ a - 1 \in 0 .. n - 1
      BY <2>2
    <3>2. /\ p[a] = p[a - 1] + Len(v) /\ p2[a] = p[a] /\ p2[a - 1] = p[a - 1]
          /\ \A b \in 1 .. Len(v) : t[p[a - 1] + b - 1] = v[b]
      <4>1. a \in 0 .. n /\ a - 1 \in 0 .. n
        BY <3>1
      <4>2. p2[a] = p[a] /\ p2[a - 1] = p[a - 1]
        BY <1>5, <4>1
      <4>3. p[a] = p[a - 1] + Len(v)
        BY <3>1 DEF Stand
      <4>4. \A b \in 1 .. Len(v) : t[p[a - 1] + b - 1] = v[b]
        BY <3>1 DEF Stand
      <4> HIDE DEF v
      <4> QED
        BY <4>2, <4>3, <4>4
    <3>3. p[a] <= p[n] /\ p[a] \in Nat /\ p[a - 1] \in Nat \ {0}
      <4>1. a = n \/ a \in 0 .. n - 1
        BY <3>1
      <4>2. a \in 0 .. n /\ a - 1 \in 0 .. n
        BY <3>1
      <4>3. p[a] \in Nat \ {0} /\ p[a - 1] \in Nat \ {0}
        BY <1>4, <4>2
      <4>4. a = n \/ p[a] < p[n]
        BY <1>4, <4>1
      <4> QED
        BY <1>4, <4>3, <4>4
    <3>4. v \in Seq(Char) /\ Len(v) \in Nat
      <4>1. msg[a] \in Piece
        BY <3>1
      <4>2. v \in Seq(Char)
        BY <4>1, ReplacedIsText
      <4> HIDE DEF v
      <4> QED
        BY <4>2
    <3> HIDE DEF v
    <3>5. ASSUME NEW b \in 1 .. Len(v) PROVE u[p[a - 1] + b - 1] = v[b]
      <4>1. p[a - 1] + b - 1 \in 1 .. Len(t)
        <5>1. p[a] = p[a - 1] + Len(v) /\ Len(t) = p[n] - 1 /\ p[n] \in Nat
          BY <1>4, <3>2
        <5>2. \A x \in Nat \ {0}, y, l, c \in Nat :
                c >= 1 /\ c <= l /\ x + l <= y => x + c - 1 \in 1 .. y - 1
          OBVIOUS
        <5>3. p[a - 1] + Len(v) <= p[n]
          BY <3>3, <5>1
        <5>4. b \in Nat /\ b >= 1 /\ b <= Len(v)
          BY <3>4
        <5> QED
          BY <3>3, <3>4, <5>1, <5>2, <5>3, <5>4
      <4> QED
        BY <1>3, <3>2, <4>1
    <3>6. p2[a] = p2[a - 1] + Len(v)
      BY <3>2
    <3>7. \A b \in 1 .. Len(v) : u[p2[a - 1] + b - 1] = v[b]
      BY <3>2, <3>5
    <3>8. v = Replaced(msg[a])
      BY DEF v
    <3> QED
      BY <3>6, <3>7, <3>8
  <2> QED
    BY <2>1, <2>2
<1>7. ASSUME NEW a \in 0 .. (n + 1) - 1 PROVE p2[a] < p2[n + 1]
  <2>1. a \in 0 .. n /\ p[a] \in Nat /\ p[a] <= p[n]
    <3>1. a \in 0 .. n /\ (a = n \/ a \in 0 .. n - 1)
      OBVIOUS
    <3> QED
      BY <1>4, <3>1
  <2> QED
    BY <1>2, <1>4, <1>5, <2>1
<1>8. Len(u) = p2[n + 1] - 1
  BY <1>2, <1>3, <1>4, <1>5
<1>9. Stand(u, p2, n + 1)
  <2>1. \A a \in 1 .. n + 1 :
          /\ p2[a] = p2[a - 1] + Len(Replaced(msg[a]))
          /\ \A b \in 1 .. Len(Replaced(msg[a])) : u[p2[a - 1] + b - 1] = Replaced(msg[a])[b]
    BY <1>6
  <2>2. \A a \in 0 .. (n + 1) - 1 : p2[a] < p2[n + 1]
    BY <1>7
  <2> QED
    BY <1>5, <2>1, <2>2, <1>8 DEF Stand
<1> QED
  BY <1>9 DEF u, r

\* Where a piece begins and the next one.
LEMMA StandsAt ==
  ASSUME msg \in Seq(Piece), str \in Seq(Char), NEW p, Stand(str, p, Len(msg)),
         NEW n \in 0 .. Len(msg)
  PROVE  /\ Len(msg) \in Nat /\ Len(str) \in Nat
         /\ p[n] \in Nat \ {0} /\ p[n] <= Len(str) + 1
         /\ p[n] = Len(str) + 1 => n = Len(msg)
         /\ n < Len(msg) =>
              /\ msg[n + 1] \in Piece
              /\ p[n + 1] = p[n] + Len(Replaced(msg[n + 1])) /\ p[n + 1] <= Len(str) + 1
              /\ \A b \in 1 .. Len(Replaced(msg[n + 1])) :
                   str[p[n] + b - 1] = Replaced(msg[n + 1])[b]
<1> DEFINE l == Len(msg)
<1>1. l \in Nat /\ Len(str) \in Nat
  OBVIOUS
<1>2. /\ p \in [0 .. l -> Nat \ {0}] /\ Len(str) = p[l] - 1
      /\ \A m \in 0 .. l - 1 : p[m] < p[l]
  BY DEF Stand
<1> HIDE DEF l
<1>3. ASSUME NEW m \in 0 .. l
      PROVE  p[m] \in Nat \ {0} /\ p[m] <= Len(str) + 1 /\ (p[m] = Len(str) + 1 => m = l)
  <2>1. p[m] \in Nat \ {0} /\ p[l] \in Nat \ {0}
    BY <1>1, <1>2
  <2>2. m = l \/ m \in 0 .. l - 1
    BY <1>1
  <2> QED
    BY <1>1, <1>2, <2>1, <2>2
<1>4. ASSUME n < l
      PROVE  /\ msg[n + 1] \in Piece
             /\ p[n + 1] = p[n] + Len(Replaced(msg[n + 1]))
             /\ \A b \in 1 .. Len(Replaced(msg[n + 1])) :
                  str[p[n] + b - 1] = Replaced(msg[n + 1])[b]
  <2>1. n + 1 \in 1 .. l /\ (n + 1) - 1 = n
    BY <1>1, <1>4 DEF l
  <2>2. PICK m \in 1 .. l : m = n + 1
    BY <2>1
  <2>3. /\ p[m] = p[m - 1] + Len(Replaced(msg[m]))
        /\ \A b \in 1 .. Len(Replaced(msg[m])) : str[p[m - 1] + b - 1] = Replaced(msg[m])[b]
    BY <2>2 DEF Stand, l
  <2>4. msg[m] \in Piece
    BY DEF l
  <2> QED
    BY <2>1, <2>2, <2>3, <2>4
<1>5. n < l => n + 1 \in 0 .. l
  BY <1>1 DEF l
<1> QED
  BY <1>1, <1>3, <1>4, <1>5 DEF l

\* The loop stands where the piece behind the first n begins.
StandsHere(p, n) ==
  /\ msg \in Seq(Piece) /\ str \in Seq(Char) /\ Stand(str, p, Len(msg))
  /\ n \in 0 .. Len(msg) /\ n < Len(msg)
  /\ i = p[n]

\* A character that is not '#' begins no picture.
LEMMA CharHere ==
  ASSUME NEW p, NEW n, StandsHere(p, n), msg[n + 1] \in Char, msg[n + 1] # Hash
  PROVE  str[i] = msg[n + 1] /\ p[n + 1] = i + 1 /\ \A q : ~IsPicture(q)
<1>1. /\ p[n] \in Nat \ {0} /\ msg[n + 1] \in Piece
      /\ p[n + 1] = p[n] + Len(Replaced(msg[n + 1]))
      /\ \A b \in 1 .. Len(Replaced(msg[n + 1])) : str[p[n] + b - 1] = Replaced(msg[n + 1])[b]
  BY StandsAt DEF StandsHere
<1>2. Len(Replaced(msg[n + 1])) = 1
  BY <1>1, ReplacedIs
<1>3. Replaced(msg[n + 1])[1] = msg[n + 1]
  BY DEF Replaced
<1>4. str[p[n] + 1 - 1] = msg[n + 1] /\ p[n] + 1 - 1 = p[n]
  BY <1>1, <1>2, <1>3
<1> QED
  BY <1>1, <1>2, <1>4 DEF IsPicture, StandsHere

\* The digits of a number of two digits.
LEMMA TwoDigits ==
  ASSUME NEW a \in 0 .. 95, a >= 10
  PROVE  \E b \in 1 .. 9, c \in 0 .. 9 : b = a \div 10 /\ c = a % 10 /\ 10 * b + c = a
<1>1. a \div 10 \in 1 .. 9
  OBVIOUS
<1>2. a % 10 \in 0 .. 9
  OBVIOUS
<1>3. PICK b \in 1 .. 9 : b = a \div 10
  BY <1>1
<1>4. PICK c \in 0 .. 9 : c = a % 10
  BY <1>2
<1>5. a % 10 = a - 10 * (a \div 10)
  OBVIOUS
<1>6. c = a - 10 * b
  BY <1>3, <1>4, <1>5
<1>7. 10 * b + c = a
  BY <1>6
<1> QED
  BY <1>3, <1>4, <1>7

\* A code is found as its picture, and nothing else is found there.
LEMMA CodeHere ==
  ASSUME NEW p, NEW n, StandsHere(p, n), msg[n + 1] \notin Char
  PROVE  /\ p[n + 1] - 1 \in 1 .. Len(str) /\ IsPicture(p[n + 1] - 1)
         /\ \A q : IsPicture(q) => q + 1 = p[n + 1] /\ emotion_list[IdUpTo(q)] = msg[n + 1]
<1> DEFINE r == Replaced(msg[n + 1])
           e == p[n + 1]
<1>1. /\ i \in Nat \ {0} /\ msg[n + 1] \in Piece /\ Len(str) \in Nat
      /\ e = i + Len(r) /\ e <= Len(str) + 1
      /\ \A b \in 1 .. Len(r) : str[i + b - 1] = r[b]
  BY StandsAt DEF StandsHere
<1>2. PICK id \in DOMAIN emotion_list :
        /\ emotion_list[id] = msg[n + 1]
        /\ r[1] = Hash /\ r[Len(r)] = Hash
        /\ id < 10 => Len(r) = 3 /\ r[2] = id
        /\ id >= 10 => /\ Len(r) = 4
                       /\ r[2] = id \div 10 /\ r[3] = id % 10
  BY <1>1, ReplacedIs
<1>3. id \in 0 .. 95
  BY DEF emotion_list, NumEmotions
<1> HIDE DEF r, e
<1>4. CASE id < 10
  <2>1. Len(r) = 3 /\ r[1] = Hash /\ r[2] = id /\ r[3] = Hash /\ e = i + 3
    BY <1>1, <1>2, <1>4
  <2>2. \A b \in 1 .. 3 : str[i + b - 1] = r[b]
    BY <1>1, <2>1
  <2>3. str[i] = Hash /\ str[i + 1] = id /\ str[i + 2] = Hash
    <3>1. i + 1 - 1 = i /\ i + 2 - 1 = i + 1 /\ i + 3 - 1 = i + 2
      BY <1>1
    <3>2. str[i + 1 - 1] = r[1] /\ str[i + 2 - 1] = r[2] /\ str[i + 3 - 1] = r[3]
      BY <2>2
    <3> QED
      BY <2>1, <3>1, <3>2
  <2>4. \A q : Closes(q) => q = i + 2
    <3> SUFFICES ASSUME NEW q, Closes(q), q # i + 2 PROVE FALSE
      OBVIOUS
    <3>1. q = i + 3 /\ str[q] = Hash /\ \A b \in i + 1 .. q - 1 : str[b] # Hash
      BY DEF Closes
    <3>2. i + 2 \in i + 1 .. q - 1
      BY <1>1, <3>1
    <3> QED
      BY <2>3, <3>1, <3>2
  <2>5. Closes(i + 2)
    <3>1. \A b \in i + 1 .. (i + 2) - 1 : b = i + 1
      BY <1>1
    <3>2. i + 2 <= Len(str) /\ id # Hash
      BY <1>1, <1>3, <1>4, <2>1 DEF Hash
    <3> QED
      BY <2>3, <3>1, <3>2 DEF Closes
  <2>6. IdUpTo(i + 2) = id
    BY <1>4, <2>3 DEF IdUpTo, atoi
  <2>7. e - 1 = i + 2 /\ e - 1 \in 1 .. Len(str) /\ (i + 2) + 1 = e
    BY <1>1, <2>1
  <2> QED
    BY <1>2, <2>3, <2>4, <2>5, <2>6, <2>7 DEF IsPicture, e
<1>5. CASE id >= 10
  <2>1. PICK d1 \in 1 .. 9, d2 \in 0 .. 9 : d1 = id \div 10 /\ d2 = id % 10 /\ 10 * d1 + d2 = id
    BY <1>3, <1>5, TwoDigits
  <2>2. e = i + 4
    BY <1>1, <1>2, <1>5
  <2>3. /\ Len(r) = 4 /\ r[1] = Hash /\ r[2] = d1 /\ r[3] = d2 /\ r[4] = Hash
        /\ e = i + 4
    BY <1>1, <1>2, <1>5, <2>1
  <2>4. \A b \in 1 .. 4 : str[i + b - 1] = r[b]
    BY <1>1, <2>3
  <2>5. str[i] = Hash /\ str[i + 1] = d1 /\ str[i + 2] = d2 /\ str[i + 3] = Hash
    <3>1. i + 1 - 1 = i /\ i + 2 - 1 = i + 1 /\ i + 3 - 1 = i + 2 /\ i + 4 - 1 = i + 3
      BY <1>1
    <3>2. /\ str[i + 1 - 1] = r[1] /\ str[i + 2 - 1] = r[2] /\ str[i + 3 - 1] = r[3]
          /\ str[i + 4 - 1] = r[4]
      BY <2>4
    <3> QED
      BY <2>3, <3>1, <3>2
  <2>6. \A q : Closes(q) => q = i + 3
    <3> SUFFICES ASSUME NEW q, Closes(q), q # i + 3 PROVE FALSE
      OBVIOUS
    <3>1. q = i + 2 /\ str[q] = Hash /\ \A b \in i + 1 .. q - 1 : str[b] # Hash
      BY DEF Closes
    <3>2. d2 # Hash
      BY DEF Hash
    <3> QED
      BY <2>5, <3>1, <3>2
  <2>7. Closes(i + 3)
    <3>1. \A b \in i + 1 .. (i + 3) - 1 : b = i + 1 \/ b = i + 2
      BY <1>1
    <3>2. i + 3 <= Len(str)
      BY <1>1, <2>2
    <3>3. d1 # Hash /\ d2 # Hash
      BY DEF Hash
    <3> QED
      BY <2>5, <3>1, <3>2, <3>3 DEF Closes
  <2>8. IdUpTo(i + 3) = id
    <3>1. i + 3 # i + 2
      BY <1>1
    <3>2. \A a \in 1 .. 9, b \in 0 .. 9 : atoi2(a, b) = 10 * a + b
      BY DEF atoi2, Minus
    <3>3. atoi2(d1, d2) = id
      BY <2>1, <3>2
    <3> QED
      BY <2>5, <3>1, <3>3 DEF IdUpTo
  <2>9. e - 1 = i + 3 /\ e - 1 \in 1 .. Len(str) /\ (i + 3) + 1 = e
    BY <1>1, <2>2
  <2> QED
    BY <1>2, <2>5, <2>6, <2>7, <2>8, <2>9 DEF IsPicture, e
<1>6. id < 10 \/ id >= 10
  BY <1>3
<1> QED
  BY <1>4, <1>5, <1>6

-----------------------------------------------------------------------------
\* The message as far as a piece and one piece on.
LEMMA OneMore ==
  ASSUME NEW m \in Seq(Piece), NEW n \in Nat, n < Len(m)
  PROVE  SubSeq(m, 1, n) \in Seq(Piece) /\ SubSeq(m, 1, n + 1) = SubSeq(m, 1, n) \o <<m[n + 1]>>
<1>1. PICK l \in 1 .. Len(m) : l = n + 1 /\ l - 1 = n
  <2>1. n + 1 \in 1 .. Len(m)
    OBVIOUS
  <2> QED
    BY <2>1
<1>2. SubSeq(m, 1, l) = SubSeq(m, 1, l - 1) \o <<m[l]>>
  <2>1. l \in 1 .. Len(m) /\ 1 \in 1 .. Len(m) /\ l \in 1 .. Len(m)
    BY <1>1
  <2> QED
    BY <2>1, SubSeqRecursiveSecond
<1>3. SubSeq(m, 1, n) \in Seq(Piece)
  OBVIOUS
<1> QED
  BY <1>1, <1>2, <1>3

\* What the loop relies on.
ScanTyped ==
  /\ msg \in Seq(Piece) /\ str \in Seq(Char) /\ shown \in Seq(Part)
  /\ i \in 1 .. Len(str) + 1 /\ j \in 1 .. i

\* Both halves of Seen are text of a message.
LEMMA ReadTyped ==
  ASSUME ScanTyped
  PROVE  /\ Len(str) \in Nat /\ Read = ReadOf(shown) /\ Read \in Seq(Piece)
         /\ SubSeq(str, j, i - 1) \in Seq(Piece)
<1>1. Read = ReadOf(shown)
  BY DEF Read, ReadOf, Says
<1>2. ReadOf(shown) \in Seq(Piece)
  BY ReadIsMessage DEF ScanTyped
<1>3. Len(str) \in Nat
  BY DEF ScanTyped
<1>4. SubSeq(str, j, i - 1) \in Seq(Piece)
  <2>1. j \in 1 .. Len(str) + 1 /\ i \in j .. Len(str) + 1
    BY <1>3 DEF ScanTyped
  <2> QED
    BY <2>1, TextIsRead DEF ScanTyped
<1> QED
  BY <1>1, <1>2, <1>3, <1>4

\* A character is scanned: Seen has one piece more.
LEMMA PlainReads ==
  ASSUME ScanTyped, Plain, NEW p, NEW n, StandsHere(p, n), Seen = SubSeq(msg, 1, n),
         \A m \in 1 .. Len(msg) : msg[m] # Hash
  PROVE  i' = p[n + 1] /\ Seen' = SubSeq(msg, 1, n + 1)
<1>1. i <= Len(str) /\ (\A q \in 1 .. Len(str) : ~IsPicture(q)) /\ i' = i + 1
      /\ UNCHANGED <<str, j, shown>>
  BY DEF Plain
<1>2. msg \in Seq(Piece) /\ n \in Nat /\ n < Len(msg)
  BY DEF StandsHere
<1>3. msg[n + 1] \in Char
  BY <1>1, CodeHere
<1>4. msg[n + 1] # Hash
  <2>1. n + 1 \in 1 .. Len(msg)
    BY <1>2
  <2> QED
    BY <2>1
<1>5. str[i] = msg[n + 1] /\ p[n + 1] = i + 1
  BY <1>3, <1>4, CharHere
<1>6. SubSeq(str, j, i) = SubSeq(str, j, i - 1) \o <<str[i]>>
  <2>1. str \in Seq(Char) /\ j \in 1 .. Len(str) /\ i \in j .. Len(str)
    BY <1>1 DEF ScanTyped
  <2> QED
    BY <2>1, SubSeqRecursiveSecond
<1>7. Read \in Seq(Piece) /\ SubSeq(str, j, i - 1) \in Seq(Piece) /\ <<str[i]>> \in Seq(Piece)
  <2>1. str[i] \in Piece
    BY <1>3, <1>5 DEF Piece
  <2>2. <<str[i]>> \in Seq(Piece)
    BY <2>1
  <2> QED
    BY <2>2, ReadTyped
<1>8. Read \o (SubSeq(str, j, i - 1) \o <<str[i]>>) = (Read \o SubSeq(str, j, i - 1)) \o <<str[i]>>
  <2> DEFINE a == Read
             b == SubSeq(str, j, i - 1)
             c == <<str[i]>>
  <2>1. a \in Seq(Piece) /\ b \in Seq(Piece) /\ c \in Seq(Piece)
    BY <1>7
  <2> HIDE DEF a, b, c
  <2>2. (a \o b) \o c = a \o (b \o c)
    BY <2>1, ConcatAssociative
  <2> QED
    BY <2>2 DEF a, b, c
<1>9. Read' = Read
  BY <1>1 DEF Read
<1>10. SubSeq(str, j, i)' = SubSeq(str, j, i + 1) /\ (i + 1) - 1 = i
  BY <1>1 DEF ScanTyped
<1>11. Seen' = Read \o SubSeq(str, j, i)
  BY <1>1, <1>9, <1>10 DEF Seen
<1>12. Seen' = Seen \o <<msg[n + 1]>>
  BY <1>5, <1>6, <1>8, <1>11 DEF Seen
<1> QED
  BY <1>1, <1>2, <1>5, <1>12, OneMore

\* A code is found: Seen has one piece more, and all of it is shown.
LEMMA PictureReads ==
  ASSUME ScanTyped, Picture, NEW p, NEW n, StandsHere(p, n), Seen = SubSeq(msg, 1, n),
         \A m \in 1 .. Len(msg) : msg[m] # Hash
  PROVE  i' = p[n + 1] /\ Seen' = SubSeq(msg, 1, n + 1)
<1>1. PICK q \in 1 .. Len(str) :
        /\ IsPicture(q)
        /\ shown' = shown \o Text(j, i) \o <<[from |-> i, to |-> q + 1, id |-> IdUpTo(q)]>>
        /\ j' = Behind(q) /\ i' = q + 1
  BY DEF Picture
<1>2. i <= Len(str) /\ UNCHANGED <<msg, str>>
  BY DEF Picture
<1>3. msg \in Seq(Piece) /\ n \in Nat /\ n < Len(msg) /\ msg[n + 1] \in Piece
  BY DEF StandsHere
<1>4. msg[n + 1] \notin Char
  <2>1. n + 1 \in 1 .. Len(msg)
    BY <1>3
  <2>2. msg[n + 1] # Hash
    BY <2>1
  <2> QED
    BY <1>1, <2>2, CharHere
<1>5. q + 1 = p[n + 1] /\ emotion_list[IdUpTo(q)] = msg[n + 1]
  BY <1>1, <1>4, CodeHere
<1> DEFINE x == [from |-> i, to |-> q + 1, id |-> IdUpTo(q)]
           s == shown \o Text(j, i)
           c == SubSeq(str, j, i - 1)
<1>6. x \in Part /\ x.id # NoPicture /\ x.id = IdUpTo(q)
  <2>1. i \in 1 .. Len(str) /\ q + 1 \in 2 .. Len(str) + 1 /\ Len(str) \in Nat
    BY <1>2 DEF ScanTyped
  <2>2. IdUpTo(q) \in DOMAIN emotion_list
    BY <1>1 DEF IsPicture
  <2>3. IdUpTo(q) # NoPicture
    <3>1. IdUpTo(q) \in 0 .. 95
      BY <2>2 DEF emotion_list, NumEmotions
    <3>2. \A id \in 0 .. 95 : id # NoPicture
      BY DEF NoPicture
    <3> QED
      BY <3>1, <3>2
  <2> QED
    BY <2>1, <2>2, <2>3 DEF Part
<1>7. /\ s \in Seq(Part) /\ Read \in Seq(Piece) /\ c \in Seq(Piece)
      /\ ReadOf(s) = Read \o c
  <2>1. j \in 1 .. Len(str) + 1 /\ i \in j .. Len(str) + 1 /\ str \in Seq(Char) /\ shown \in Seq(Part)
    BY DEF ScanTyped
  <2>2. /\ s \in Seq(Part) /\ ReadOf(shown) \in Seq(Piece) /\ c \in Seq(Piece)
        /\ ReadOf(s) = ReadOf(shown) \o c
    BY <2>1, TextIsRead
  <2> QED
    BY <2>2, ReadTyped
<1> HIDE DEF x, s, c
<1>8. /\ ReadOf(s \o <<x>>) = ReadOf(s) \o Says(x)
  BY <1>6, <1>7, ReadGrows DEF ScanTyped
<1>9. Says(x) = <<msg[n + 1]>>
  BY <1>5, <1>6 DEF Says
<1>10. Read' = ReadOf(s \o <<x>>)
  <2>1. shown' = s \o <<x>>
    BY <1>1 DEF s, x
  <2> QED
    BY <1>2, <2>1 DEF Read, ReadOf, Says
<1>11. Read' = Seen \o <<msg[n + 1]>>
  BY <1>7, <1>8, <1>9, <1>10 DEF Seen, c
<1>12. Seen' = Read'
  <2>1. SubSeq(str, q + 1, (q + 1) - 1) = <<>>
    BY SubSeqEmpty
  <2>2. Seen' = Read' \o <<>>
    BY <1>1, <1>2, <2>1 DEF Seen, Behind
  <2>3. Seen \o <<msg[n + 1]>> \in Seq(Piece)
    BY <1>3, OneMore
  <2> QED
    BY <1>11, <2>2, <2>3, ConcatEmptySeq
<1> QED
  BY <1>1, <1>3, <1>5, <1>11, <1>12, OneMore

\* What is left is shown as text, and the window shows the message.
LEMMA EndsRead ==
  ASSUME ScanTyped, ScanEnds, NEW p, Stand(str, p, Len(msg)), NEW n \in 0 .. Len(msg),
         i = p[n], Seen = SubSeq(msg, 1, n), msg \in Seq(Piece)
  PROVE  Read' = msg
<1>1. i > Len(str) /\ shown' = shown \o Text(j, Len(str) + 1) /\ UNCHANGED str
  BY DEF ScanEnds
<1>2. str \in Seq(Char) /\ shown \in Seq(Part) /\ Len(str) \in Nat
  BY ReadTyped DEF ScanTyped
<1>3. i = Len(str) + 1
  <2>1. i \in 1 .. Len(str) + 1
    BY DEF ScanTyped
  <2> QED
    BY <1>1, <1>2, <2>1
<1>4. n = Len(msg)
  <2>1. p[n] = Len(str) + 1 => n = Len(msg)
    BY <1>2, StandsAt
  <2> QED
    BY <1>3, <2>1
<1>5. Seen = msg
  BY <1>4, SubSeqFull
<1>6. Read' = Read \o SubSeq(str, j, (Len(str) + 1) - 1)
  <2>1. j \in 1 .. Len(str) + 1 /\ Len(str) + 1 \in j .. Len(str) + 1
    BY <1>2, <1>3 DEF ScanTyped
  <2>2. ReadOf(shown \o Text(j, Len(str) + 1)) = ReadOf(shown) \o SubSeq(str, j, (Len(str) + 1) - 1)
    BY <1>2, <2>1, TextIsRead
  <2>3. Read' = ReadOf(shown \o Text(j, Len(str) + 1))
    BY <1>1 DEF Read, ReadOf, Says
  <2> QED
    BY <2>2, <2>3, ReadTyped
<1> QED
  BY <1>3, <1>5, <1>6 DEF Seen

\* The scan begins with nothing seen, at the first piece.
LEMMA BeforeScan ==
  ASSUME TypeOK, Fresh, WindowInv, ReplaceEnds PROVE WindowInv'
<1> SUFFICES ASSUME ~Contains(msg, Hash)
             PROVE  \E p : /\ Stand(str, p, Len(msg))
                           /\ \E n \in 0 .. Len(msg) : i = p[n] /\ Seen' = SubSeq(msg, 1, n)
  <2>1. pc' = "scan" /\ UNCHANGED <<msg, str, i>>
    BY DEF ReplaceEnds
  <2>2. Contains(msg, Hash)' <=> Contains(msg, Hash)
    BY <2>1 DEF Contains
  <2>3. \A p : Stand(str, p, Len(msg))' <=> Stand(str, p, Len(msg))
    BY <2>1 DEF Stand
  <2>4. pc' # "replace" /\ pc' # "done"
    BY <2>1
  <2> QED
    BY <2>1, <2>2, <2>3, <2>4 DEF WindowInv
<1>1. /\ pc = "replace" /\ k > Len(msg) /\ UNCHANGED <<msg, str, i, j, shown>>
      /\ i = 1 /\ j = 1 /\ shown = <<>> /\ Len(msg) \in Nat /\ k \in 1 .. Len(msg) + 1
  BY MessagesAssumption DEF ReplaceEnds, Fresh, TypeOK
<1>2. k - 1 = Len(msg)
  BY <1>1
<1>3. PICK p : Stand(str, p, Len(msg))
  BY <1>1, <1>2 DEF WindowInv
<1>4. i = p[0] /\ 0 \in 0 .. Len(msg)
  BY <1>1, <1>3 DEF Stand
<1>5. Seen' = SubSeq(msg, 1, 0)
  <2>1. Seen' = Seen
    BY <1>1 DEF Seen, Read
  <2>2. SubSeq(str, 1, 1 - 1) = <<>> /\ SubSeq(msg, 1, 0) = <<>>
    BY SubSeqEmpty
  <2>3. Read = <<>>
    <3>1. FlattenSeq(<<>>) = <<>>
      BY DEF FlattenSeq
    <3>2. [n \in DOMAIN shown |-> Says(shown[n])] = <<>>
      BY <1>1
    <3> QED
      BY <3>1, <3>2 DEF Read, Says
  <2> QED
    BY <1>1, <2>1, <2>2, <2>3 DEF Seen
<1> QED
  BY <1>3, <1>4, <1>5

\* Every step of the loops keeps the invariant.
LEMMA WindowKeeps ==
  ASSUME IInv, WindowInv, [Next]_vars PROVE WindowInv'
<1>1. CASE ReplaceEnds
  BY <1>1, BeforeScan DEF IInv
<1>2. CASE UNCHANGED vars
  <2>1. UNCHANGED <<msg, str, i, j, shown, pc, k>>
    BY <1>2 DEF vars
  <2>2. (Contains(msg, Hash)' <=> Contains(msg, Hash)) /\ Read' = Read /\ Seen' = Seen
    BY <2>1 DEF Contains, Read, Seen
  <2>3. \A p, n : Stand(str, p, n)' <=> Stand(str, p, n)
    BY <2>1 DEF Stand
  <2> QED
    BY <2>1, <2>2, <2>3 DEF WindowInv
<1> SUFFICES ASSUME Replace \/ Picture \/ Plain \/ ScanEnds, ~Contains(msg, Hash) PROVE WindowInv'
  <2>1. Next => UNCHANGED msg
    BY DEF Next, Replace, ReplaceEnds, Picture, Plain, ScanEnds
  <2>2. ~Next \/ Replace \/ Picture \/ Plain \/ ScanEnds \/ ReplaceEnds
    BY DEF Next
  <2> QED
    BY <1>1, <1>2, <2>1, <2>2 DEF WindowInv
<1>3. msg \in Seq(Piece) /\ Len(msg) \in Nat /\ (\A m \in 1 .. Len(msg) : msg[m] # Hash)
  BY MessagesAssumption DEF IInv, TypeOK, Contains
<1>4. ScanTyped
  BY <1>3 DEF IInv, TypeOK, ScanTyped
<1>5. CASE Replace
  <2>1. /\ pc = "replace" /\ pc' = pc /\ k <= Len(msg) /\ k' = k + 1 /\ msg' = msg
        /\ str' = str \o Replaced(msg[k])
    BY <1>5 DEF Replace
  <2>2. PICK n \in Nat : n = k - 1 /\ n + 1 = k /\ n < Len(msg)
    <3>1. k \in 1 .. Len(msg)
      BY <1>3, <2>1 DEF IInv, TypeOK
    <3>2. k - 1 \in Nat /\ (k - 1) + 1 = k /\ k - 1 < Len(msg)
      BY <1>3, <3>1
    <3> QED
      BY <3>2
  <2>3. PICK p : Stand(str, p, n)
    BY <2>1, <2>2 DEF WindowInv
  <2>4. PICK p2 : Stand(str \o Replaced(msg[k]), p2, k)
    <3>1. str \in Seq(Char)
      BY <1>4 DEF ScanTyped
    <3>2. \E p2 : Stand(str \o Replaced(msg[n + 1]), p2, n + 1)
      BY <1>3, <2>2, <2>3, <3>1, StandGrows
    <3> QED
      BY <2>2, <3>2
  <2>5. Stand(str, p2, k - 1)'
    <3>1. Stand(str', p2, k)
      BY <2>1, <2>4
    <3>2. k' - 1 = k
      BY <2>1, <2>2
    <3> QED
      BY <2>1, <3>1, <3>2 DEF Stand
  <2> QED
    BY <2>1, <2>5 DEF WindowInv
<1>6. ASSUME pc = "scan"
      PROVE  \E p, n : /\ Stand(str, p, Len(msg)) /\ n \in 0 .. Len(msg)
                       /\ i = p[n] /\ Seen = SubSeq(msg, 1, n)
  BY <1>6 DEF WindowInv
<1>7. CASE ScanEnds
  <2>1. pc = "scan" /\ pc' = "done" /\ msg' = msg
    BY <1>7 DEF ScanEnds
  <2>2. PICK p, n : /\ Stand(str, p, Len(msg)) /\ n \in 0 .. Len(msg)
                    /\ i = p[n] /\ Seen = SubSeq(msg, 1, n)
    BY <1>6, <2>1
  <2>3. Read' = msg
    BY <1>3, <1>4, <1>7, <2>2, EndsRead
  <2> QED
    BY <2>1, <2>3 DEF WindowInv
<1>8. CASE Picture \/ Plain
  <2>1. /\ pc = "scan" /\ pc' = pc /\ msg' = msg /\ str' = str /\ i <= Len(str)
    BY <1>8 DEF Picture, Plain
  <2>2. PICK p, n : /\ Stand(str, p, Len(msg)) /\ n \in 0 .. Len(msg)
                    /\ i = p[n] /\ Seen = SubSeq(msg, 1, n)
    BY <1>6, <2>1
  <2>3. n < Len(msg)
    <3>1. Len(str) = p[Len(msg)] - 1 /\ p[Len(msg)] \in Nat \ {0}
      BY <1>3, <2>2 DEF Stand
    <3>2. n # Len(msg)
      BY <2>1, <2>2, <3>1
    <3> QED
      BY <1>3, <2>2, <3>2
  <2>4. StandsHere(p, n)
    BY <1>3, <1>4, <2>2, <2>3 DEF StandsHere, ScanTyped
  <2>5. i' = p[n + 1] /\ Seen' = SubSeq(msg, 1, n + 1)
    <3>1. CASE Picture
      BY <1>3, <1>4, <2>2, <2>4, <3>1, PictureReads
    <3>2. CASE Plain
      BY <1>3, <1>4, <2>2, <2>4, <3>2, PlainReads
    <3> QED
      BY <1>8, <3>1, <3>2
  <2>6. n + 1 \in 0 .. Len(msg)
    BY <1>3, <2>2, <2>3
  <2>7. Stand(str, p, Len(msg))'
    BY <2>1, <2>2 DEF Stand
  <2>8. \E m \in 0 .. Len(msg) : i' = p[m] /\ Seen' = SubSeq(msg, 1, m)
    BY <2>5, <2>6
  <2> QED
    BY <2>1, <2>7, <2>8 DEF WindowInv
<1> QED
  BY <1>5, <1>7, <1>8

(* With the message, the invariant of the loop.                             *)
THEOREM WindowShows == Spec => [](IInv /\ WindowInv)
<1>1. Init => IInv /\ WindowInv
  <2> SUFFICES ASSUME Init PROVE IInv /\ WindowInv
    OBVIOUS
  <2>1. IInv
    BY StartKeeps
  <2>2. Stand(<<>>, [m \in 0 .. 0 |-> 1], 0)
    BY DEF Stand
  <2>3. pc = "replace" /\ str = <<>> /\ k - 1 = 0
    BY DEF Init
  <2> QED
    BY <2>1, <2>2, <2>3 DEF WindowInv
<1>2. (IInv /\ WindowInv) /\ [Next]_vars => (IInv /\ WindowInv)'
  BY StepKeeps, WindowKeeps
<1> QED
  BY <1>1, <1>2, PTL DEF Spec

(* A group text is shown by the same loop: the way of a text does what the  *)
(* window alone may do.                                                     *)
THEOREM GroupImplementsWindow == GroupSpec => Spec
<1>1. GroupInit => Init
  BY DEF GroupInit
<1>2. [GroupNext]_groupVars => [Next]_vars
  BY DEF GroupNext, Way, Show, groupVars
<1> QED
  BY <1>1, <1>2, PTL DEF GroupSpec, Spec

(* A text of any length in which the sender wrote no '#' is shown to the    *)
(* receiver as it was typed: insert_msg_with_emotion_to_textview finds each *)
(* code where replace_emotion has put it, and none that was not sent.       *)
THEOREM ShownAsWritten == GroupSpec => []AsWritten
<1>1. IInv /\ WindowInv => AsWritten
  BY DEF WindowInv, AsWritten
<1> QED
  BY <1>1, GroupImplementsWindow, WindowShows, PTL

-----------------------------------------------------------------------------
(* The chaining.  All that is said of a text is said of the spans of it     *)
(* that a loop goes forward by.                                             *)
Starts(width) == {n * width : n \in Nat}

Slice(s, width, a) == [x \in 1 .. width |-> s[a + x]]

SizesInv ==
  /\ span \in {BF_BLKSIZE, 2 * BF_BLKSIZE}
  /\ stage \in {"encrypt", "decrypt", "done"}
  /\ text \in Seq(Byte \ {0})
  /\ size = Cipher!GetOutputLength(Len(text))
  /\ lCount \in Starts(BF_BLKSIZE) /\ lCount <= size
  /\ memory \in Seq(Byte) /\ Len(memory) = 2 * size + 1
  /\ IV \in [1 .. BF_BLKSIZE -> Byte]
  /\ Cipher!StaysInBuffer

\* What the span at a was chained to when it was enciphered.
Previous(s, width, a) ==
  IF a = 0 THEN Cipher!Zeros ELSE Slice(s, BF_BLKSIZE, a - width)

Whole(a) == a \in Starts(span) /\ a + span <= size

(* Each span that Encrypt is past deciphers to what was typed, the others   *)
(* are what was typed.                                                      *)
EncryptInv ==
  stage = "encrypt" =>
    /\ IV = Previous(memory, span, Cipher!At)
    /\ \A a \in Nat : Whole(a) =>
         IF a < Cipher!At
         THEN Cipher!Chained(Decipher(Slice(memory, span, a)), Previous(memory, span, a))
                = Slice(Cipher!Padded(text), span, a)
         ELSE Slice(memory, span, a) = Slice(Cipher!Padded(text), span, a)

(* The other way round; IV keeps what the span before the next one was.     *)
DecryptInv ==
  stage = "decrypt" =>
    \A a \in Nat : Whole(a) =>
      IF a < Cipher!At
      THEN Slice(memory, span, a) = Slice(Cipher!Padded(text), span, a)
      ELSE Cipher!Chained(Decipher(Slice(memory, span, a)),
                          IF a = Cipher!At THEN IV ELSE Previous(memory, span, a))
             = Slice(Cipher!Padded(text), span, a)

CipherInv == SizesInv /\ EncryptInv /\ DecryptInv /\ Cipher!TextSurvives

-----------------------------------------------------------------------------
LEMMA Multiply ==
  ASSUME NEW m \in Nat, NEW n \in Nat, NEW w \in Nat
  PROVE  /\ m * w \in Nat
         /\ (m + 1) * w = m * w + w
         /\ m <= n => m * w <= n * w
<1>1. m * w \in Nat /\ (m + 1) * w = m * w + w
  OBVIOUS
<1>2. ASSUME m <= n PROVE m * w <= n * w
  <2> DEFINE d == n - m
  <2>1. d \in Nat /\ n = m + d
    BY <1>2
  <2> HIDE DEF d
  <2>2. n * w = m * w + d * w /\ d * w \in Nat
    BY <2>1
  <2> QED  BY <1>1, <2>1, <2>2
<1> QED  BY <1>1, <1>2

LEMMA Divide ==
  ASSUME NEW n \in Nat, NEW w \in Nat \ {0}
  PROVE  n \div w \in Nat /\ n % w \in Nat /\ n = (n \div w) * w + (n % w)
<1>1. n \div w \in Nat /\ n % w \in Nat
  OBVIOUS
<1>2. n = (n \div w) * w + (n % w)
  OBVIOUS
<1> QED  BY <1>1, <1>2

\* Spans do not overlap.
LEMMA Apart ==
  ASSUME NEW w \in Nat \ {0}, NEW a \in Starts(w), NEW b \in Starts(w)
  PROVE  /\ a \in Nat
         /\ a + w \in Starts(w)
         /\ a < b => a + w <= b
         /\ a # 0 => a - w \in Starts(w)
<1>1. PICK m \in Nat : a = m * w
  BY DEF Starts
<1>2. PICK n \in Nat : b = n * w
  BY DEF Starts
<1>3. a \in Nat /\ b \in Nat
  BY <1>1, <1>2, Multiply
<1>4. a + w = (m + 1) * w
  BY <1>1, Multiply
<1>5. a + w \in Starts(w)
  <2>1. m + 1 \in Nat
    OBVIOUS
  <2> QED  BY <1>4, <2>1 DEF Starts
<1>6. ASSUME a < b PROVE a + w <= b
  <2>1. ~(n <= m)
    BY <1>1, <1>2, <1>3, <1>6, Multiply
  <2>2. m + 1 <= n
    BY <2>1
  <2> QED  BY <1>2, <1>4, <2>2, Multiply
<1>7. ASSUME a # 0 PROVE a - w \in Starts(w)
  <2>1. m # 0
    BY <1>1, <1>7
  <2>2. m - 1 \in Nat /\ (m - 1) + 1 = m
    BY <2>1
  <2>3. m * w = (m - 1) * w + w /\ (m - 1) * w \in Nat
    BY <2>2, Multiply
  <2>4. a - w = (m - 1) * w
    BY <1>1, <2>3
  <2> QED  BY <2>2, <2>4 DEF Starts
<1> QED  BY <1>3, <1>5, <1>6, <1>7

\* The size is a number of blocks, and padding is one to BF_BLKSIZE bytes.
LEMMA OutputLength ==
  ASSUME NEW L \in Nat
  PROVE  /\ Cipher!GetOutputLength(L) \in Starts(BF_BLKSIZE)
         /\ Cipher!GetOutputLength(L) \in Nat
         /\ Cipher!GetOutputLength(L) - L \in 1 .. BF_BLKSIZE
<1> DEFINE K == (L + BF_BLKSIZE) \div BF_BLKSIZE
<1>1. BF_BLKSIZE \in Nat \ {0}
  BY BytesAssumption
<1>2. Cipher!GetOutputLength(L) = K * BF_BLKSIZE
  BY DEF Cipher!GetOutputLength
<1>3. K \in Nat
  BY <1>1
<1>4. K * BF_BLKSIZE <= L + BF_BLKSIZE /\ L + BF_BLKSIZE < K * BF_BLKSIZE + BF_BLKSIZE
  BY <1>1
<1> HIDE DEF K
<1>5. K * BF_BLKSIZE \in Nat
  BY <1>1, <1>3, Multiply
<1> QED  BY <1>1, <1>2, <1>3, <1>4, <1>5 DEF Starts

LEMMA SizeLemma ==
  ASSUME SizesInv
  PROVE  /\ size \in Starts(BF_BLKSIZE) /\ size \in Nat
         /\ size - Len(text) \in 1 .. BF_BLKSIZE
<1>1. Len(text) \in Nat
  BY DEF SizesInv
<1> QED  BY <1>1, OutputLength DEF SizesInv

\* Where the loops are.
LEMMA Positions ==
  ASSUME SizesInv
  PROVE  /\ Cipher!At \in Starts(span)
         /\ lCount = 0 => Cipher!At = 0
         /\ ((lCount + BF_BLKSIZE) \div BF_BLKSIZE) * span = Cipher!At + span
         /\ lCount + BF_BLKSIZE \in Starts(BF_BLKSIZE)
         /\ lCount < size => lCount + BF_BLKSIZE <= size
         /\ lCount < size => Cipher!At + span <= Len(memory)
         /\ lCount < size /\ span = BF_BLKSIZE => Cipher!At + span <= size
         /\ lCount = size => \A a \in Nat : Whole(a) => a < Cipher!At
<1> DEFINE B == BF_BLKSIZE
<1>1. B \in Nat \ {0} /\ span \in Nat \ {0}
  BY BytesAssumption DEF SizesInv
<1>2. PICK m \in Nat : lCount = m * B
  BY DEF SizesInv, Starts
<1>3. lCount \div B = m /\ (lCount + B) \div B = m + 1
  <2>1. m * B \in Nat /\ (m + 1) * B = lCount + B
    BY <1>1, <1>2, Multiply
  <2>2. (m * B) \div B = m /\ ((m + 1) * B) \div B = m + 1
    BY <1>1
  <2> QED  BY <1>2, <2>1, <2>2
<1>4. Cipher!At = m * span
  BY <1>3 DEF Cipher!At
<1>5. Cipher!At \in Starts(span) /\ (lCount = 0 => Cipher!At = 0)
  <2>1. lCount = 0 => m = 0
    BY <1>1, <1>2
  <2> QED  BY <1>1, <1>4, <2>1 DEF Starts
<1>6. ((lCount + B) \div B) * span = Cipher!At + span
  BY <1>1, <1>3, <1>4, Multiply
<1>7. lCount + B \in Starts(B)
  BY <1>1, Apart DEF SizesInv
<1>8. lCount < size => lCount + B <= size
  BY <1>1, SizeLemma, Apart DEF SizesInv
<1>9. lCount \in Nat /\ size \in Nat
  BY <1>1, <1>2, SizeLemma, Multiply
<1>10. CASE span = B
  <2>1. Cipher!At = lCount
    BY <1>2, <1>4, <1>10
  <2> QED
    BY <1>1, <1>5, <1>6, <1>7, <1>8, <1>9, <1>10, <2>1 DEF SizesInv, Whole
<1>11. CASE span = 2 * B
  <2>1. Cipher!At = 2 * lCount
    BY <1>1, <1>2, <1>4, <1>11
  <2>2. lCount < size => Cipher!At + span <= Len(memory)
    BY <1>1, <1>8, <1>9, <1>11, <2>1 DEF SizesInv
  <2>3. lCount = size => \A a \in Nat : Whole(a) => a < Cipher!At
    BY <1>1, <1>9, <2>1 DEF Whole
  <2>4. span # BF_BLKSIZE
    BY <1>1, <1>11
  <2> QED  BY <1>5, <1>6, <1>7, <1>8, <2>2, <2>3, <2>4
<1> QED  BY <1>10, <1>11 DEF SizesInv

\* The byte at x, before what is left over of a span, is in a whole one.
LEMMA InWhole ==
  ASSUME SizesInv, NEW x \in 1 .. size - (size % span)
  PROVE  \E a \in Nat : Whole(a) /\ x - a \in 1 .. span
<1>1. span \in Nat \ {0} /\ size \in Nat
  BY BytesAssumption, SizeLemma DEF SizesInv
<1> DEFINE a == ((x - 1) \div span) * span
<1> DEFINE b == (size \div span) * span
<1>2. size - (size % span) = b /\ b <= size
  BY <1>1
<1>3. x \in Nat /\ x >= 1
  BY <1>1
<1>4. (x - 1) \div span \in Nat /\ size \div span \in Nat
  BY <1>1, <1>3
<1>5. a \in Starts(span) /\ b \in Starts(span)
  BY <1>4 DEF Starts
<1>6. a <= x - 1 /\ x - 1 < a + span
  BY <1>1, <1>3
<1> HIDE DEF a, b
<1>7. a \in Nat /\ b \in Nat
  BY <1>1, <1>5, Apart
<1>8. a < b
  BY <1>2, <1>3, <1>6, <1>7
<1>9. a + span <= b
  BY <1>1, <1>5, <1>8, Apart
<1>10. Whole(a)
  BY <1>1, <1>2, <1>5, <1>7, <1>9 DEF Whole
<1>11. x - a \in 1 .. span
  BY <1>1, <1>3, <1>6, <1>7
<1> QED  BY <1>7, <1>10, <1>11

\* Chaining a block to the same one twice leaves it as it was.
LEMMA ChainTwice ==
  ASSUME SizesInv, NEW block \in [1 .. span -> Byte], NEW iv \in [1 .. BF_BLKSIZE -> Byte]
  PROVE  /\ Cipher!Chained(block, iv) \in [1 .. span -> Byte]
         /\ Cipher!Chained(Cipher!Chained(block, iv), iv) = block
<1> DEFINE once == Cipher!Chained(block, iv)
<1>1. once = [x \in 1 .. span |-> IF x \in 1 .. BF_BLKSIZE THEN Xor(block[x], iv[x]) ELSE block[x]]
  BY DEF Cipher!Chained
<1>2. once \in [1 .. span -> Byte]
  BY <1>1, BytesAssumption
<1> HIDE DEF once
<1>3. Cipher!Chained(once, iv)
        = [x \in 1 .. span |-> IF x \in 1 .. BF_BLKSIZE THEN Xor(once[x], iv[x]) ELSE once[x]]
  BY <1>2 DEF Cipher!Chained
<1>4. ASSUME NEW x \in 1 .. span
      PROVE  (IF x \in 1 .. BF_BLKSIZE THEN Xor(once[x], iv[x]) ELSE once[x]) = block[x]
  <2>1. CASE x \in 1 .. BF_BLKSIZE
    <3>1. once[x] = Xor(block[x], iv[x])
      BY <1>1, <2>1
    <3>2. block[x] \in Byte /\ iv[x] \in Byte
      BY <2>1
    <3> QED  BY <2>1, <3>1, <3>2, BytesAssumption
  <2>2. CASE x \notin 1 .. BF_BLKSIZE
    BY <1>1, <2>2
  <2> QED  BY <2>1, <2>2
<1>5. Cipher!Chained(once, iv) = block
  BY <1>3, <1>4
<1> QED  BY <1>2, <1>5 DEF once

\* What the loops read and write.
LEMMA Slices ==
  ASSUME SizesInv, NEW a \in Nat, a + span <= Len(memory)
  PROVE  /\ Slice(memory, span, a) \in [1 .. span -> Byte]
         /\ Slice(memory, BF_BLKSIZE, a) \in [1 .. BF_BLKSIZE -> Byte]
<1>1. BF_BLKSIZE \in Nat \ {0} /\ span \in Nat /\ BF_BLKSIZE <= span
  BY BytesAssumption DEF SizesInv
<1>2. \A x \in 1 .. span : memory[a + x] \in Byte
  BY <1>1 DEF SizesInv
<1> QED  BY <1>1, <1>2 DEF Slice

LEMMA FirstLemma ==
  ASSUME SizesInv, NEW block \in [1 .. span -> Byte]
  PROVE  /\ Cipher!First(block) = [x \in 1 .. BF_BLKSIZE |-> block[x]]
         /\ Cipher!First(block) \in [1 .. BF_BLKSIZE -> Byte]
<1>1. BF_BLKSIZE \in Nat \ {0} /\ span \in Nat \ {0} /\ BF_BLKSIZE <= span
  BY BytesAssumption DEF SizesInv
<1>2. block \in Seq(Byte) /\ Len(block) = span
  <2>1. block = [x \in 1 .. span |-> block[x]] /\ \A x \in 1 .. span : block[x] \in Byte
    OBVIOUS
  <2> QED  BY <1>1, <2>1
<1>3. SubSeq(block, 1, BF_BLKSIZE) = [x \in 1 .. BF_BLKSIZE |-> block[x]]
  BY <1>1, <1>2
<1>4. \A x \in 1 .. BF_BLKSIZE : block[x] \in Byte
  BY <1>1
<1> QED  BY <1>3, <1>4 DEF Cipher!First

LEMMA BlockLemma ==
  ASSUME SizesInv, lCount < size
  PROVE  /\ Cipher!Block = Slice(memory, span, Cipher!At)
         /\ Cipher!Block \in [1 .. span -> Byte]
         /\ Cipher!First(Cipher!Block) = Slice(memory, BF_BLKSIZE, Cipher!At)
<1>1. BF_BLKSIZE \in Nat \ {0} /\ span \in Nat \ {0} /\ BF_BLKSIZE <= span
  BY BytesAssumption DEF SizesInv
<1> DEFINE at == Cipher!At
<1>2. at \in Nat /\ at + span <= Len(memory)
  BY <1>1, Positions, Apart
<1>3. memory \in Seq(Byte) /\ Len(memory) \in Nat
  BY DEF SizesInv
<1>4. Cipher!Block = SubSeq(memory, at + 1, at + span)
  BY DEF Cipher!Block
<1>5. Slice(memory, span, at) \in [1 .. span -> Byte]
  BY <1>2, Slices
<1> HIDE DEF at
<1>6. SubSeq(memory, at + 1, at + span) = [x \in 1 .. span |-> memory[at + x]]
  <2>1. SubSeq(memory, at + 1, at + span)
          = [x \in 1 .. (at + span) - (at + 1) + 1 |-> memory[x + (at + 1) - 1]]
    BY <1>1, <1>2, <1>3
  <2>2. (at + span) - (at + 1) + 1 = span /\ \A x \in 1 .. span : x + (at + 1) - 1 = at + x
    BY <1>1, <1>2
  <2> QED  BY <2>1, <2>2
<1>7. Cipher!Block = Slice(memory, span, at)
  BY <1>4, <1>6 DEF Slice
<1>8. \A x \in 1 .. BF_BLKSIZE : Cipher!Block[x] = memory[at + x]
  BY <1>1, <1>7 DEF Slice
<1>9. Cipher!First(Cipher!Block) = Slice(memory, BF_BLKSIZE, at)
  BY <1>5, <1>7, <1>8, FirstLemma DEF Slice
<1> QED  BY <1>5, <1>7, <1>9 DEF at

LEMMA PaddedLemma ==
  ASSUME NEW s \in Seq(Byte), NEW n \in 1 .. BF_BLKSIZE,
         Cipher!GetOutputLength(Len(s)) = Len(s) + n
  PROVE  /\ Cipher!Padded(s) \in Seq(Byte)
         /\ Len(Cipher!Padded(s)) = Len(s) + n
         /\ \A x \in 1 .. Len(s) : Cipher!Padded(s)[x] = s[x]
         /\ \A x \in Len(s) + 1 .. Len(s) + n : Cipher!Padded(s)[x] = n
<1> DEFINE pad == [x \in 1 .. n |-> n]
<1>1. BF_BLKSIZE \in Nat /\ n \in Byte /\ n \in Nat /\ Len(s) \in Nat
  BY BytesAssumption
<1>2. pad \in Seq(Byte) /\ Len(pad) = n /\ \A x \in 1 .. n : pad[x] = n
  BY <1>1
<1>3. Cipher!Padded(s) = s \o pad
  BY <1>1 DEF Cipher!Padded
<1> HIDE DEF pad
<1>4. s \o pad \in Seq(Byte) /\ Len(s \o pad) = Len(s) + n
  BY <1>2
<1>5. \A x \in 1 .. Len(s) : (s \o pad)[x] = s[x]
  BY <1>1, <1>2
<1>6. ASSUME NEW x \in Len(s) + 1 .. Len(s) + n PROVE (s \o pad)[x] = n
  <2>1. x - Len(s) \in 1 .. n
    BY <1>1
  <2>2. (s \o pad)[x] = pad[x - Len(s)]
    BY <1>1, <1>2, <2>1
  <2> QED  BY <1>2, <2>1, <2>2
<1> QED  BY <1>3, <1>4, <1>5, <1>6

LEMMA BehindLemma ==
  ASSUME NEW s \in Seq(Byte), NEW n \in Nat, NEW byte \in Byte
  PROVE  /\ Cipher!Behind(s, n, byte) \in Seq(Byte)
         /\ Len(Cipher!Behind(s, n, byte)) = Len(s) + n
         /\ \A x \in 1 .. Len(s) : Cipher!Behind(s, n, byte)[x] = s[x]
<1> DEFINE rest == [x \in 1 .. n |-> byte]
<1>1. rest \in Seq(Byte) /\ Len(rest) = n
  OBVIOUS
<1>2. Cipher!Behind(s, n, byte) = s \o rest
  BY DEF Cipher!Behind
<1> HIDE DEF rest
<1>3. s \o rest \in Seq(Byte) /\ Len(s \o rest) = Len(s) + n
  BY <1>1
<1>4. \A x \in 1 .. Len(s) : (s \o rest)[x] = s[x]
  BY <1>1
<1> QED  BY <1>2, <1>3, <1>4

LEMMA PutLemma ==
  ASSUME SizesInv, lCount < size, NEW block \in [1 .. span -> Byte], Cipher!Put(block)
  PROVE  /\ memory' \in Seq(Byte) /\ Len(memory') = Len(memory)
         /\ Slice(memory', span, Cipher!At) = block
         /\ \A a \in Starts(span) : a # Cipher!At /\ a + span <= Len(memory) =>
              /\ Slice(memory', span, a) = Slice(memory, span, a)
              /\ Slice(memory', BF_BLKSIZE, a) = Slice(memory, BF_BLKSIZE, a)
<1> DEFINE at == Cipher!At
<1>1. BF_BLKSIZE \in Nat \ {0} /\ span \in Nat \ {0} /\ BF_BLKSIZE <= span
  BY BytesAssumption DEF SizesInv
<1>2. at \in Starts(span) /\ at \in Nat /\ at + span <= Len(memory)
  BY <1>1, Positions, Apart
<1>3. memory \in Seq(Byte) /\ Len(memory) \in Nat /\ DOMAIN memory = 1 .. Len(memory)
  BY DEF SizesInv
<1>4. memory' = [x \in 1 .. Len(memory) |->
                   IF x \in at + 1 .. at + span THEN block[x - at] ELSE memory[x]]
  BY <1>3 DEF Cipher!Put
<1> HIDE DEF at
<1>5. memory' \in Seq(Byte) /\ Len(memory') = Len(memory)
  <2>1. \A x \in 1 .. Len(memory) :
          (IF x \in at + 1 .. at + span THEN block[x - at] ELSE memory[x]) \in Byte
    <3> SUFFICES ASSUME NEW x \in 1 .. Len(memory)
                 PROVE  (IF x \in at + 1 .. at + span THEN block[x - at] ELSE memory[x]) \in Byte
      OBVIOUS
    <3>1. CASE x \in at + 1 .. at + span
      <4>1. x - at \in 1 .. span
        BY <1>1, <1>2, <3>1
      <4> QED  BY <3>1, <4>1
    <3>2. CASE x \notin at + 1 .. at + span
      BY <1>3, <3>2
    <3> QED  BY <3>1, <3>2
  <2> QED  BY <1>3, <1>4, <2>1
<1>6. Slice(memory', span, at) = block
  <2>1. \A x \in 1 .. span : memory'[at + x] = block[x]
    <3> SUFFICES ASSUME NEW x \in 1 .. span PROVE memory'[at + x] = block[x]
      OBVIOUS
    <3>1. at + x \in 1 .. Len(memory) /\ at + x \in at + 1 .. at + span /\ (at + x) - at = x
      BY <1>1, <1>2, <1>3
    <3> QED  BY <1>4, <3>1
  <2> QED  BY <2>1 DEF Slice
<1>7. ASSUME NEW a \in Starts(span), a # at, a + span <= Len(memory)
      PROVE  /\ Slice(memory', span, a) = Slice(memory, span, a)
             /\ Slice(memory', BF_BLKSIZE, a) = Slice(memory, BF_BLKSIZE, a)
  <2>1. a \in Nat /\ (a + span <= at \/ at + span <= a)
    BY <1>1, <1>2, <1>7, Apart
  <2>2. \A x \in 1 .. span : memory'[a + x] = memory[a + x]
    <3> SUFFICES ASSUME NEW x \in 1 .. span PROVE memory'[a + x] = memory[a + x]
      OBVIOUS
    <3>1. a + x \in 1 .. Len(memory) /\ a + x \notin at + 1 .. at + span
      BY <1>1, <1>2, <1>3, <1>7, <2>1
    <3> QED  BY <1>4, <3>1
  <2>3. \A x \in 1 .. BF_BLKSIZE : x \in 1 .. span
    BY <1>1
  <2> QED  BY <2>2, <2>3 DEF Slice
<1> QED  BY <1>5, <1>6, <1>7 DEF at

\* A span keeps what it was chained to when another one is written.
LEMMA PreviousLemma ==
  ASSUME SizesInv, NEW a \in Starts(span), a + span <= Len(memory)
  PROVE  /\ Previous(memory, span, a) \in [1 .. BF_BLKSIZE -> Byte]
         /\ a # 0 => a - span \in Starts(span) /\ a - span \in Nat /\ (a - span) + span <= Len(memory)
<1>1. BF_BLKSIZE \in Nat \ {0} /\ span \in Nat \ {0} /\ 0 \in Byte /\ Len(memory) \in Nat
  BY BytesAssumption DEF SizesInv
<1>2. a \in Nat /\ (a # 0 => a - span \in Starts(span))
  BY <1>1, Apart
<1>3. a # 0 => a - span \in Nat /\ (a - span) + span <= Len(memory)
  <2>1. a # 0 => a - span \in Nat
    BY <1>1, <1>2, Apart
  <2> QED  BY <1>1, <1>2, <2>1
<1>4. CASE a = 0
  BY <1>1, <1>4 DEF Previous, Cipher!Zeros
<1>5. CASE a # 0
  BY <1>2, <1>3, <1>5, Slices DEF Previous
<1> QED  BY <1>2, <1>3, <1>4, <1>5

LEMMA PreviousKept ==
  ASSUME SizesInv, lCount < size, NEW block \in [1 .. span -> Byte], Cipher!Put(block),
         NEW a \in Starts(span), a + span <= Len(memory), a # Cipher!At + span
  PROVE  Previous(memory', span, a) = Previous(memory, span, a)
<1>1. span \in Nat \ {0} /\ a \in Nat /\ Cipher!At \in Nat
  <2>1. span \in Nat \ {0}
    BY BytesAssumption DEF SizesInv
  <2> QED  BY <2>1, Positions, Apart
<1>2. CASE a = 0
  BY <1>2 DEF Previous
<1>3. CASE a # 0
  <2>1. a - span \in Starts(span) /\ a - span # Cipher!At /\ (a - span) + span <= Len(memory)
    BY <1>1, <1>3, PreviousLemma
  <2>2. Slice(memory', BF_BLKSIZE, a - span) = Slice(memory, BF_BLKSIZE, a - span)
    BY <2>1, PutLemma
  <2> QED  BY <1>3, <2>2 DEF Previous
<1> QED  BY <1>2, <1>3

\* The sizes through a step of either loop.
LEMMA SizesNext ==
  ASSUME SizesInv, Cipher!Forward, NEW block \in [1 .. span -> Byte], Cipher!Put(block),
         IV' \in [1 .. BF_BLKSIZE -> Byte]
  PROVE  SizesInv' /\ Cipher!At' = Cipher!At + span
<1>1. lCount < size /\ UNCHANGED <<span, stage, text, size>> /\ lCount' = lCount + BF_BLKSIZE
  BY DEF Cipher!Forward
<1>2. Cipher!At' = Cipher!At + span
  <2>1. Cipher!At' = ((lCount + BF_BLKSIZE) \div BF_BLKSIZE) * span
    BY <1>1 DEF Cipher!At
  <2> QED  BY <2>1, Positions
<1>3. lCount' \in Starts(BF_BLKSIZE) /\ lCount' <= size
  BY <1>1, Positions
<1>4. memory' \in Seq(Byte) /\ Len(memory') = 2 * size + 1
  BY <1>1, PutLemma DEF SizesInv
<1>5. Cipher!StaysInBuffer'
  <2> SUFFICES ASSUME span = BF_BLKSIZE PROVE reach' <= size
    BY <1>1 DEF Cipher!StaysInBuffer
  <2>1. Cipher!At + span <= size
    BY <1>1, Positions
  <2>2. reach <= size
    BY DEF SizesInv, Cipher!StaysInBuffer
  <2>3. reach' = reach \/ reach' = Cipher!At + span
    BY DEF Cipher!Forward
  <2> QED  BY <2>1, <2>2, <2>3
<1> QED  BY <1>1, <1>2, <1>3, <1>4, <1>5 DEF SizesInv

LEMMA CipherInit == Cipher!Init => CipherInv
<1> SUFFICES ASSUME Cipher!Init PROVE CipherInv
  OBVIOUS
<1>1. BF_BLKSIZE \in Nat \ {0} /\ 0 \in Byte
  BY BytesAssumption
<1>2. text \in Seq(Byte) /\ text \in Seq(Byte \ {0}) /\ Len(text) \in Nat
  BY DEF Cipher!Init
<1>3. size = Cipher!GetOutputLength(Len(text)) /\ lCount = 0 /\ IV = Cipher!Zeros
  BY DEF Cipher!Init
<1>4. size \in Nat /\ size - Len(text) \in 1 .. BF_BLKSIZE
  BY <1>2, <1>3, OutputLength
<1>5. Cipher!Padded(text) \in Seq(Byte) /\ Len(Cipher!Padded(text)) = size
  <2>1. Len(text) + (size - Len(text)) = size
    BY <1>2, <1>4
  <2> QED  BY <1>2, <1>3, <1>4, <2>1, PaddedLemma
<1>6. PICK byte \in Rest : memory = Cipher!Behind(Cipher!Padded(text), size + 1, byte)
  BY DEF Cipher!Init
<1>7. byte \in Byte /\ size + 1 \in Nat
  BY <1>4, BytesAssumption
<1>8. /\ memory \in Seq(Byte) /\ Len(memory) = size + (size + 1)
      /\ \A x \in 1 .. size : memory[x] = Cipher!Padded(text)[x]
  BY <1>5, <1>6, <1>7, BehindLemma
<1>9. SizesInv
  <2>1. 0 = 0 * BF_BLKSIZE
    BY <1>1
  <2>2. lCount \in Starts(BF_BLKSIZE)
    BY <1>3, <2>1 DEF Starts
  <2>3. IV \in [1 .. BF_BLKSIZE -> Byte]
    BY <1>1, <1>3 DEF Cipher!Zeros
  <2>4. Len(memory) = 2 * size + 1 /\ lCount <= size
    BY <1>3, <1>4, <1>8
  <2>5. Cipher!StaysInBuffer
    BY <1>4 DEF Cipher!Init, Cipher!StaysInBuffer
  <2> QED  BY <1>2, <1>3, <1>8, <2>2, <2>3, <2>4, <2>5 DEF Cipher!Init, SizesInv
<1>10. Cipher!At = 0
  BY <1>3, <1>9, Positions
<1>11. EncryptInv
  <2>1. IV = Previous(memory, span, 0)
    BY <1>3 DEF Previous
  <2>2. ASSUME NEW a \in Nat, Whole(a)
        PROVE  Slice(memory, span, a) = Slice(Cipher!Padded(text), span, a)
    <3>1. span \in Nat
      BY <1>1, <1>9 DEF SizesInv
    <3>2. \A x \in 1 .. span : memory[a + x] = Cipher!Padded(text)[a + x]
      <4>1. a + span <= size /\ size \in Nat
        BY <1>4, <2>2 DEF Whole
      <4>2. \A x \in 1 .. span : a + x \in 1 .. size
        BY <2>2, <3>1, <4>1
      <4> QED  BY <1>8, <4>2
    <3> QED  BY <3>2 DEF Slice
  <2> QED  BY <1>10, <2>1, <2>2 DEF EncryptInv
<1> QED  BY <1>9, <1>11 DEF Cipher!Init, CipherInv, DecryptInv, Cipher!TextSurvives

LEMMA EncryptNext == CipherInv /\ Cipher!EncryptBlock => CipherInv'
<1> SUFFICES ASSUME SizesInv, EncryptInv, Cipher!EncryptBlock PROVE CipherInv'
  BY DEF CipherInv
<1> DEFINE at == Cipher!At
           plain == Slice(memory, span, at)
           block == Encipher(Cipher!Chained(plain, IV))
<1>1. span \in Nat \ {0} /\ BF_BLKSIZE \in Nat \ {0} /\ span \in {BF_BLKSIZE, 2 * BF_BLKSIZE}
  BY BytesAssumption DEF SizesInv
<1>2. /\ stage = "encrypt" /\ lCount < size /\ Cipher!Forward
      /\ UNCHANGED <<span, stage, text, size>>
  BY DEF Cipher!EncryptBlock, Cipher!Forward
<1>3. IV \in [1 .. BF_BLKSIZE -> Byte] /\ size \in Nat /\ Len(memory) = 2 * size + 1
  BY SizeLemma DEF SizesInv
<1>4. Cipher!Block = plain /\ plain \in [1 .. span -> Byte]
  BY <1>2, BlockLemma
<1>5. Cipher!Put(block) /\ IV' = Cipher!First(block)
  BY <1>4 DEF Cipher!EncryptBlock
<1>6. at \in Starts(span) /\ at \in Nat /\ at + span <= Len(memory)
  BY <1>1, <1>2, Positions, Apart
<1> HIDE DEF at, plain
<1>7. block \in [1 .. span -> Byte] /\ Cipher!Chained(Decipher(block), IV) = plain
  <2>1. /\ Cipher!Chained(plain, IV) \in [1 .. span -> Byte]
        /\ Cipher!Chained(Cipher!Chained(plain, IV), IV) = plain
    BY <1>3, <1>4, ChainTwice
  <2> QED  BY <1>1, <2>1, CipherAssumption
<1> HIDE DEF block
<1>8. IV' = [x \in 1 .. BF_BLKSIZE |-> block[x]] /\ IV' \in [1 .. BF_BLKSIZE -> Byte]
  BY <1>5, <1>7, FirstLemma
<1>9. SizesInv' /\ Cipher!At' = at + span
  BY <1>2, <1>5, <1>7, <1>8, SizesNext DEF at
<1>10. Slice(memory', span, at) = block
  BY <1>2, <1>5, <1>7, PutLemma DEF at
<1>11. IV = Previous(memory, span, at)
  BY <1>2 DEF EncryptInv, at
<1>12. IV' = Previous(memory', span, at + span)
  <2>1. at + span # 0 /\ (at + span) - span = at
    BY <1>1, <1>6
  <2>2. \A x \in 1 .. BF_BLKSIZE : memory'[at + x] = block[x]
    <3> SUFFICES ASSUME NEW x \in 1 .. BF_BLKSIZE PROVE memory'[at + x] = block[x]
      OBVIOUS
    <3>1. x \in 1 .. span
      BY <1>1
    <3>2. Slice(memory', span, at)[x] = memory'[at + x]
      BY <3>1 DEF Slice
    <3> QED  BY <1>10, <3>2
  <2> QED  BY <1>8, <2>1, <2>2 DEF Previous, Slice
<1>13. ASSUME NEW a \in Nat, Whole(a)
       PROVE  IF a < at + span
              THEN Cipher!Chained(Decipher(Slice(memory', span, a)), Previous(memory', span, a))
                     = Slice(Cipher!Padded(text), span, a)
              ELSE Slice(memory', span, a) = Slice(Cipher!Padded(text), span, a)
  <2>1. a \in Starts(span) /\ a + span <= Len(memory)
    BY <1>1, <1>3, <1>13 DEF Whole
  <2>2. a < at \/ a = at \/ at + span <= a
    BY <1>1, <1>6, <2>1, Apart
  <2>3. a # at => Slice(memory', span, a) = Slice(memory, span, a)
    BY <1>2, <1>5, <1>7, <2>1, PutLemma DEF at
  <2>4. a # at + span => Previous(memory', span, a) = Previous(memory, span, a)
    BY <1>2, <1>5, <1>7, <2>1, PreviousKept DEF at
  <2>5. IF a < at
        THEN Cipher!Chained(Decipher(Slice(memory, span, a)), Previous(memory, span, a))
               = Slice(Cipher!Padded(text), span, a)
        ELSE Slice(memory, span, a) = Slice(Cipher!Padded(text), span, a)
    BY <1>2, <1>13 DEF EncryptInv, at
  <2>6. CASE a < at
    <3>1. a < at + span /\ a # at /\ a # at + span
      BY <1>1, <1>6, <2>6
    <3> QED  BY <2>3, <2>4, <2>5, <2>6, <3>1
  <2>7. CASE a = at
    <3>1. a < at + span /\ ~(a < at) /\ a # at + span
      BY <1>1, <1>6, <2>7
    <3>2. plain = Slice(Cipher!Padded(text), span, a)
      BY <2>5, <2>7, <3>1 DEF plain
    <3> QED  BY <1>7, <1>10, <1>11, <2>4, <2>7, <3>1, <3>2
  <2>8. CASE at + span <= a
    <3>1. ~(a < at + span) /\ ~(a < at) /\ a # at
      BY <1>1, <1>6, <2>8
    <3> QED  BY <2>3, <2>5, <3>1
  <2> QED  BY <2>2, <2>6, <2>7, <2>8
<1>14. EncryptInv'
  <2>1. \A a : Whole(a)' = Whole(a)
    BY <1>2 DEF Whole
  <2> QED  BY <1>2, <1>9, <1>12, <1>13, <2>1 DEF EncryptInv
<1> QED  BY <1>2, <1>9, <1>14 DEF CipherInv, DecryptInv, Cipher!TextSurvives

LEMMA SendNext == CipherInv /\ Cipher!Send => CipherInv'
<1> SUFFICES ASSUME SizesInv, EncryptInv, Cipher!Send PROVE CipherInv'
  BY DEF CipherInv
<1> DEFINE datagram == SubSeq(memory, 1, size)
<1>1. span \in Nat \ {0} /\ BF_BLKSIZE \in Nat \ {0} /\ size \in Nat
  BY BytesAssumption, SizeLemma DEF SizesInv
<1>2. /\ stage = "encrypt" /\ lCount = size /\ stage' = "decrypt" /\ lCount' = 0
      /\ IV' = Cipher!Zeros /\ reach' = size /\ UNCHANGED <<span, text, size>>
  BY DEF Cipher!Send
<1>3. PICK byte \in Rest : memory' = Cipher!Behind(datagram, size + 1, byte)
  BY DEF Cipher!Send
<1>4. byte \in Byte /\ size + 1 \in Nat
  BY <1>1, BytesAssumption
<1>5. memory \in Seq(Byte) /\ Len(memory) = 2 * size + 1
  BY DEF SizesInv
<1>6. /\ datagram \in Seq(Byte) /\ Len(datagram) = size
      /\ \A x \in 1 .. size : datagram[x] = memory[x]
  BY <1>1, <1>5
<1> HIDE DEF datagram
<1>7. /\ memory' \in Seq(Byte) /\ Len(memory') = size + (size + 1)
      /\ \A x \in 1 .. size : memory'[x] = memory[x]
  BY <1>3, <1>4, <1>6, BehindLemma
<1>8. SizesInv'
  <2>1. 0 = 0 * BF_BLKSIZE
    BY <1>1
  <2>2. lCount' \in Starts(BF_BLKSIZE) /\ lCount' <= size
    BY <1>1, <1>2, <2>1 DEF Starts
  <2>3. IV' \in [1 .. BF_BLKSIZE -> Byte]
    BY <1>1, <1>2, BytesAssumption DEF Cipher!Zeros
  <2>4. Len(memory') = 2 * size + 1
    BY <1>1, <1>7
  <2>5. Cipher!StaysInBuffer'
    BY <1>1, <1>2 DEF Cipher!StaysInBuffer
  <2> QED  BY <1>2, <1>7, <2>2, <2>3, <2>4, <2>5 DEF SizesInv
<1>9. Cipher!At' = 0
  <2>1. 0 \div BF_BLKSIZE = 0 /\ 0 * span = 0
    BY <1>1
  <2> QED  BY <1>2, <2>1 DEF Cipher!At
<1>10. ASSUME NEW a \in Nat, Whole(a)
       PROVE  Cipher!Chained(Decipher(Slice(memory', span, a)),
                             IF a = 0 THEN IV' ELSE Previous(memory', span, a))
                = Slice(Cipher!Padded(text), span, a)
  <2>1. a < Cipher!At
    BY <1>2, <1>10, Positions
  <2>2. Cipher!Chained(Decipher(Slice(memory, span, a)), Previous(memory, span, a))
          = Slice(Cipher!Padded(text), span, a)
    BY <1>2, <1>10, <2>1 DEF EncryptInv
  <2>3. Slice(memory', span, a) = Slice(memory, span, a)
    <3>1. \A x \in 1 .. span : memory'[a + x] = memory[a + x]
      BY <1>1, <1>7, <1>10 DEF Whole
    <3> QED  BY <3>1 DEF Slice
  <2>4. a # 0 => Slice(memory', BF_BLKSIZE, a - span) = Slice(memory, BF_BLKSIZE, a - span)
    <3> SUFFICES ASSUME a # 0
                 PROVE  Slice(memory', BF_BLKSIZE, a - span) = Slice(memory, BF_BLKSIZE, a - span)
      OBVIOUS
    <3>1. a - span \in Starts(span)
      BY <1>1, <1>10, Apart DEF Whole
    <3>2. a - span \in Nat
      BY <1>1, <3>1, Apart
    <3>3. BF_BLKSIZE <= span
      BY <1>1 DEF SizesInv
    <3>4. \A x \in 1 .. BF_BLKSIZE : (a - span) + x \in 1 .. size
      BY <1>1, <1>10, <3>2, <3>3 DEF Whole
    <3> QED  BY <1>7, <3>4 DEF Slice
  <2>5. (IF a = 0 THEN IV' ELSE Previous(memory', span, a)) = Previous(memory, span, a)
    BY <1>2, <2>4 DEF Previous
  <2> QED  BY <2>2, <2>3, <2>5
<1>11. DecryptInv'
  <2>1. \A a : Whole(a)' = Whole(a)
    BY <1>2 DEF Whole
  <2>2. \A a \in Nat : ~(a < 0)
    OBVIOUS
  <2> QED  BY <1>2, <1>9, <1>10, <2>1, <2>2 DEF DecryptInv
<1> QED  BY <1>2, <1>8, <1>11 DEF CipherInv, EncryptInv, Cipher!TextSurvives

LEMMA DecryptNext == CipherInv /\ Cipher!DecryptBlock => CipherInv'
<1> SUFFICES ASSUME SizesInv, DecryptInv, Cipher!DecryptBlock PROVE CipherInv'
  BY DEF CipherInv
<1> DEFINE at == Cipher!At
           ciphered == Slice(memory, span, at)
           block == Cipher!Chained(Decipher(ciphered), IV)
<1>1. span \in Nat \ {0} /\ BF_BLKSIZE \in Nat \ {0} /\ span \in {BF_BLKSIZE, 2 * BF_BLKSIZE}
  BY BytesAssumption DEF SizesInv
<1>2. /\ stage = "decrypt" /\ lCount < size /\ Cipher!Forward
      /\ UNCHANGED <<span, stage, text, size>>
  BY DEF Cipher!DecryptBlock, Cipher!Forward
<1>3. IV \in [1 .. BF_BLKSIZE -> Byte] /\ size \in Nat /\ Len(memory) = 2 * size + 1
  BY SizeLemma DEF SizesInv
<1>4. Cipher!Block = ciphered /\ ciphered \in [1 .. span -> Byte]
  BY <1>2, BlockLemma
<1>5. Cipher!Put(block)
  BY <1>4 DEF Cipher!DecryptBlock
<1>6. at \in Starts(span) /\ at \in Nat /\ at + span <= Len(memory)
  BY <1>1, <1>2, Positions, Apart
<1>7. IV' = Slice(memory, BF_BLKSIZE, at) /\ IV' \in [1 .. BF_BLKSIZE -> Byte]
  BY <1>2, <1>6, BlockLemma, Slices DEF Cipher!DecryptBlock
<1> HIDE DEF at, ciphered
<1>8. block \in [1 .. span -> Byte]
  BY <1>1, <1>3, <1>4, CipherAssumption, ChainTwice
<1>9. SizesInv' /\ Cipher!At' = at + span
  <2> HIDE DEF block
  <2> QED  BY <1>2, <1>5, <1>7, <1>8, SizesNext DEF at
<1>10. Slice(memory', span, at) = block
  <2> HIDE DEF block
  <2> QED  BY <1>2, <1>5, <1>8, PutLemma DEF at
<1>11. ASSUME NEW a \in Nat, Whole(a)
       PROVE  IF a < at + span
              THEN Slice(memory', span, a) = Slice(Cipher!Padded(text), span, a)
              ELSE Cipher!Chained(Decipher(Slice(memory', span, a)),
                                  IF a = at + span THEN IV' ELSE Previous(memory', span, a))
                     = Slice(Cipher!Padded(text), span, a)
  <2>1. a \in Starts(span) /\ a + span <= Len(memory)
    BY <1>1, <1>3, <1>11 DEF Whole
  <2>2. a < at \/ a = at \/ at + span <= a
    BY <1>1, <1>6, <2>1, Apart
  <2>3. /\ a # at => Slice(memory', span, a) = Slice(memory, span, a)
        /\ a # at + span => Previous(memory', span, a) = Previous(memory, span, a)
    <3> HIDE DEF block
    <3> QED  BY <1>2, <1>5, <1>8, <2>1, PutLemma, PreviousKept DEF at
  <2>4. IF a < at
        THEN Slice(memory, span, a) = Slice(Cipher!Padded(text), span, a)
        ELSE Cipher!Chained(Decipher(Slice(memory, span, a)),
                            IF a = at THEN IV ELSE Previous(memory, span, a))
               = Slice(Cipher!Padded(text), span, a)
    BY <1>2, <1>11 DEF DecryptInv, at
  <2>5. CASE a < at
    <3>1. a < at + span /\ a # at
      BY <1>1, <1>6, <2>5
    <3> QED  BY <2>3, <2>4, <2>5, <3>1
  <2>6. CASE a = at
    <3>1. a < at + span /\ ~(a < at)
      BY <1>1, <1>6, <2>6
    <3>2. block = Slice(Cipher!Padded(text), span, a)
      BY <2>4, <2>6, <3>1 DEF ciphered
    <3> QED  BY <1>10, <2>6, <3>1, <3>2
  <2>7. CASE at + span <= a
    <3>1. ~(a < at + span) /\ ~(a < at) /\ a # at
      BY <1>1, <1>6, <2>7
    <3>2. Cipher!Chained(Decipher(Slice(memory, span, a)), Previous(memory, span, a))
            = Slice(Cipher!Padded(text), span, a)
      BY <2>4, <3>1
    <3>3. (IF a = at + span THEN IV' ELSE Previous(memory', span, a)) = Previous(memory, span, a)
      <4>1. CASE a = at + span
        <5>1. a # 0 /\ a - span = at
          BY <1>1, <1>6, <4>1
        <5> QED  BY <1>7, <4>1, <5>1 DEF Previous
      <4>2. CASE a # at + span
        BY <2>3, <4>2
      <4> QED  BY <4>1, <4>2
    <3> QED  BY <2>3, <3>1, <3>2, <3>3
  <2> QED  BY <2>2, <2>5, <2>6, <2>7
<1>12. DecryptInv'
  <2>1. \A a : Whole(a)' = Whole(a)
    BY <1>2 DEF Whole
  <2> QED  BY <1>2, <1>9, <1>11, <2>1 DEF DecryptInv
<1> QED  BY <1>2, <1>9, <1>12 DEF CipherInv, EncryptInv, Cipher!TextSurvives

LEMMA UnpadNext == CipherInv /\ Cipher!Unpad => CipherInv'
<1> SUFFICES ASSUME SizesInv, DecryptInv, Cipher!Unpad PROVE CipherInv'
  BY DEF CipherInv
<1> DEFINE n == memory[size]
           L == Len(text)
           padded == Cipher!Padded(text)
<1>1. /\ span \in Nat \ {0} /\ BF_BLKSIZE \in Nat \ {0}
      /\ span = BF_BLKSIZE \/ span = 2 * BF_BLKSIZE
      /\ size \in Nat /\ size \in Starts(BF_BLKSIZE) /\ size - L \in 1 .. BF_BLKSIZE
  BY BytesAssumption, SizeLemma DEF SizesInv
<1>2. /\ stage = "decrypt" /\ lCount = size /\ stage' = "done"
      /\ UNCHANGED <<span, text, size, lCount, IV, reach>>
  BY DEF Cipher!Unpad
<1>3. /\ memory \in Seq(Byte) /\ Len(memory) = 2 * size + 1
      /\ text \in Seq(Byte) /\ text \in Seq(Byte \ {0}) /\ L \in Nat
  BY DEF SizesInv
<1>4. \/ /\ n \in 1 .. BF_BLKSIZE /\ memory[size - n + 1] = n
         /\ returned' = size - n /\ memory' = [memory EXCEPT ![size - n + 1] = 0]
      \/ /\ ~(n \in 1 .. BF_BLKSIZE /\ memory[size - n + 1] = n)
         /\ returned' = 0 /\ memory' = memory
  BY DEF Cipher!Unpad
<1> HIDE DEF n
<1>5. size >= BF_BLKSIZE
  <2>1. 0 \in Starts(BF_BLKSIZE) /\ 0 < size
    <3>1. 0 = 0 * BF_BLKSIZE
      BY <1>1
    <3> QED  BY <1>1, <1>3, <3>1 DEF Starts
  <2>2. 0 + BF_BLKSIZE <= size
    BY <1>1, <2>1, Apart
  <2> QED  BY <1>1, <2>2
<1>6. SizesInv'
  <2>1. memory' \in Seq(Byte) /\ Len(memory') = 2 * size + 1
    <3>1. CASE memory' = memory
      BY <1>3, <3>1
    <3>2. CASE n \in 1 .. BF_BLKSIZE /\ memory' = [memory EXCEPT ![size - n + 1] = 0]
      <4> DEFINE p == size - n + 1
      <4>1. p \in 1 .. Len(memory)
        BY <1>1, <1>3, <1>5, <3>2
      <4> HIDE DEF p
      <4>2. memory' = [memory EXCEPT ![p] = 0] /\ 0 \in Byte
        BY <1>1, <3>2, BytesAssumption DEF p
      <4> QED  BY <1>3, <4>1, <4>2
    <3> QED  BY <1>4, <3>1, <3>2
  <2>2. Cipher!StaysInBuffer'
    BY <1>2 DEF SizesInv, Cipher!StaysInBuffer
  <2> QED  BY <1>2, <2>1, <2>2 DEF SizesInv
<1>7. /\ Len(padded) = size
      /\ \A x \in 1 .. L : padded[x] = text[x]
      /\ \A x \in L + 1 .. size : padded[x] = size - L
  <2> DEFINE p == size - L
  <2>1. size = Cipher!GetOutputLength(Len(text))
    BY DEF SizesInv
  <2>2. p \in 1 .. BF_BLKSIZE /\ size = Len(text) + p
    BY <1>1, <1>3
  <2> HIDE DEF p
  <2>3. /\ Len(padded) = Len(text) + p
        /\ \A x \in 1 .. Len(text) : padded[x] = text[x]
        /\ \A x \in Len(text) + 1 .. Len(text) + p : padded[x] = p
    BY <1>3, <2>1, <2>2, PaddedLemma DEF padded
  <2> QED  BY <2>2, <2>3 DEF p
<1> HIDE DEF padded
<1>8. ASSUME NEW x \in 1 .. size - (size % span) PROVE memory[x] = padded[x]
  <2>1. PICK a \in Nat : Whole(a) /\ x - a \in 1 .. span
    BY InWhole
  <2>2. a < Cipher!At
    BY <1>2, <2>1, Positions
  <2>3. Slice(memory, span, a) = Slice(padded, span, a)
    BY <1>2, <2>1, <2>2 DEF DecryptInv, padded
  <2>4. Slice(memory, span, a)[x - a] = memory[x] /\ Slice(padded, span, a)[x - a] = padded[x]
    <3>1. a + (x - a) = x
      BY <1>1
    <3> QED  BY <2>1, <3>1 DEF Slice
  <2> QED  BY <2>3, <2>4
<1>9. /\ Len(Append(text, 0)) = L + 1 /\ Append(text, 0)[L + 1] = 0
      /\ DOMAIN Append(text, 0) = 1 .. L + 1
      /\ \A x \in 1 .. L : Append(text, 0)[x] = text[x]
  BY <1>3
<1>10. ASSUME size % span = 0
       PROVE  /\ returned' = L /\ memory'[L + 1] = 0
              /\ \A x \in 1 .. L : memory'[x] = text[x]
  <2>1. \A x \in 1 .. size : memory[x] = padded[x]
    BY <1>1, <1>8, <1>10
  <2>2. n = size - L
    BY <1>1, <1>3, <1>7, <2>1 DEF n
  <2>3. size - n + 1 = L + 1 /\ L + 1 \in 1 .. size
    BY <1>1, <1>3, <2>2
  <2>4. memory[L + 1] = n
    BY <1>7, <2>1, <2>2, <2>3
  <2>5. size - n = L /\ L + 1 \in DOMAIN memory
    BY <1>1, <1>3, <2>2, <2>3
  <2>6. returned' = L /\ memory' = [memory EXCEPT ![L + 1] = 0]
    BY <1>1, <1>4, <2>2, <2>3, <2>4, <2>5
  <2>7. \A x \in 1 .. L : x \in 1 .. size /\ x # L + 1
    BY <1>1, <1>3
  <2> QED  BY <1>3, <1>7, <2>1, <2>5, <2>6, <2>7
<1>11. ASSUME size % span # 0
       PROVE  \A x \in 1 .. size - (size % span) : x \in 1 .. L /\ memory'[x] = text[x]
  <2>1. span = 2 * BF_BLKSIZE
    <3>1. PICK m \in Nat : size = m * BF_BLKSIZE
      BY <1>1 DEF Starts
    <3>2. size % BF_BLKSIZE = 0
      BY <1>1, <3>1
    <3> QED  BY <1>1, <1>11, <3>2
  <2>2. size % span >= BF_BLKSIZE
    <3> DEFINE q == size \div span
               rest == size % span
               b == (2 * q) * BF_BLKSIZE
    <3>1. q \in Nat /\ rest \in Nat /\ size = q * span + rest
      BY <1>1, Divide
    <3> HIDE DEF q, rest
    <3>2. q * span = b
      BY <1>1, <2>1, <3>1
    <3>3. b \in Starts(BF_BLKSIZE)
      <4>1. 2 * q \in Nat
        BY <3>1
      <4> QED  BY <4>1 DEF Starts
    <3> HIDE DEF b
    <3>4. b \in Nat /\ size = b + rest /\ rest # 0
      BY <1>1, <1>11, <3>1, <3>2, <3>3, Apart DEF rest
    <3>5. b + BF_BLKSIZE <= size
      <4>1. b < size
        BY <1>1, <3>1, <3>4
      <4> QED  BY <1>1, <3>3, <4>1, Apart
    <3>6. rest >= BF_BLKSIZE
      BY <1>1, <3>1, <3>4, <3>5
    <3> QED  BY <3>6 DEF rest
  <2> SUFFICES ASSUME NEW x \in 1 .. size - (size % span)
               PROVE  x \in 1 .. L /\ memory'[x] = text[x]
    OBVIOUS
  <2>3. size % span \in Nat
    BY <1>1
  <2>4. x \in 1 .. L /\ x <= size - BF_BLKSIZE /\ x \in 1 .. size
    BY <1>1, <1>3, <2>2, <2>3
  <2>5. memory[x] = text[x]
    BY <1>7, <1>8, <2>4
  <2>6. memory'[x] = memory[x]
    <3>1. x \in DOMAIN memory
      BY <1>1, <1>3, <2>4
    <3>2. CASE n \in 1 .. BF_BLKSIZE /\ memory' = [memory EXCEPT ![size - n + 1] = 0]
      <4>1. x # size - n + 1
        BY <1>1, <2>4, <3>2
      <4> QED  BY <3>1, <3>2, <4>1
    <3>3. CASE memory' = memory
      BY <3>3
    <3> QED  BY <1>4, <3>2, <3>3
  <2> QED  BY <2>4, <2>5, <2>6
<1>12. Cipher!TextSurvives'
  <2>1. CASE size % span = 0
    <3>1. \A x \in 1 .. L + 1 : memory'[x] = Append(text, 0)[x]
      BY <1>3, <1>9, <1>10, <2>1
    <3> QED  BY <1>2, <1>9, <1>10, <2>1, <3>1 DEF Cipher!TextSurvives
  <2>2. CASE size % span # 0
    BY <1>2, <1>9, <1>11, <2>2 DEF Cipher!TextSurvives
  <2> QED  BY <2>1, <2>2
<1> QED  BY <1>2, <1>6, <1>12 DEF CipherInv, EncryptInv, DecryptInv

\* The invariant of a text on its way.
LEMMA CipherInvariance == GroupSpec => []CipherInv
<1>1. GroupInit => CipherInv
  BY CipherInit DEF GroupInit
<1>2. CipherInv /\ [GroupNext]_groupVars => CipherInv'
  <2> SUFFICES ASSUME CipherInv, [GroupNext]_groupVars PROVE CipherInv'
    OBVIOUS
  <2>1. CASE Way
    BY <2>1, EncryptNext, SendNext, DecryptNext, UnpadNext DEF Way, Cipher!Next
  <2>2. CASE UNCHANGED cipherVars
    BY <2>2 DEF cipherVars, CipherInv, SizesInv, EncryptInv, DecryptInv, Cipher!TextSurvives,
                Cipher!StaysInBuffer, Cipher!At, Whole
  <2> QED  BY <2>1, <2>2 DEF GroupNext, Show, groupVars
<1> QED  BY <1>1, <1>2, PTL DEF GroupSpec

\* What Decrypt gives back is what was typed, for every text, every size of a
\* block and every block cipher; in a build for 64 bits, up to the last span.
THEOREM DecryptsAsTyped == GroupSpec => []Deciphered
<1>1. CipherInv => Deciphered
  BY DEF CipherInv, SizesInv, Deciphered
<1> QED  BY <1>1, CipherInvariance, PTL

-----------------------------------------------------------------------------
(* The block cipher.  The trace of Blowfish_encipher is a chain in which    *)
(* round n leads from trace[n] to trace[n + 1], and Blowfish_decipher, with *)
(* its two halves exchanged, stands at trace[n + 1] before it undoes round  *)
(* n.                                                                       *)

\* What round n makes of the two halves.
ForwardLeft(n, a, b) ==
  IF n = 0 THEN WordXor(a, parray[0])
  ELSE IF n \in 1 .. NPASS /\ n % 2 = 0 THEN BF!RoundOf(a, b, n)
  ELSE a

ForwardRight(n, a, b) ==
  IF n = NPASS + 1 THEN WordXor(b, parray[NPASS + 1])
  ELSE IF n \in 1 .. NPASS /\ n % 2 = 1 THEN BF!RoundOf(b, a, n)
  ELSE b

Forward(n, a, b) == <<ForwardLeft(n, a, b), ForwardRight(n, a, b)>>

\* The rounds that were made: all of them once the enciphering has ended.
Made == IF phase = "encipher" THEN pass ELSE NPASS + 2

Rounds == \A n \in BF!Passes : n < Made => trace[n + 1] = Forward(n, trace[n][1], trace[n][2])

Stands ==
  /\ phase = "encipher" => trace[pass] = <<xl, xr>>
  /\ phase = "decipher" => trace[pass + 1] = <<xr, xl>>
  /\ phase = "done" => trace[0] = <<xl, xr>>

BlockInv == BF!TypeOK /\ Rounds /\ Stands

-----------------------------------------------------------------------------
\* A word that a round has changed is changed back by the same round.
LEMMA XorTwice ==
  ASSUME BF!XorAssumption
  PROVE  \A a, b \in Word : WordXor(a, b) \in Word /\ WordXor(WordXor(a, b), b) = a
  BY DEF BF!XorAssumption

LEMMA RoundTwice ==
  ASSUME BF!XorAssumption, BF!TypeOK, NEW n \in BF!Passes, NEW a \in Word, NEW b \in Word
  PROVE  BF!RoundOf(a, b, n) \in Word /\ BF!RoundOf(BF!RoundOf(a, b, n), b, n) = a
  <1>1. F[b] \in Word /\ parray[n] \in Word
    BY DEF BF!TypeOK
  <1>2. WordXor(F[b], parray[n]) \in Word
    BY <1>1, XorTwice
  <1> QED
    BY <1>2, XorTwice DEF BF!RoundOf

LEMMA BlockInvInit ==
  ASSUME BF!PassAssumption
  PROVE  BF!Init => BlockInv
  <1> SUFFICES ASSUME BF!Init PROVE BlockInv
    OBVIOUS
  <1> USE DEF BF!PassAssumption
  <1>1. BF!TypeOK
    <2>1. pass \in BF!Passes
      BY DEF BF!Init, BF!Passes
    <2>2. trace \in [0 .. NPASS + 2 -> Word \X Word]
      BY DEF BF!Init
    <2> QED
      BY <2>1, <2>2 DEF BF!Init, BF!TypeOK
  <1>2. Rounds
    BY DEF BF!Init, Rounds, Made, BF!Passes
  <1>3. Stands
    BY DEF BF!Init, Stands
  <1> QED
    BY <1>1, <1>2, <1>3 DEF BlockInv

\* A step of BF!Blowfish_encipher makes round n of what trace[n] holds.
LEMMA EncipherForward ==
  ASSUME BF!XorAssumption, BF!PassAssumption, BlockInv, BF!Blowfish_encipher, UNCHANGED <<parray, F>>
  PROVE  /\ phase = "encipher" /\ phase' \in {"encipher", "decipher"}
         /\ phase' = "encipher" => pass' = pass + 1
         /\ phase' = "decipher" => pass = NPASS + 1 /\ pass' = pass
         /\ xl' \in Word /\ xr' \in Word
         /\ trace' = [trace EXCEPT ![pass + 1] = Forward(pass, xl, xr)]
         /\ Forward(pass, xl, xr) = IF phase' = "encipher" THEN <<xl', xr'>> ELSE <<xr', xl'>>
  <1> USE DEF BF!PassAssumption
  <1>1. BF!TypeOK /\ Stands
    BY DEF BlockInv
  <1>2. pass \in BF!Passes /\ xl \in Word /\ xr \in Word
    BY <1>1 DEF BF!TypeOK
  <1>3. parray[0] \in Word /\ parray[NPASS + 1] \in Word
    BY <1>1 DEF BF!TypeOK, BF!Passes
  <1>4. CASE BF!EncipherFirst
    <2>1. pass = 0 /\ phase = "encipher" /\ phase' = phase /\ pass' = pass + 1
      BY <1>4 DEF BF!EncipherFirst, BF!Blowfish_encipher
    <2>2. xl' = WordXor(xl, parray[0]) /\ xl' \in Word /\ xr' = xr
      BY <1>2, <1>3, <1>4, XorTwice DEF BF!EncipherFirst
    <2>3. ForwardLeft(pass, xl, xr) = xl' /\ ForwardRight(pass, xl, xr) = xr'
      BY <2>1, <2>2 DEF ForwardLeft, ForwardRight
    <2> QED
      BY <1>2, <2>1, <2>2, <2>3 DEF BF!Blowfish_encipher, Forward
  <1>5. CASE BF!EncipherPass
    <2>1. pass \in 1 .. NPASS /\ phase = "encipher" /\ phase' = phase /\ pass' = pass + 1
      BY <1>5 DEF BF!EncipherPass, BF!Blowfish_encipher
    <2>2. BF!RoundOf(xr, xl, pass) \in Word /\ BF!RoundOf(xl, xr, pass) \in Word
      BY <1>1, <1>2, RoundTwice
    <2>3. xl' \in Word /\ xr' \in Word
      BY <1>2, <1>5, <2>2 DEF BF!EncipherPass
    <2>4. pass % 2 = 0 \/ pass % 2 = 1
      BY <2>1
    <2>5. ForwardLeft(pass, xl, xr) = xl' /\ ForwardRight(pass, xl, xr) = xr'
      BY <1>5, <2>1, <2>4 DEF BF!EncipherPass, ForwardLeft, ForwardRight
    <2> QED
      BY <1>2, <2>1, <2>3, <2>5 DEF BF!Blowfish_encipher, Forward
  <1>6. CASE BF!EncipherLast
    <2>1. pass = NPASS + 1 /\ phase = "encipher" /\ phase' = "decipher" /\ pass' = pass
      BY <1>6 DEF BF!EncipherLast, BF!Blowfish_encipher
    <2>2. xl' = WordXor(xr, parray[NPASS + 1]) /\ xl' \in Word /\ xr' = xl
      BY <1>2, <1>3, <1>6, XorTwice DEF BF!EncipherLast
    <2>3. ForwardLeft(pass, xl, xr) = xr' /\ ForwardRight(pass, xl, xr) = xl'
      BY <2>1, <2>2 DEF ForwardLeft, ForwardRight
    <2> QED
      BY <1>2, <2>1, <2>2, <2>3 DEF BF!Blowfish_encipher, Forward
  <1> QED
    BY <1>4, <1>5, <1>6 DEF BF!Blowfish_encipher

LEMMA EncipherInv ==
  ASSUME BF!XorAssumption, BF!PassAssumption, BlockInv, BF!Blowfish_encipher, UNCHANGED <<parray, F>>
  PROVE  BlockInv'
  <1> USE DEF BF!PassAssumption
  <1> DEFINE next == Forward(pass, xl, xr)
  <1>1. BF!TypeOK /\ Rounds /\ Stands
    BY DEF BlockInv
  <1>2. /\ phase = "encipher" /\ phase' \in {"encipher", "decipher"}
        /\ phase' = "encipher" => pass' = pass + 1
        /\ phase' = "decipher" => pass = NPASS + 1 /\ pass' = pass
        /\ xl' \in Word /\ xr' \in Word
        /\ trace' = [trace EXCEPT ![pass + 1] = next]
        /\ next = IF phase' = "encipher" THEN <<xl', xr'>> ELSE <<xr', xl'>>
    BY EncipherForward
  <1>3. pass \in BF!Passes /\ pass' \in BF!Passes
    <2>1. pass \in BF!Passes /\ pass' \in {pass, pass + 1}
      BY <1>1, <1>2 DEF BF!TypeOK
    <2>2. phase' = "encipher" => pass # NPASS + 1
      BY <1>2 DEF BF!Blowfish_encipher, BF!EncipherFirst, BF!EncipherPass, BF!EncipherLast
    <2> QED
      BY <1>2, <2>1, <2>2 DEF BF!Passes
  <1>4. trace \in [0 .. NPASS + 2 -> Word \X Word] /\ next \in Word \X Word
    BY <1>1, <1>2 DEF BF!TypeOK
  <1>5. BF!TypeOK'
    <2>1. trace' \in [0 .. NPASS + 2 -> Word \X Word]
      BY <1>2, <1>3, <1>4 DEF BF!Passes
    <2> QED
      BY <1>1, <1>2, <1>3, <2>1 DEF BF!TypeOK
  <1>6. trace[pass] = <<xl, xr>>
    BY <1>1, <1>2 DEF Stands
  <1>7. \A n \in BF!Passes : Forward(n, trace[n][1], trace[n][2])' = Forward(n, trace'[n][1], trace'[n][2])
    BY DEF Forward, ForwardLeft, ForwardRight, BF!RoundOf
  <1>8. Rounds'
    <2> SUFFICES ASSUME NEW n \in BF!Passes, n < Made'
                 PROVE  trace'[n + 1] = Forward(n, trace'[n][1], trace'[n][2])
      BY <1>7 DEF Rounds, Forward, ForwardLeft, ForwardRight, BF!RoundOf, BF!Passes
    <2>1. n \in 0 .. NPASS + 1 /\ pass \in 0 .. NPASS + 1 /\ n <= pass
      BY <1>2, <1>3 DEF Made, BF!Passes
    <2>2. trace'[n] = trace[n]
      BY <1>2, <1>4, <2>1
    <2>3. CASE n = pass
      BY <1>2, <1>4, <1>6, <2>1, <2>2, <2>3
    <2>4. CASE n < pass
      <3>1. trace[n + 1] = Forward(n, trace[n][1], trace[n][2])
        BY <1>1, <1>2, <2>4 DEF Rounds, Made
      <3> QED
        BY <1>2, <1>4, <2>1, <2>2, <2>4, <3>1
    <2> QED
      BY <2>1, <2>3, <2>4
  <1>9. Stands'
    <2>1. trace'[pass + 1] = next
      BY <1>2, <1>3, <1>4 DEF BF!Passes
    <2> QED
      BY <1>2, <2>1 DEF Stands
  <1> QED
    BY <1>5, <1>8, <1>9 DEF BlockInv

\* A step of BF!Blowfish_decipher undoes the round that led to where it stands.
LEMMA DecipherInv ==
  ASSUME BF!XorAssumption, BF!PassAssumption, BlockInv, BF!Blowfish_decipher, UNCHANGED <<parray, F>>
  PROVE  BlockInv'
  <1> USE DEF BF!PassAssumption
  <1>1. BF!TypeOK /\ Rounds /\ Stands
    BY DEF BlockInv
  <1>2. pass \in BF!Passes /\ xl \in Word /\ xr \in Word /\ trace' = trace /\ phase = "decipher"
    BY <1>1 DEF BF!TypeOK, BF!Blowfish_decipher, BF!DecipherFirst, BF!DecipherPass, BF!DecipherLast
  <1>3. PICK a \in Word, b \in Word : trace[pass] = <<a, b>>
    BY <1>1, <1>2 DEF BF!TypeOK, BF!Passes
  <1>4. ForwardLeft(pass, a, b) = xr /\ ForwardRight(pass, a, b) = xl
    <2>1. pass < Made
      BY <1>2 DEF Made, BF!Passes
    <2>2. trace[pass + 1] = Forward(pass, trace[pass][1], trace[pass][2])
      BY <1>1, <1>2, <2>1 DEF Rounds
    <2>3. trace[pass][1] = a /\ trace[pass][2] = b
      BY <1>3
    <2>4. trace[pass + 1] = <<xr, xl>>
      BY <1>1, <1>2 DEF Stands
    <2> QED
      BY <2>2, <2>3, <2>4 DEF Forward
  <1>5. parray[0] \in Word /\ parray[NPASS + 1] \in Word
    BY <1>1 DEF BF!TypeOK, BF!Passes
  <1>6. /\ xl' \in Word /\ xr' \in Word /\ pass' \in BF!Passes /\ phase' \in {"decipher", "done"}
        /\ phase' = "decipher" => pass' = pass - 1 /\ <<xr', xl'>> = <<a, b>>
        /\ phase' = "done" => pass = 0 /\ <<xl', xr'>> = <<a, b>>
    <2>1. CASE BF!DecipherFirst
      <3>1. xr = a /\ xl = WordXor(b, parray[NPASS + 1])
        BY <1>4, <2>1 DEF BF!DecipherFirst, ForwardLeft, ForwardRight
      <3>2. xl' = b /\ xr' = a
        BY <1>3, <1>5, <2>1, <3>1, XorTwice DEF BF!DecipherFirst
      <3> QED
        BY <1>2, <2>1, <3>2 DEF BF!DecipherFirst, BF!Blowfish_decipher, BF!Passes
    <2>2. CASE BF!DecipherPass
      <3>1. pass \in 1 .. NPASS /\ pass' = pass - 1 /\ phase' = phase
        BY <2>2 DEF BF!DecipherPass, BF!Blowfish_decipher
      <3>2. CASE pass % 2 = 1
        <4>1. xr = a /\ xl = BF!RoundOf(b, a, pass)
          BY <1>4, <3>1, <3>2 DEF ForwardLeft, ForwardRight
        <4>2. xl' = BF!RoundOf(xl, xr, pass) /\ xr' = xr
          BY <2>2, <3>2 DEF BF!DecipherPass
        <4>3. xl' = b
          BY <1>1, <1>2, <1>3, <4>1, <4>2, RoundTwice
        <4> QED
          BY <1>2, <1>3, <3>1, <4>1, <4>2, <4>3 DEF BF!Passes
      <3>3. CASE pass % 2 = 0
        <4>1. xr = BF!RoundOf(a, b, pass) /\ xl = b
          BY <1>4, <3>1, <3>3 DEF ForwardLeft, ForwardRight
        <4>2. xr' = BF!RoundOf(xr, xl, pass) /\ xl' = xl
          BY <2>2, <3>3 DEF BF!DecipherPass
        <4>3. xr' = a
          BY <1>1, <1>2, <1>3, <4>1, <4>2, RoundTwice
        <4> QED
          BY <1>2, <1>3, <3>1, <4>1, <4>2, <4>3 DEF BF!Passes
      <3> QED
        BY <3>1, <3>2, <3>3
    <2>3. CASE BF!DecipherLast
      <3>1. xr = WordXor(a, parray[0]) /\ xl = b
        BY <1>4, <2>3 DEF BF!DecipherLast, ForwardLeft, ForwardRight
      <3>2. xl' = a /\ xr' = b
        BY <1>3, <1>5, <2>3, <3>1, XorTwice DEF BF!DecipherLast
      <3> QED
        BY <1>2, <1>3, <2>3, <3>2 DEF BF!DecipherLast, BF!Blowfish_decipher, BF!Passes
    <2> QED
      BY <2>1, <2>2, <2>3 DEF BF!Blowfish_decipher
  <1>7. BF!TypeOK'
    BY <1>1, <1>2, <1>6 DEF BF!TypeOK
  <1>8. Rounds'
    BY <1>1, <1>2, <1>6 DEF Rounds, Made, Forward, ForwardLeft, ForwardRight, BF!RoundOf
  <1>9. Stands'
    <2>1. phase' = "decipher" => trace'[pass' + 1] = <<xr', xl'>>
      BY <1>2, <1>3, <1>6 DEF BF!Passes
    <2>2. phase' = "done" => trace'[0] = <<xl', xr'>>
      BY <1>2, <1>3, <1>6
    <2> QED
      BY <1>6, <2>1, <2>2 DEF Stands
  <1> QED
    BY <1>7, <1>8, <1>9 DEF BlockInv

\* The invariant holds in every state.
THEOREM BlockInvariance ==
  ASSUME BF!XorAssumption, BF!PassAssumption
  PROVE  BF!Spec => []BlockInv
  <1>1. BlockInv /\ [BF!Next]_(BF!vars) => BlockInv'
    <2> SUFFICES ASSUME BlockInv, [BF!Next]_(BF!vars) PROVE BlockInv'
      OBVIOUS
    <2>1. CASE BF!Blowfish_encipher /\ UNCHANGED <<parray, F>>
      BY <2>1, EncipherInv
    <2>2. CASE BF!Blowfish_decipher /\ UNCHANGED <<parray, F>>
      BY <2>2, DecipherInv
    <2>3. CASE UNCHANGED BF!vars
      BY <2>3 DEF BlockInv, BF!TypeOK, Rounds, Stands, Made, Forward, ForwardLeft, ForwardRight, BF!RoundOf, BF!vars
    <2> QED
      BY <2>1, <2>2, <2>3 DEF BF!Next
  <1> QED
    BY BlockInvInit, <1>1, PTL DEF BF!Spec

\* BF!Blowfish_decipher gives back the block that BF!Blowfish_encipher was given,
\* whatever tables Initialize has left, for every even number of rounds.
THEOREM DecipherUndoes ==
  ASSUME BF!XorAssumption, BF!PassAssumption
  PROVE  BF!Spec => []BF!RoundTrip
  <1>1. BlockInv => BF!RoundTrip
    BY DEF BlockInv, Stands, BF!RoundTrip
  <1> QED
    BY BlockInvariance, <1>1, PTL

\* Whatever is enciphered, the tables and the blocks stay words.
THEOREM TypesHold ==
  ASSUME BF!XorAssumption, BF!PassAssumption
  PROVE  BF!Spec => []BF!TypeOK
  <1>1. BlockInv => BF!TypeOK
    BY DEF BlockInv
  <1> QED
    BY BlockInvariance, <1>1, PTL
=============================================================================
