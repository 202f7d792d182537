----------------------------- MODULE MCGroupText -----------------------------
(* Texts of up to four pieces: digits of which some form a number above     *)
(* 95, a letter, '-', '#', and pictures of one and of two digits; bytes of  *)
(* four bits, blocks of two bytes, and a cipher of two rounds.              *)
EXTENDS GroupText

Bits == INSTANCE Bitwise

MCMessages ==
  BoundedSeq({1, 9, 6, Letter, Minus, Hash, emotion_list[0], emotion_list[7], emotion_list[95]}, 4) \ {<<>>}

\* A code of the pictures is two bytes, of which the first is in every code.
MCBytes(piece) ==
  CASE piece \in Char -> <<piece + 1>>
    [] piece = emotion_list[0] -> <<14, 1>>
    [] piece = emotion_list[7] -> <<14, 2>>
    [] piece = emotion_list[95] -> <<14, 3>>

MCByte == 0 .. 15
MCRest == {0, 2}
MCXor(a, b) == Bits!^^(a, b)

Half(b) == Len(b) \div 2
Left(b) == SubSeq(b, 1, Half(b))
Right(b) == SubSeq(b, Half(b) + 1, Len(b))
Mixed(a, b, key) == [n \in DOMAIN a |-> MCXor(a[n], (3 * b[Len(b) + 1 - n] + key) % 16)]

MCEncipher(b) ==
  LET r == Mixed(Right(b), Left(b), 1) IN Mixed(Left(b), r, 2) \o r

MCDecipher(b) ==
  LET l == Mixed(Left(b), Right(b), 2) IN l \o Mixed(Right(b), l, 1)
==============================================================================
