----------------------------- MODULE GroupCipher -----------------------------
(***************************************************************************)
(* A group text on its way through Encrypt and Decrypt of blowfish.c, the  *)
(* modes BF_CBC and BF_PKCS5: on_send_gpmessage pads it, enciphers it in   *)
(* place and sends as many bytes as Encrypt returns; on_buddy_sendgpmsg    *)
(* deciphers them in an allocation of one byte more.                       *)
(*                                                                         *)
(* The loops count in blocks of BF_BLKSIZE bytes, but go forward in memory *)
(* by two DWORDs, which are unsigned longs: span is BF_BLKSIZE in a build  *)
(* for 32 bits, as the committed configuration is one, and twice that in a *)
(* build for 64.  The block cipher is the one of BlowFish, with the byte   *)
(* order changed before and behind it.                                     *)
(***************************************************************************)
EXTENDS Integers, SequencesExt

CONSTANTS
  Byte,
  Xor(_, _),
  BF_BLKSIZE,
  Encipher(_), Decipher(_),   \* of span bytes
  Rest                        \* what may stand in memory that was not written

VARIABLES
  span,     \* how far the loops go forward for a block, which the build decides
  stage,    \* "encrypt", "decrypt" or "done"
  text,     \* what was typed
  memory,   \* pOutput and what is behind it
  size,     \* lOutSize of Encrypt, which is lSize of Decrypt
  lCount,
  IV,
  reach,    \* how far the stage has written
  returned

vars == <<span, stage, text, memory, size, lCount, IV, reach, returned>>

\* BF_PKCS5 makes one byte more before the size is aligned.
GetOutputLength(n) == ((n + BF_BLKSIZE) \div BF_BLKSIZE) * BF_BLKSIZE

Padded(s) ==
  LET n == GetOutputLength(Len(s)) - Len(s) IN s \o [i \in 1 .. n |-> n]

\* What is behind a buffer is anything, here the same byte everywhere.
Behind(s, n, byte) == s \o [i \in 1 .. n |-> byte]

Zeros == [i \in 1 .. BF_BLKSIZE |-> 0]

\* Encrypt up to its loop.
Init ==
  /\ stage = "encrypt"
  /\ text \in Seq(Byte \ {0})
  /\ span \in {BF_BLKSIZE, 2 * BF_BLKSIZE}
  /\ size = GetOutputLength(Len(text))
  /\ \E byte \in Rest : memory = Behind(Padded(text), size + 1, byte)
  /\ lCount = 0
  /\ IV = Zeros
  /\ reach = size
  /\ returned = 0

\* dwOutput
At == (lCount \div BF_BLKSIZE) * span

Block == SubSeq(memory, At + 1, At + span)

Put(block) ==
  memory' = [i \in DOMAIN memory |-> IF i \in At + 1 .. At + span THEN block[i - At] ELSE memory[i]]

First(block) == SubSeq(block, 1, BF_BLKSIZE)

\* *(_int64 *)dwOutput ^= iv
Chained(block, iv) ==
  [i \in DOMAIN block |-> IF i \in DOMAIN iv THEN Xor(block[i], iv[i]) ELSE block[i]]

Forward ==
  /\ lCount < size
  /\ lCount' = lCount + BF_BLKSIZE
  /\ reach' = IF At + span > reach THEN At + span ELSE reach
  /\ UNCHANGED <<span, stage, text, size, returned>>

EncryptBlock ==
  /\ stage = "encrypt"
  /\ Forward
  /\ \E block \in {Encipher(Chained(Block, IV))} : Put(block) /\ IV' = First(block)

\* The datagram carries size bytes, and with them the size in its version;
\* Decrypt up to its loop.
Send ==
  /\ stage = "encrypt" /\ lCount = size
  /\ stage' = "decrypt"
  /\ \E byte \in Rest : memory' = Behind(SubSeq(memory, 1, size), size + 1, byte)
  /\ lCount' = 0
  /\ IV' = Zeros
  /\ reach' = size
  /\ UNCHANGED <<span, text, size, returned>>

\* Mutant: chained to the block that was just deciphered.
DecryptBlockPlain ==
  /\ stage = "decrypt"
  /\ Forward
  /\ \E block \in {Chained(Decipher(Block), IV)} : Put(block) /\ IV' = First(block)

DecryptBlock ==
  /\ stage = "decrypt"
  /\ Forward
  /\ Put(Chained(Decipher(Block), IV))
  /\ IV' = First(Block)

\* The last byte says how much padding there is; of the others only the first
\* is looked at.  After an error the result is 0 and nothing ends the string.
Unpad ==
  /\ stage = "decrypt" /\ lCount = size
  /\ stage' = "done"
  /\ LET n == memory[size] IN
     IF n \in 1 .. BF_BLKSIZE /\ memory[size - n + 1] = n
     THEN /\ returned' = size - n
          /\ memory' = [memory EXCEPT ![size - n + 1] = 0]
     ELSE /\ returned' = 0
          /\ UNCHANGED memory
  /\ UNCHANGED <<span, text, size, lCount, IV, reach>>

Next == EncryptBlock \/ Send \/ DecryptBlock \/ Unpad

Spec == Init /\ [][Next]_vars

-----------------------------------------------------------------------------
\* What Decrypt leaves begins with the text, as far as whole spans go: in a
\* build for 32 bits this is all of it, and the string ends where it did.
TextSurvives ==
  stage = "done" =>
    /\ LET string == Append(text, 0) IN
       \A i \in (1 .. size - (size % span)) \cap DOMAIN string : memory[i] = string[i]
    /\ size % span = 0 => returned = Len(text)

\* "Input buffer and output buffer can be the same, but be sure buffer length
\* is even MOD 8" (blowfish.c:191): in a build for 32 bits a buffer of the
\* aligned size is enough for both loops, in one for 64 it is for neither.
StaysInBuffer == span = BF_BLKSIZE => reach <= size
==============================================================================
