------------------------------ MODULE GroupText ------------------------------
(***************************************************************************)
(* A group text from the sender's hand to the receiver's window:           *)
(* on_send_gpmessage of gchatbox.c enciphers it, on_buddy_sendgpmsg of     *)
(* process_msg.c deciphers it, and insert_msg_with_emotion_to_textview     *)
(* shows it.  The first two are GroupCipher, the last is Emotions, and one *)
(* thread of each program goes through them in turn.                       *)
(***************************************************************************)
EXTENDS Emotions, SequencesExt

CONSTANTS
  Bytes(_),     \* what stands for a piece of a message: a code is several bytes
  Byte, Xor(_, _), BF_BLKSIZE, Encipher(_), Decipher(_), Rest

(* Bytes hold the lengths of padding and are undone by a second ^, and the
   block cipher is one, which is what DecipherUndoes is about.               *)
ASSUME BytesAssumption ==
  /\ BF_BLKSIZE \in Nat \ {0} /\ 0 .. BF_BLKSIZE \subseteq Byte /\ Rest \subseteq Byte
  /\ \A a, b \in Byte : Xor(a, b) \in Byte /\ Xor(Xor(a, b), b) = a

ASSUME CipherAssumption ==
  \A width \in {BF_BLKSIZE, 2 * BF_BLKSIZE} : \A block \in [1 .. width -> Byte] :
    /\ Encipher(block) \in [1 .. width -> Byte]
    /\ Decipher(block) \in [1 .. width -> Byte]
    /\ Decipher(Encipher(block)) = block

VARIABLES span, stage, text, memory, size, lCount, IV, reach, returned

Cipher == INSTANCE GroupCipher

cipherVars == <<span, stage, text, memory, size, lCount, IV, reach, returned>>

groupVars == <<vars, cipherVars>>

\* The text that is typed.
Typed(message) == FlattenSeq([n \in DOMAIN message |-> Bytes(message[n])])

GroupInit ==
  /\ Init
  /\ text = Typed(msg)
  /\ Cipher!Init

Way == Cipher!Next /\ UNCHANGED vars

\* The string that Decrypt left, up to the first NUL.
String ==
  SubSeq(memory, 1, CHOOSE n \in 0 .. Len(memory) - 1 :
                      memory[n + 1] = 0 /\ \A b \in 1 .. n : memory[b] # 0)

\* What is shown is the string.  After Decrypt of a build for 64 bits, which has
\* not deciphered its end or has written behind its allocation, nothing follows.
Show ==
  /\ stage = "done" /\ Contains(memory, 0) /\ String = Typed(msg)
  /\ Next
  /\ UNCHANGED cipherVars

GroupNext == Way \/ Show

GroupSpec == GroupInit /\ [][GroupNext]_groupVars

-----------------------------------------------------------------------------
(* What Decrypt gives back is what was typed, up to the last whole span, and
   neither loop leaves its buffer in a build for 32 bits, whatever stood in the
   memory: the lengths of padding, blocks and string fit each other.         *)
Deciphered == Cipher!TextSurvives /\ Cipher!StaysInBuffer

\* The window read as a message.
Read ==
  FlattenSeq([n \in DOMAIN shown |->
                IF shown[n].id = NoPicture THEN SubSeq(str, shown[n].from, shown[n].to - 1)
                                           ELSE <<emotion_list[shown[n].id]>>])

(* A text in which the sender wrote no '#' is shown in the window of the
   receiver as it was typed, each code as its picture and all else as text.
   With a '#' it need not be: "#a" before a code makes a picture of "#a#".   *)
AsWritten == pc = "done" /\ ~Contains(msg, Hash) => Read = msg
==============================================================================
