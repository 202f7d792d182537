------------------------------- MODULE BlowFish ------------------------------
(***************************************************************************)
(* The block cipher of blowfish.c: a block of two words goes through the   *)
(* rounds of Blowfish_encipher, and then through those of                  *)
(* Blowfish_decipher.  The tables that Initialize makes of a key are any   *)
(* tables here, and so is the function bf_F that it reads them by.         *)
(***************************************************************************)
EXTENDS Integers

CONSTANTS
  Word,     \* the values of a DWORD
  Xor(_, _), \* the operator ^ of C
  NPASS     \* the rounds, 16 in the code

\* What ^ and NPASS are in the code; the theorems about this module assume it.
XorAssumption ==
  \A a, b \in Word : Xor(a, b) \in Word /\ Xor(Xor(a, b), b) = a

PassAssumption == NPASS \in Nat /\ NPASS % 2 = 0

VARIABLES
  parray,   \* bf->PArray
  F,        \* bf_F
  phase,    \* "encipher", "decipher" or "done"
  pass,     \* the number of the next round
  xl, xr,   \* Xl and Xr; between the functions *xl and *xr
  trace     \* trace[n]: what <<Xl, Xr>> were before round n of Blowfish_encipher

vars == <<parray, F, phase, pass, xl, xr, trace>>

Passes == 0 .. NPASS + 1

\* Initialize leaves some words in the tables.
Init ==
  /\ parray \in [Passes -> Word]
  /\ F \in [Word -> Word]
  /\ phase = "encipher"
  /\ pass = 0
  /\ xl \in Word /\ xr \in Word
  /\ trace = [n \in 0 .. NPASS + 2 |-> <<xl, xr>>]

\* ROUND(a, b, n) makes this of a.
RoundOf(a, b, n) == Xor(a, Xor(F[b], parray[n]))

EncipherFirst ==
  /\ phase = "encipher" /\ pass = 0
  /\ xl' = Xor(xl, parray[0])
  /\ UNCHANGED <<phase, xr>>

\* ROUND(Xr, Xl, n) for an odd n, ROUND(Xl, Xr, n) for an even one.
EncipherPass ==
  /\ phase = "encipher" /\ pass \in 1 .. NPASS
  /\ IF pass % 2 = 1
     THEN xr' = RoundOf(xr, xl, pass) /\ UNCHANGED xl
     ELSE xl' = RoundOf(xl, xr, pass) /\ UNCHANGED xr
  /\ UNCHANGED phase

\* The halves are returned the other way round.
EncipherLast ==
  /\ phase = "encipher" /\ pass = NPASS + 1
  /\ xl' = Xor(xr, parray[NPASS + 1])
  /\ xr' = xl
  /\ phase' = "decipher"

Blowfish_encipher ==
  /\ EncipherFirst \/ EncipherPass \/ EncipherLast
  /\ pass' = IF pass = NPASS + 1 THEN pass ELSE pass + 1
  /\ trace' = [trace EXCEPT ![pass + 1] = IF phase' = phase THEN <<xl', xr'>> ELSE <<xr', xl'>>]

DecipherFirst ==
  /\ phase = "decipher" /\ pass = NPASS + 1
  /\ xl' = Xor(xl, parray[NPASS + 1])
  /\ UNCHANGED <<phase, xr>>

\* ROUND(Xr, Xl, n) for an even n, ROUND(Xl, Xr, n) for an odd one.
DecipherPass ==
  /\ phase = "decipher" /\ pass \in 1 .. NPASS
  /\ IF pass % 2 = 0
     THEN xr' = RoundOf(xr, xl, pass) /\ UNCHANGED xl
     ELSE xl' = RoundOf(xl, xr, pass) /\ UNCHANGED xr
  /\ UNCHANGED phase

DecipherLast ==
  /\ phase = "decipher" /\ pass = 0
  /\ xl' = Xor(xr, parray[0])
  /\ xr' = xl
  /\ phase' = "done"

Blowfish_decipher ==
  /\ DecipherFirst \/ DecipherPass \/ DecipherLast
  /\ pass' = IF pass = 0 THEN pass ELSE pass - 1
  /\ UNCHANGED trace

Next == (Blowfish_encipher \/ Blowfish_decipher) /\ UNCHANGED <<parray, F>>

Spec == Init /\ [][Next]_vars

-----------------------------------------------------------------------------
TypeOK ==
  /\ parray \in [Passes -> Word] /\ F \in [Word -> Word]
  /\ phase \in {"encipher", "decipher", "done"}
  /\ pass \in Passes
  /\ xl \in Word /\ xr \in Word
  /\ trace \in [0 .. NPASS + 2 -> Word \X Word]

\* Blowfish_decipher gives back the block that Blowfish_encipher was given,
\* whatever tables the key makes.
RoundTrip == phase = "done" => <<xl, xr>> = trace[0]
=============================================================================
