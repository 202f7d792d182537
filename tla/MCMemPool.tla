------------------------------ MODULE MCMemPool ------------------------------
(***************************************************************************)
(* A chunk of six words.  The requests are the empty one, one that shares  *)
(* a chunk with it in several ways, and one that no chunk holds.  The      *)
(* first words are the sizes of those blocks, one that is too small for    *)
(* both, and one so large that sums with it wrap round.                    *)
(***************************************************************************)
EXTENDS MemPool

MCRequests == {0, 2, 6}

MCFirstWords == {0, 2, 3, 14}
=============================================================================
